# A TLA+ model of PerpMirror

PerpMirror copies the perpetual-futures positions of one *leader* account into
any number of *follower* accounts. It does not copy orders: again and again it
reads the true positions, computes what each follower should hold, and trades
the difference. This directory models the part of it that is hard to get right:
the reconciliation of one position under lost answers and partial fills, the
ledger that keeps the program's positions apart from the account owner's, the
round that composes the two across crashes, the submission of one order through
the adapters, the leader's stream and the event handling it feeds, start-up and
shutdown, and the notification queue.

Everything here is translated from `src/perpmirror`; `PROJECT.json` maps every
definition to its lines.

## 1. Inventory

| Component | State | Operations | Hard behaviour | What makes it correct |
|---|---|---|---|---|
| `monitoring/ownership.py` PositionOwnership | blocked leader symbols; per follower protected, managed, observed, suspended symbols; the JSON state file | initialize, observe_leader, observe_follower_positions, mark_position_observed, protect_unmanaged, claim, release, load, save | memory first, file second; a write may fail; death between any two steps; files of version 1 | the four owners of a symbol never overlap; the file always loads and never lags; protection is permanent; a suspension lasts until the leader is flat |
| `copy/reconciler.py` Reconciler | a lock per (follower, symbol), a semaphore, a cooldown per key | reconcile: read, classify, check, execute, read again; the flip in three steps | every await is a point where other calls, the exchange and users act; lost answers; partial and chunked orders; bounded retries | never beyond the target, never through zero, truthful results, limits respected, always returns, always converges |
| `risk/manager.py` RiskManager | none | check | the positions it is given may be stale | increases are limited, exits are not |
| `execution/executor.py` ExecutionEngine | none | execute_delta, close | unknown order state; rounding, minimum and maximum | an order is posted once and asked for when its fate is unknown |
| `app.py` PerpMirrorApp | the round's snapshots and plan; the stop event; the tasks | startup_checks, initialize_position_ownership, full_reconcile, run, close | snapshots age while followers are handled in turn; failing parts; crash and restart | only own positions are traded, own positions stay managed, every trade is notified, everything heals |
| `monitoring/coalescer.py` ReconcileCoalescer | an event, a stop flag, a task | trigger, run, stop | triggers during the debounce or the round; stop at any time | no trigger is lost; stop completes |
| `notifications/worker.py` NotificationWorker, `feishu.py` FeishuNotifier | a bounded queue, a task | publish, run, stop; send_card with a text fallback | full queue, transient and permanent errors, draining | no card lost but by refusal; none repeated after delivery; stop returns |
| `exchanges/http.py` ReliableHttpClient | none | request | which failures are repeated, which become "unknown", which fall through | an order is never repeated by itself; every request ends |
| `exchanges/binance.py`, `okx.py` orders | clock offset, position mode | signed requests with one timestamp retry, place_market_order, verify_order, get_positions | lost and late answers, acknowledgement before fill, hedge mode's two legs | no order executes twice; a reduction never turns the position |
| `exchanges/binance.py`, `okx.py` streams | closed flag | connect_private_ws | broken connections, lost messages, a refused subscription | every change of the leader is read by a round |
| `copy/calculator.py` TargetCalculator | none | FIXED and RATIO sizing | equities of zero, leverage of zero | the target is on the leader's side |
| `fake/exchange.py` | positions, orders | place_market_order | reduce-only orders, partial fills | the model of the exchange |
| `symbols/mapper.py` | the listed instruments | supported | read once at start-up | a constant of the model |
| `config.py`, `models.py`, cards, CLI, logging | validation, layout | | none | not modelled |

How they interact. The leader's private stream, a reconnection and a timer
*trigger* the coalescer, which runs one `full_reconcile` at a time. A round reads
the leader, tells the ledger which leader symbols are gone, and then for each
follower in turn reads its positions, lets the ledger suspend, observe and
protect symbols, claims new ones, and calls `reconcile` for all planned symbols
at once (`asyncio.gather`). The calls share one semaphore; each talks to the
exchange through the executor after asking the risk manager. When all have
returned, their results are written to the ledger one by one and published to
the notification queue. The only state that survives the process is the
ownership file and the exchange accounts themselves.

## 2. Modules

| Module | Models | Uses |
|---|---|---|
| `OwnershipLedger` | the ledger as a value: one operator per method | |
| `PositionOwnership` | ledger, state file, crashes, restarts, arbitrary calls | `OwnershipLedger`, `CopyCycle` (refined) |
| `CopyCycle` | the abstract promise: one status per follower and symbol | |
| `PositionOwnershipProofs`, `PositionOwnershipRefinement` | theorems: the ledger and its file; their refinement of the cycle | `PositionOwnership` |
| `RiskManager`, `ExecutionEngine` | `check` as a predicate; order sizes | |
| `Reconciler` | the calls of `reconcile`, the exchange accounts, late orders, users | `RiskManager`, `ExecutionEngine` |
| `ReconcilerProofs` | theorems: calls, accounts, limits | `Reconciler` |
| `TargetCalculator` | the target of a follower, given leader and equities | |
| `PerpMirror` | the round and the process: composes `Reconciler` and `TargetCalculator` with `PositionOwnership` (`Own == INSTANCE ...`) | all three |
| `PerpMirrorProofs` | theorems: shape of the system, notifications, start-up positions, sides | `PerpMirror`, `ReconcilerProofs`, `PositionOwnershipProofs` |
| `PerpMirrorOwnershipProofs` | theorems: what is owned, what stays closed, the refinement of `PositionOwnership` | `PerpMirrorProofs`, `PositionOwnershipRefinement` |
| `OrderCall` | the abstract promise of one order's submission | |
| `OrderSubmission` | HTTP client, signed request, submission and query of both adapters, the executor's query | `OrderCall` (refined) |
| `OrderSubmissionProofs`, `OrderSubmissionRefinement` | theorems: one execution at most; the refinement of `OrderCall` | `OrderSubmission` |
| `Coalescer` | the coalescer's task, its trigger, its start and stop | |
| `LeaderStream` | the streams of both adapters and the interval, which trigger | `Coalescer` |
| `NotificationWorker` | the queue, the worker's task, its stop | |
| `AppLifecycle` | `run` and `close`: start-up, first round, tasks, shutdown, with the fairness | `LeaderStream`, `NotificationWorker` |
| `AppLifecycleProofs` | theorems: no round after close, no card lost or repeated | `AppLifecycle` |
| `MC...` | sets of values for TLC | |

### State and actions against the code

*Ledger.* A ledger is a record of `blocked` and four functions from followers to
sets of symbols. Each method of the class is an operator from ledger to ledger,
so that the persisted module, the composed module and the proofs share it.
`Written` and `WriteFails` are the two outcomes of a method's `_save`: memory
always changes, the file only in the first. The rename of the temporary file is
atomic, so no torn file exists. `InitializeInterrupted` is a start-up that dies
between the writes of two followers.

*Reconciler.* `task[k]` is the call for key `k`, with a program counter that
names the await it is suspended at. `Call`, `Acquire`, `ReadInitial`,
`ReadActual` (classification and cooldown), `CheckRisk`, `Submit` (sizing),
`Answered`/`Raised`/`Lost` (the three ways `place_market_order` ends), `Verify`
(query by client order id), `VerifyFlat` and `FlipRisk` (the middle of a flip),
`FinalRead`, `FailedRead` and `ApiFails` follow the source line by line.
`Execute`, `Reject` and `ResolveLate` are the exchange; an order nobody waits for
any more is in `late`, and one executed in part is `partly`: a query counts it as
executed while it is live and as `REJECTED` once it has expired, as
`_parse_order` does. The rest of a `partly` executed order may stay live when its
call goes on (`StaysLive`, `LetGo`): it is then in `late` and fills, in pieces,
whenever the exchange likes. Pieces that execute while the call still waits for its
answer are one step. `UserTrade` is the account's owner or a liquidation.

*Round.* `round.pc` says what `full_reconcile` waits for; `round.lead` and
`round.snap` are its snapshots, which may be stale by the time they are used.
Between two awaits the code runs alone, but every change of the ledger is an
action, because it writes the file and the process may die after it. `Crash`
loses everything but the file and the accounts; an order already sent stays
live, and so does the rest of one executed in part. The variables `made`, `emptied`, `baseline`, `closed` and `paused` are
history: they record who built and who closed a position, and guard nothing.

*Target.* `round.leadEquity` and `round.equity` are read with the positions, from
`LeaderEquities` and `FollowerEquities`; a symbol whose `TargetFails` is claimed and
then left out of the round, as in the code.

*OrderSubmission.* A call is at `prepare` (margin mode, leverage), `submit`, `answer`,
`sync` (the clock is read after a refused timestamp), `ack` (OKX's query after the
acknowledgement), `verify` and `reread` (the executor's query). An order is `wire`
until the exchange gets it, and may arrive and execute after its call has
ended. It executes in as many pieces as the exchange likes (`done` counts them
together, `Left` is the rest) and stays live until nothing is left or it expires; a
query gives a receipt for a filled order and for one that is live and executed in part
(`Counts`). `Lost` is what `http.py` turns into `RetryableExchangeError` and the
adapters into `UnknownOrderState`; `Unusable` is what falls through. The
account has two legs in hedge mode and one signed position in one-way mode.
`OrderCall` is the protocol `Reconciler` builds on, reduced to one position and one
call: its `Lose` and `End` are `Reconciler`'s `Lost` and
`Answered`/`Raised`/`Verify`, its `LateExecutes` and `LateDies` together `ResolveLate`.

*Coalescer and LeaderStream.* The leader's account is a version number; a round
records the version it read. `ReadFails` is a round whose read of the leader raises, its
retries exhausted (`app.py:168`): the coalescer logs it, and since the event was cleared
before the round, nothing remembers the trigger. `missed` is history: the version such a
round failed to read while no other trigger was pending. `link` is the connection: `down`, `asked` (OKX, before its
subscription is answered), `live` or `deaf` (subscription refused, connection
open). A change becomes a message only while `link` is `live`. `closing` follows
`PerpMirrorApp.close`; it ends in `broken` when the `close` of a client raises.

*NotificationWorker.* A card is a number; `status[c]` is what its last post came to:
accepted, settled (nothing is left to try) or open.

*AppLifecycle.* `phase` is where `run` is. `StartUpEnds` is any failing check, or
`--check-config`; `FirstRoundEnds` may be a failure, or `--once`. The first round is run
without the coalescer, so its failed read of the leader is such a failure and ends the
run. A stop may be requested
in any phase. `close` proceeds in the code's order: `CloseCoalescer` (and the wait for
its task), `CloseTasks` (stream and interval cancelled, clients closed), and only then
`StopNotifications`. That order is what `DrainedBeforeClose` rests on: no round can
publish a card that nobody is left to post.

### Abstractions

* A position is an integer, long positive; 0 is "not in the snapshot". Only
  `OrderSubmission` tells the two legs of hedge mode apart; that it implements
  `OrderCall`, which has one net position, is why the others need not.
* `TargetCalculator` divides integers and rounds down, where the code keeps a
  fraction of a `Decimal`. Equities and positions share one unit.
* The confirmation of OKX's subscription is a message that triggers: it names its
  channel, which is all `okx.py:469` looks at. The error answer names none.
* A subscription covers its three channels together.
* Messages of a stream are not counted: one or several unread ones trigger alike.
* Prices do not move and one unit of quantity is one unit of notional, so the
  quantity of an order and the notional the risk manager sees agree.
* All followers of a run have one copy mode, leverage and ratio.
* Live mode. A dry run sends nothing and writes nothing.
* Allowlist, blocklist and leverage limit are the one constant `Tradable`.
* Followers are handled in any order, and so are the symbols of one follower;
  the code sorts the symbols.
* Rounds never overlap (one coalescer task, and a lock), and within a round a
  key is reconciled once, so the per-key lock is never contended: a key has at
  most one `task`.
* The action label of a successful result is `EXECUTED`: nothing depends on
  which of OPEN, ADD, REDUCE, CLOSE or FLIP it was.
* At start-up the followers' positions are read in one step; in the round each
  follower is read in a step of its own.
* Backoff delays and time are left out; a cooldown may expire at any moment.
* A first reconciliation that raises at start-up ends the process; that is a
  `Crash` in the round, and `FirstRoundEnds` in `AppLifecycle`.
* In `AppLifecycle` a round is two steps, its reading and its end, with cards in
  between; what it does to the accounts is `PerpMirror`'s subject.

A definition whose name contains an underscore, such as `FinalRead_Success`,
is a *mutant*: the definition after it with a mistake the code could have made.
No specification uses one. They record, for every property of every run, that
the property notices such a mistake when the mutant takes the place of the
original.

## 3. Runs

Parse with `tlasany M.tla`, check with `tlc -config X.cfg M`.

### Runs that pass

| Config | Bounds | Shows |
|---|---|---|
| `MCOwnership_reliable` | 2 followers, 2 symbols, symmetry | `LedgerOK`: owners of a symbol never overlap and `_load` never refuses a file the program wrote. `FileFollowsMemory`: the file is never behind. `ProtectedForever`. `FollowsCycle`: refinement of `CopyCycle` |
| `MCReconciler_account` | 2 symbols, positions 0 and 1 at first, targets -2, 0, 3, chunk 2, partial fills, total limit 3, one order at a time, 1 retry, 2 faults, kill switch on or off with exits allowed | `NoOvershoot`, `NeverCrossesZero`, `NoNewRisk`, `WithinTotal`, `ReportTruthful`, `TradeReported`, `EveryCallReturns` |
| `MCReconciler_sync` | targets 2 and 4 in any order, then one for ever; chunk 2, minimum of 2, total limit 5, orders that outlive their calls whole or in part, user trades, 2 faults | `EventuallyInSync`: with remainders below the minimum, and although a cooldown of another target or another action may be left behind and never end |
| `MCPerpMirror_one` | 1 follower, 1 symbol, leader -1..1, RATIO with equities -1..2, partial fills, 3 leader trades, 3 faults, kill switch changed in restarts | `OwnPositionsManaged`, `OnlyOwnPositions`, `SideOfTheLeader`, `OrdersStayWithinPlan`, `StartupPositionsUntouched`, `SuspensionHolds`, `EveryTradeNotified`, `StatusesFollowCycle` (through the ledger in memory and, after a crash, the file, the composed system keeps to `CopyCycle`) |
| `MCPerpMirror_failing_disk` | 2 followers, 2 symbols, one of them unlisted at one follower's exchange, writes may fail, 2 faults, 2 leader trades | `StartupPositionsUntouched`, the one property of the ledger that needs no disk |
| `MCPerpMirror_heals` | both settings of `preserve_existing_positions`, leader -1..1, late orders, users trading inside rounds, 3 faults, 2 leader trades | `EventuallyCopied` |
| `AppLifecycle` | both exchanges, with and without the interval, 2 changes of the leader's account, 1 fault (a broken connection or a failed read of the leader), 2 cards, queue of 1, 2 attempts | `ChangesRead`, `StopCompletes`, `NoRoundAfterClose`, `NoCardLost`, `NoRepeatAfterDelivery`, `DrainedBeforeClose` |
| `OrderSubmission` | both adapters, both position modes, a clock that is right, off or wrong for ever, 2 orders of 1 or 2, partial fills whose rest stays live, 2 attempts, 2 losses | `ExecutesOnce`, `ImplementsOrderCall`, `CallEnds` |

The bounds are named constants: `MaxFaults` (failed or slow requests, failed
writes, crashes and user trades together; in `AppLifecycle` broken connections and failed
reads of the leader), `MaxLeaderMoves`, `MaxRetries`, `MaxChanges`, `MaxCards`, `MaxOrders`. They are large enough for the interesting cases: every
property below is violated, within the same bounds, by at least one small change
of the code's logic (see the mutants), and the shortest histories that matter
need two faults, for instance a crash between an order and its mark followed by
a manual close. A target of 3 with a chunk of 2 and a retry needs two orders, a
partial fill a third, so running out of attempts is reached. Two symbols and a
limit of 3 let each of two targets of 3 fit alone and not together. Two orders of one
account are the least for a late order to meet a later one; a second change while
the first is being read, and one broken connection in between, are the least for
`ChangesRead` to be in danger; two faults change nothing there, but take five and a half
minutes. The longest run takes about three.

`CHECK_DEADLOCK FALSE` is used for `AppLifecycle`, which ends after `close`, and for
`OrderSubmission`, where the bound on orders ends the calls and an account with both
legs open is not read any more; everywhere else a deadlock would be an error and none exists. Followers and symbols are interchangeable in `PositionOwnership` (no
definition picks one, and `FollowsCycle` there has no liveness part), which makes
the symmetry of `MCOwnership_reliable` sound; no other run uses symmetry.

`OrdersOutliveAnswers = FALSE` means that a call is told about its order's end
before it goes on; `WithinTotal`, `NoOvershoot`, `OwnPositionsManaged`,
`OnlyOwnPositions`, `SuspensionHolds`, `SideOfTheLeader` and `OrdersStayWithinPlan` are claimed under that assumption; the conditions
below say what happens without it. `UsersTradeMidRound = FALSE` means that owners trade
only between rounds.

### Fairness

`FairSpec` (Reconciler): every request is answered or times out (`httpx` timeout),
so `TaskStep` is weakly fair; the exchange decides every order; asyncio's
semaphore wakes waiters in order, so a call that can acquire again and again
eventually does: strong fairness of `Acquire`. `RepeatedSpec` adds that `reconcile`
is called again and again. It does not assume that a cooldown ends: `EventuallyInSync`
asks that of the one cooldown that is meant to hold a call back, which is that of the same
target and the same action. `FairSystemSpec` has the same for the
composed system: rounds are triggered for ever and a supervisor restarts a dead
process (`Boot` is part of the weakly fair `RoundStep`). Nothing is assumed of the
leader, the users or the faults, which may or may not happen. `AppLifecycle`
assumes that the event loop runs ready tasks (`RunStep`, `CoalescerRuns`, `CloseStep`), that
posts and requests are answered or time out (`WorkerRuns`), and that a connection
which keeps failing is tried again until it succeeds (`StreamRuns`: the loops of
`connect_private_ws` never give up). Whether the interval ever passes is chosen
at the start (`interval`), so that `ChangesRead` says what the stream guarantees alone.
`OrderSubmission` assumes that a request is answered or times out and that the
exchange decides every order it has; nobody has to begin a call.

### Runs that show a disagreement

Each finds a counterexample to something the repository says.

| Config | Property | What happens |
|---|---|---|
| `MCReconciler_total_concurrent` | `WithinTotal` | two calls of one account pass the total limit on the same reading and exceed it together (`reconciler.py:230`, `284`; README `risk.*`) |
| `MCPerpMirror_flip_suspends` | `SuspendedOnlyByOthers` | a flip whose second half fails is taken for a manual close and the symbol suspended (`ownership.py:138`) |
| `MCPerpMirror_lost_claim` | `OwnPositionsManaged` | a claim whose write failed is never written again; after a restart the own position is protected (`ownership.py:216`) |
| `OrderSubmission_unknown` | `UnknownIsAsked` | a submission that ends in an unexpected transport error, or in an answer that is no JSON, is given up without the query the README promises (`http.py:42`, `binance.py:106`, `okx.py:110`); the order may be live |

`WithinTotal` holds with `MaxConcurrentOrders = 1`, even with a fault, and fails with
2 without any; `OwnPositionsManaged` holds while writes succeed and fails when they may not.

### Conditions

The passing runs rest on conditions the README of the program does not make in these
places. Changing the one constant named here, in `MCPerpMirror_one.cfg` where no other is
named, gives a counterexample:

* `OrdersOutliveAnswers = TRUE` in `MCReconciler_account.cfg`, `NoOvershoot`: an order whose
  fate is unknown (`executor.py:96`, or acknowledged by OKX and still live) is followed
  by a second increase for the same gap, and both execute.
* `UsersTradeMidRound = TRUE`, `OnlyOwnPositions`: a symbol is claimed on the
  snapshot of `app.py:177`; a position its owner opens after that snapshot and
  before the claim (`app.py:234`) is traded as the program's own.
* `DiskMayFail = TRUE`, `OwnPositionsManaged` and `OnlyOwnPositions`: a claim or an
  observation changes memory before a write that may fail (`ownership.py:303`).
* `DiskMayFail = TRUE`, `EveryTradeNotified`: the ledger is written before the result
  is published (`app.py:272-288`); a failing write ends the round with the executed
  order unreported, and so are the results after it.

Which properties of the composed system fall with which constant, by TLC
in `MCPerpMirror_one.cfg` with only that constant changed:

| Changed to | Violated | Not violated |
|---|---|---|
| `PreserveModes = {FALSE}` | `OwnPositionsManaged`, `OnlyOwnPositions`, `StatusesFollowCycle` | `SuspensionHolds` (nothing is suspended in that mode), `SideOfTheLeader`, `EveryTradeNotified` |
| `DiskMayFail = TRUE` | `OwnPositionsManaged`, `OnlyOwnPositions`, `SuspensionHolds`, `StatusesFollowCycle`, `EveryTradeNotified` | `SideOfTheLeader` |
| `OrdersOutliveAnswers = TRUE` | `OwnPositionsManaged`, `OnlyOwnPositions`, `SuspensionHolds`, `SideOfTheLeader`, `OrdersStayWithinPlan` | `EveryTradeNotified` (with 2 faults; 3 take too long) |
| `UsersTradeMidRound = TRUE` | `OnlyOwnPositions`, `SuspensionHolds` | `OwnPositionsManaged`, `StatusesFollowCycle`, `SideOfTheLeader`, `EveryTradeNotified`, `OrdersStayWithinPlan` |

In new-position-only mode the only thing users do with a managed position is to close it (the
README of the program asks for that), which no order can turn into an overshoot;
`OrdersStayWithinPlan` needs `UsersTradeMidRound = FALSE` in the other mode, where it is
violated with `PreserveModes = {FALSE}` and `UsersTradeMidRound = TRUE` together.

Some more statements are deliberately not claimed, because the code does not
keep them:

* A position closed by its owner is not rebuilt *once it was marked observed*
  (`SuspensionHolds`). After a crash, or a final read that failed, the position may
  be closed before that mark, and the next round rebuilds it;
  `docs/exchange-integration-notes.md:15` states the restriction, `README.md:248` does
  not.
* A failed increase starts a cooldown only if the read after the failure succeeds
  (`reconciler.py:125-133`).
* A follower's equity that reads as zero (OKX answers without rows, `okx.py:187`) makes
  every RATIO target zero (`calculator.py:102`): the positions are closed while the leader
  holds his, and the next round takes that for a manual close and suspends the symbol:
  `SuspendedOnlyByOthers` fails in `MCPerpMirror_one.cfg` even with `MaxFaults = 0` and a leader
  who is only ever long, and holds there once `FollowerEquities` is `One`.
* A `fixed_leverage` of zero is accepted by the configuration (`config.py:172`), but a close,
  which has no leader position to take a leverage from, is then refused for ever
  (`calculator.py:26`).
* A change whose round fails to read the leader is not read again because of it: the
  event was cleared before the round, and the coalescer only logs what the round raises
  (`app.py:168-169`, `coalescer.py:34-39`). It waits for the next message, reconnection or
  interval. `ChangesRead` excuses exactly this (`missed`), and only where there is no
  interval.
* An order that executes after its symbol was released (`app.py:284`) leaves a position
  nobody manages. The next round protects it, with `preserve_existing_positions`, and it is
  never closed by the program: `OwnPositionsManaged` fails with `OrdersOutliveAnswers = TRUE`.
* A change of the leader made before the first connection to Binance, or while OKX has
  refused the subscription, waits for the interval: the first connection is reported as
  `connected`, which does not trigger (`app.py:433`).
* When the `close` of an exchange client raises, `notifications.stop()` is never reached
  (`app.py:469`) and the queued cards are lost with the process.
* In hedge mode an increase that executes late, after a flip, leaves both legs open; from
  then on every read of the account raises until somebody closes one (`binance.py:196`).
* A permanent webhook error gives up one card, not the worker (`worker.py:52-63`, with
  a comment that says why); `README.md:202` speaks of a circuit breaker.

## 4. Proofs

All for every set of followers and symbols, every position, target, limit and bound,
checked by TLAPS (`tlapm M.tla` in each of the eight modules). A theorem without a
condition in the tables has none but the assumptions on the constants, which are Booleans,
numbers and finite sets as the configuration gives them; TLC evaluates them in every run.

Every safety property of the passing runs is the subject of a theorem.

### The ledger (`PositionOwnershipProofs`, `PositionOwnershipRefinement`)

| Theorem | Says | Condition |
|---|---|---|
| `TypeCorrect`, `OwnersDisjoint` | `[]TypeOK`, `[]LedgerOK` | |
| `RestartFindsLedger` | `[]FileFollowsMemory` | `Persist`, `~DiskMayFail` |
| `ProtectionPermanent` | `ProtectedForever` | |
| `LedgerFollowsCycle` | `FollowsCycle`: the ledger implements `CopyCycle` | `Persist`, `~DiskMayFail` |

A ledger is *sound* when it is well formed and `_load` would accept it. One lemma per
method says that it takes sound ledgers to sound ledgers. The inductive invariant `Inv`
says that memory is sound and that the file, read as `_load` reads it, is sound. The
second part is needed because a restart replaces memory by what it loads, and version 1
files are sound only after the conversion. `FileFollowsMemory` is inductive relative to
`Inv`; the only step that may skip the write is a restart, and there the file already
holds what memory gets unless it is of version 1, which is why the migration must write.
For `ProtectedForever` the invariant is strengthened by `Covers`: memory protects whatever
the file protects. A failed write leaves the file behind, never ahead, so a later write
can only add. For the refinement each method is shown to move every symbol's status along
`CopyCycle`'s arrows, a crash is a stutter because the view of the ledger passes from
memory to the equal file, and a restart is `Restart`, or `Begin` when there was no file.

### The calls of reconcile (`ReconcilerProofs`)

| Theorem | Says | Condition |
|---|---|---|
| `ReconcilerTypeCorrect` | `[]TypeOK` | |
| `TradesAreReported` | `[]TradeReported` | |
| `ReportsAreTruthful` | `[]ReportTruthful` | `~OrdersOutliveAnswers`, `~UserTrades` |
| `NeverBeyondTarget` | `NoOvershoot` | the same |
| `FlipsStopAtZero` | `NeverCrossesZero` | the same |
| `KillSwitchAddsNoRisk` | `NoNewRisk` | `~UserTrades` |
| `TotalLimitKept` | `WithinTotal` | `MaxConcurrentOrders = 1`, `~OrdersOutliveAnswers`, `~UserTrades` |

The inductive invariant `IInv(v)` is a conjunction per key. `InHand`: a call has an order
exactly while it waits for one. `Control`: at each await the classification, the leg of a
flip and, while nothing of it has executed, the order in flight are those of the target
and the position the call read last.
`Remembers`: a call that has traded has a receipt, or a result that is notified, at every
point where it might otherwise end as if nothing had happened. `Reduces`: under the kill
switch what is being sent reduces. `Knows`: the position read last is still the position,
until the call's own order executes. None of these is inductive alone: what an order does
is bounded by the position it was sized from (`Control`), which says something about the
account only while nothing else moved it (`Knows`). `LateInv` and `CoolInv` are about
orders nobody waits for and about cooldowns. The parts that need a condition are guarded by `v`: `"alone"` for accounts nobody
else touches, `"kill"` for a kill switch that does not change. So `IInv({})` holds in
the composed system, where users trade and restarts change the kill switch, and
`IInv({"alone"})` inside a round nobody disturbs. What the sizing and the exchange do to a
position is stated once, in `IncreaseOutcome` and `ReduceOutcome`: an increase ends between
the old position and the target, a reduction between the old position and zero.

`TotalLimitKept` needs two more things. `Reserved` says that an increase checked and
not yet executed still has room in its account; it survives the steps of the other calls
because with one permit there is no other call that trades (the lemma
`PermitsAreLimited`). With two permits it
is the invariant that breaks, and `MCReconciler_total_concurrent` shows how. And the
exposure is a fold over the symbols. The library's induction theorems take an operator
and cannot be used; `LeastSet` replaces them: among the sets of symbols where a claimed
equation fails there is a least one, because inclusion of finite sets is well founded,
and it cannot be the least. From it follow the fold's recursion (`SumsAre`), its
independence of the order of the symbols (`AnyFirst`) and that changing one position
changes the sum by the difference (`ExposureMoves`).

### The submission of an order (`OrderSubmissionProofs`, `OrderSubmissionRefinement`)

| Theorem | Says |
|---|---|
| `SubmissionTypeCorrect` | `[]OrderTypeOK` |
| `NeverExecutedTwice` | `[]ExecutesOnce` |
| `SubmissionImplementsOrderCall` | `ImplementsOrderCall`: both adapters, both position modes and the HTTP client implement `OrderCall` |

The heart of the invariant is `CallInv`: an order is sent a second time only after the
exchange refused the first for its timestamp (`pc` at `sync`, or at `submit` with
`resent`, implies `refused`), and a refused order can never execute. `OrdersInv` says that what an order
has done and what is left of it make up its quantity, that only an order the exchange took has
done anything, and that ids are used one after another.
`MadeFrom` remembers that the order wanted was made from the position seen,
which is what `Place` of the abstract specification promises. The refinement maps the
undecided orders of ended calls to `late`, the two legs to their net and `torn`, and the program
counter to three stages; arrivals, refusals, timestamp retries and queries are stutters.

### Start-up, shutdown and notifications (`AppLifecycleProofs`)

| Theorem | Says |
|---|---|
| `LifecycleTypeCorrect` | `[]LifecycleTypeOK` |
| `NoRoundUsesClosedClients` | `[]NoRoundAfterClose` |
| `CardsAccountedFor` | `[]NoCardLost` |
| `NotifierClosedDrained` | `[]DrainedBeforeClose` |
| `DeliveredOnceInOrder` | `NoRepeatAfterDelivery` |

`WorkerInv` says that the cards in the queue ascend, that the card in hand is older than
they are (`QueueInOrder`, `CardInHand`) and that a card whose fate is settled is older
still (`DoneIsOlder`); so the worker cannot post a settled one again. `CloseInv` says that clients
are closed only after `run` has returned and the coalescer's task has ended, `StopInv` that
the notifier stops only after the clients are closed and that nothing is queued behind
its end marker: no round is left to publish. `DrainedBeforeClose` follows only from both together.

### The composed system (`PerpMirrorProofs`, `PerpMirrorOwnershipProofs`)

| Theorem | Says | Condition |
|---|---|---|
| `SystemShape`, `SystemTypeCorrect` | `[]Shape`, `[]SystemTypeOK` | |
| `StartupPositionsAreUntouched` | `StartupPositionsUntouched` | |
| `EveryTradeIsNotified` | `[]EveryTradeNotified` | `~DiskMayFail` |
| `RiskOnTheLeadersSide` | `SideOfTheLeader` | `~OrdersOutliveAnswers` |
| `RoundsStayWithinPlan` | `OrdersStayWithinPlan` | `~OrdersOutliveAnswers`, `~UsersTradeMidRound` |
| `BuiltPositionsAreManaged` | `[]OwnPositionsManaged` | `Durable` |
| `OthersPositionsAreLeftAlone` | `OnlyOwnPositions` | `Undisturbed` |
| `ClosedPositionsStayClosed` | `SuspensionHolds` | `Undisturbed` |
| `SystemImplementsOwnership` | the system implements `PositionOwnership` | `PreserveModes \subseteq {TRUE}` |
| `StatusesFollowTheCycle` | `StatusesFollowCycle` | the same, `~DiskMayFail` |

`Durable` is the conjunction of `PreserveModes \subseteq {TRUE}`, `~DiskMayFail` and
`~OrdersOutliveAnswers`; `Undisturbed` is `Durable /\ ~UsersTradeMidRound`. The matrix in
section 3 says what TLC finds without each of them: none of the conditions of the three
ownership theorems can be dropped, but for `SuspensionHolds`, which is vacuous without
`PreserveModes \subseteq {TRUE}`.

`Shape` is the invariant everything else rests on: `IInv({})` of the calls, soundness of
memory and file, and the round's control (`RoundInv`: only a round that waits has calls,
and they are for planned symbols of the follower it is at).

* *Start-up positions.* `StartupInv` carries the baseline through every place an order can
  come from: memory, the file, the plan, the calls and the late orders. The last matters
  because an order outlives its process: when the file is still missing, none may
  be alive (`preserve /\ disk = NoFile => ~up /\ ...`), which holds because the first start
  writes every follower before the first round.
* *Notifications.* `NotifyInv`: a key with an executed order has a call that has not been given
  up. It is preserved by `TradesAreReported`'s invariant at the moment of the return.
* *Sides.* `WaitedFor` and `CalledAsPlanned`: while the process runs all its orders belong
  to calls, and each call has the target of the round's snapshot, which has the leader's side (a lemma
  about both sizing modes).
* *Plans.* `UndisturbedCalls`: `IInv({"alone"})`, the invariant of accounts nobody else touches,
  holds whenever the process runs. A process may die in the middle of anything and a user
  trade between rounds; what carries the invariant over is that a round begins and ends
  without calls, and that every call begins by reading the position.
* *Ownership.* `KnownInv` says that the file equals memory whenever the process runs, that
  what the program alone has built is open and managed, that every call and planned symbol
  is managed, and that a call which reports a flat position left none the program
  built (`SuccessIsRead`: the report is read in the step that ends the call), so that
  the release at the end of a round gives up nothing of its own. This survives users who
  trade at any moment. The converse, that what is open and managed is the program's own,
  does not: `SeenInv` adds it, together with the follower's snapshot being true while it is
  used (`Seen`, `Covered`), under `~UsersTradeMidRound`. The property is about
  accounts, the program only ever compares its ledger with a snapshot.
* *Suspensions.* `SuspInv`: a position somebody closed is suspended in the ledger, or
  marked observed and flat, so that the next round suspends it before it plans.
* *Refinement.* `SystemImplementsOwnership` maps every step of a round to one method of the
  ledger, or to a stutter. With `LedgerFollowsCycle` it gives `StatusesFollowTheCycle`: the
  program implements `PositionOwnership`, which implements `CopyCycle`. A round makes the calls of
  the ledger in one order among those `PositionOwnership` allows, so nothing proved there
  is lost here.

### What stays with TLC

Liveness: `EventuallyInSync`, `EveryCallReturns`, `EventuallyCopied`, `CallEnds`, `ChangesRead`,
`StopCompletes`. The prover has neither fairness nor ENABLED. And the four runs that show a
disagreement, which are counterexamples. No module uses a RECURSIVE operator.

## 5. Not modelled, and why

* Dry run and the heartbeat: nothing changes. The single checks of `startup_checks` are one
  choice between going on and giving up.
* Signing, JSON, Decimal formatting, cards, logging, the configuration file: layout and
  validation.
* Prices: a target in notional moves against a quantity when the price does; one price
  is assumed everywhere.
* Instruments are read once and cached (`binance.py:139`): a symbol listed after start-up is
  left out of every snapshot. `Supported` is a constant here too.
* Backoff delays, the pool of connections and the keep-alive of Binance's listen key (its
  loss is a broken connection).
* `ws_reconnect_max_seconds` of the configuration is used nowhere in the code.
* The state file edited by hand or shared by two processes: the documentation
  forbids it.

## 6. Plan

Done, in the order of importance: ledger and file, abstract cycle and
refinement; reconciliation of a position; the composed round with its targets;
the submission of an order and its refinement; stream, coalescer, start-up and
shutdown; notifications; a theorem for every safety property of the runs.

Next:

1. `RoundsStayWithinPlan` in new-position-only mode with users who close positions in the
   middle of a round: `Knows` would have to become "between zero and what was read".
2. `Reconciler` implements `OrderCall` for each key: today the correspondence of the actions
   is stated in words (section 2). It needs the ids of orders as a history variable.
