# Verification of upstox-backend

TLA+ models, TLC runs and TLAPS proofs for the Python backend in `src/`. The backend trades a
real account through Upstox: it keeps a ledger of open positions ("lots"), arms a stop-loss and a
target for each ("bracket", two `trigger_rules` rows), watches the market feed, and sends the exit
order itself when a leg's price is reached. The order engine is modelled in most detail, because it
moves money, runs as interleaved coroutines around awaited broker calls, and survives restarts
through SQLite. Around it are models of what guards the open positions (max-loss watcher, exit-all,
market feed) and of the services that keep state of their own.

## 1. The system

All of it is one asyncio process. Coroutines switch only at an `await`; everything between two
awaits is atomic for the rest of the process, and each ledger call is one SQLite transaction, so a
crash can fall between any two of them. The broker and the phone act at any time.

| component | source (`src/app/...`) | state | operations | hard because |
|---|---|---|---|---|
| trigger evaluator | `services/order_engine_trigger_evaluator.py` | none of its own; locals of suspended coroutines | `check_now` on every tick and every 5 s, `_fire_rule` | several run at once, each with rows read before its awaits |
| lot bracket armer, default bracket | `order_engine_lot_bracket_armer.py`, `default_bracket.py` | rows of `trigger_rules` | `arm_lot_bracket` | pair of rows written in separate transactions |
| idempotent order service | `order_engine_order_service.py` | none; the tag in the broker's order book | `place_order`, `cancel_order`, `modify_quantity`, quote and closeable-quantity reads | check, await, act; lost replies |
| ledger store | `order_engine_ledger_store.py` | SQLite: lots, trigger_rules, order_history, pending fills, epoch, events | compare-and-sets, upserts | two writers of one row, one of them without the version |
| order-engine routes | `api/order_engine_routes.py` | none | place, cancel, modify, upsert, resolve, epoch | interleave with the evaluator |
| portfolio push handler | `main.py`, `order_history_recorder.py`, `broker_order_lookup.py` | per-order locks, ledger | attribute a fill, apply it, arm a bracket, record it | pushes are redelivered and reordered, several writes without a transaction |
| max-loss watcher, lot tracker | `order_engine_max_loss_watcher.py`, `order_engine_lot_tracker.py` | epoch row, exit-all lock, last prices | ratchet, breach, flatten, re-arm | epoch read before an await and written after; legs, fills and pushes in between |
| position flattener | `position_flattener.py` | none | exit all positions in slices, retry | retries against a moving position; several products under one instrument |
| exit reconciliation checker | `exit_reconciliation_checker.py` | none | compare realised P&L | |
| feed subscriptions and sockets | `feed_subscription_manager.py`, `upstox_*_client.py` | what each party wants, desired and sent sets per mode, clocks | change, reconnect and replay, nudge, reset D30 | three tasks send over one socket, an await at each send; nothing is acknowledged |
| stream sessions | `stream_connection_manager.py`, `api/stream_routes.py` | one session per phone, an index by client | connect, replace, subscribe with revisions, push signals, drop | the index is written two awaits after it is read |
| live candles | `live_candle_builder.py`, `candle_service.py`, `candle_cache_store.py` | forming candle per instrument, cache rows | fold ticks, close minutes, chart requests | late ticks, a saving thread and a slow request write one row |
| journal | `journal_store.py`, `journal_reconciler.py`, journal routes | SQLite fills, trades, notes | match round trips, reconcile, annotate, correct | routes run in threads beside a rebuild |
| auto login, watchdog, token store | `auto_login_*.py`, `auth_watchdog.py`, `token_store.py` | token file, attempt file | morning login, alert | caps and dates across restarts and nightly expiry |
| account estimate | `account_snapshot_*.py`, `main_screen_service.py` | one stored estimate, a cache | capture after 23:00, summary | the fallback must not become the source |
| sizing, instrument rules | `quantity_sizing.py`, `instrument_rules_service.py` | none | pure arithmetic | boundaries |
| order flow | `order_flow_analyzer.py` | trackers per instrument | imbalance, spread trend, iceberg, absorption | long sequences of ticks |
| notifications | `notification_*.py`, `fcm_service.py`, `device_token_store.py` | log, device preference | record, dispatch, push, mark read, expire | awaited deliveries, ids used again |
| snapshot collectors | `oi_snapshot_*.py`, `atm_iv_snapshot_*.py` | slots per underlying | fetch and store a slot, delete, compare | several workers on one database |
| analytics, screens, config, auth, generated code | the rest | caches | reads and shaping | |

Interaction: a market tick (`_on_market_tick`) updates candles, streams and the lot tracker and
spawns a max-loss check and a trigger evaluation. A portfolio push (`_on_portfolio_update`) spawns
the recorder, which re-fetches the order and changes lots and rules. Routes act on the same ledger
rows. Everything else that touches a rule does it through the ledger's compare-and-set on
`version`, except the phone's upsert.

What makes each component correct:

* evaluator, armer, order service, routes: a rule sends at most one order; the two legs of a
  bracket do not both exit; a rule fires on the current price, once, and settles; what the ledger
  says of a rule agrees with the broker.
* push handler: each fill is applied exactly once, to the right lot, whatever is redelivered.
* max-loss watcher: no exit beyond the position, the peak only rises within an epoch, a disarmed
  epoch stays disarmed, a lasting breach is answered.
* exit-all: it never reverses a position and reports success only for what is covered.
* subscriptions, streams: what anyone wants is subscribed when the sends are over, what was lost is
  renewed; a session gets what is registered for it, and nothing is left registered for the gone.
* candles: a bar covers the trades of its minute and is final when saved.
* journal: each execution counts once, notes survive, charges on file survive.
* login, estimate, notifications, collectors: once a day or once a slot across restarts and workers.
* sizing, order flow: bounds and reference definitions on every input.

## 2. Modules

| module | what it is |
|---|---|
| `OneShotRules` | abstract: what the engine promises of each rule |
| `BracketEngine` | evaluator, armer, order service, compare-and-sets, bracket routes, broker, fills |
| `FillRecorder` | push handler, recorder, lots, order_history, held fills and their resolution; the engine as `OneShotRules` steps |
| `MaxLossWatcher` | max-loss check, flatten, epoch routes, lot tracker; legs, manual exits and pushes around it |
| `PositionFlattener` | the phone's exit-all |
| `MarketFeed` | subscription manager, market feed client, its socket, and the broker's side of both |
| `StreamSessions` | the app's sessions and the lock queue of the subscription manager |
| `LiveCandle`, `OrderFlow`, `QuantitySizing` | ticks to candles, book to flow signals, request to quantity |
| `Journal` | reconciliation pass, rebuild, notes, manual entries, correction |
| `DailyLogin`, `AccountEstimate`, `Notifications`, `Snapshots` | the background tasks with their stores |
| `MCBracketEngine`, `MCFillRecorder`, `MCGuards`, `MCServices` | instances for TLC |
| `BracketEngineProofs`, `BracketEngineStepProofs` | theorems of the engine |
| `FillRecorderProofs` | theorems of the recorder |
| `MarketFeedProofs`, `GuardProofs` | theorems of the feed; of the watcher and the exit-all, and of the three side by side |
| `StreamSessionsProofs` | theorems of the sessions |
| `RecordProofs` | theorems of the estimate, the login, the snapshots and the notification log |
| `ServiceProofs` | theorems of the candles, the sizing, the order flow, the journal, and of all services side by side |

`OneShotRules` is what the two larger modules agree on: `BracketEngine` is shown to implement it,
and `FillRecorder`, which moves rules only by its steps and by arming, is shown to keep to it.
`MCGuards` and `MCServices` put several independent components into one run: `active` says which of
them a behaviour is of, and the others stand still in it. They share no state in the code either,
so nothing is lost by not interleaving them; what they do share (the lots, the position, the demand
for a subscription) is an environment action of each. That a behaviour of `MCServices` is one of
every service it is composed of is a theorem (`ServicesRunApart`).

### BracketEngine

State and code:

| variables | code |
|---|---|
| `side`, `remaining` | `lots.transaction_type`, `lots.remaining_quantity` |
| `state`, `version`, `value` | the columns of `trigger_rules`; a rule is a lot and a role |
| `book`, `position` | the broker: orders with tag, side, quantity, status; the net position. `recorded` says the push of a completed order has been applied |
| `running` | the evaluation that holds the event loop; everybody else's handlers need it free |
| `pc`, `ltp`, `todo`, `mine`, `held`, `ask` | the locals of one `check_now` / `_fire_rule` coroutine: price, armed rows read, rule being fired, version its compare-and-set returned, quantity read from the lot |
| `rpc`, `rrule` | one request in `cancel_ledger_trigger_rule` that is in its broker calls |
| `modifies`, `restarts` | the counters of the bounds |

An evaluation runs `StartCheck` (read the armed rows), then for each row, stop-losses first,
`SkipRule` or `WinRule` (the compare-and-set to FIRING), `CheckLot` (empty lot: FAILED; else the
quantity is read and the loop released), the two awaited calls of `place_order` (`FindExisting`,
then `PlaceAccepted`, `PlaceLost` or `CallFails`), `Settle` (PLACED) or `MarkFailed`, and
`CancelSibling`. Those are separate actions exactly where the code has an await or the end of a
transaction; `running` keeps the actions between two awaits together, and `Restart`, which needs
no loop, may fall between any of them. A lost reply places the order and raises. Cancels: the
ARMED branch is one action; the PLACED branch is find, cancel at the broker, confirm, each an
await. `ModifyLeg` is one leg of the bracket route, or the tighten route; the two legs of one
request are two consecutive uses of it.

Abstractions: prices are small integers; one instrument, since `check_now` reads one instrument's
rows; market hours and tokens, which only make an evaluation return before doing anything, are
left out; the event log is left out. A tag is the rule itself: `derive_order_tag` truncates a
SHA-256 hash and collisions are not modelled. The push of a fill is one action here; how pushes
are redelivered and crash half-way is `FillRecorder`'s subject. `EnterLot` is the fill of an entry
placed through the app, with the bracket it asked for; `FillEntry` the external fill that arms the
default bracket. A completed order that belongs to no lot changes nothing.

### FillRecorder

| variables | code |
|---|---|
| `orders` | the broker's book, and of each order how it was placed: a bracket leg (`rule`), POST /orders with a role and a key, or neither; `replies` counts the POST /orders requests whose placement row is still to be written |
| `side`, `remaining`, `closed` | a row of `lots`; `phase` is `trigger_rules.state` |
| `hist` | `order_history`: status, role, lot_id |
| `pending` | `pending_ambiguous_fills`: the candidate lots of a held fill |
| `tasks`, `running` | one record per coroutine, a push being recorded or a resolution, with its locals; the one that holds the event loop |
| `fires`, `cancels`, `retries`, `restarts` | the counters of the bounds |
| `applied`, `resets`, `resolved` | history only: how often a fill reached a lot, how often a placement row overwrote a complete row, whether a held fill was resolved |

A push is `Push` (the task is created), `Acquire` (the order's `asyncio.Lock`, held to the end),
`Answer` or `FetchFails` (`find_order_by_id`), and then, without an await, attribution and one of
four ways on: nothing to apply (`RecordOnly`); `HoldAmbiguous`, which releases the loop to send the
notification and ends with `RecordHeld`; `OpenLot` followed by one `ArmLeg` per leg and
`RecordApplied`; `AddToLot` or `ReduceLot` followed by `RecordApplied`. Each is one SQLite
transaction, so `Restart` may fall between any two. A resolution is `Resolve`, `ResolveSnapshot`,
`ResolveDelete`: three transactions of a handler without an await. `Attribution` is the code's
order: a PLACED rule whose tag the order carries; the role in the order's own row; the open lots.

Abstractions: one instrument, since attribution reads one instrument's lots; complete orders have a
price and a positive quantity; cancelled and rejected are one status; prices, P&L and the event log
are left out, the default bracket is "both legs". The last write of `arm_lot_bracket` (the rule ids
on the lot) changes nothing that is read here and is part of the second `ArmLeg`. A failing SQLite
transaction is not modelled anywhere, and `notification_service.record` swallows the failures of its
sends. The engine's steps are those of `OneShotRules` and more permissive than
`BracketEngine` (a leg may be sent with any quantity, whatever its sibling does).

### MaxLossWatcher

`epoch`, `remaining`, `realized`, `leg` are the ledger's rows; `mark` the lot tracker's last prices;
`position`, `working`, `pushes` the broker's side; `task` and `lock` the overlapping `check_now`
coroutines and the exit-all lock. A check is one action per stretch between awaits: `BeginCheck`
(epoch, token, lots without a tick), one `QuoteReply` for each of them, the ratchet and the breach
test (`Judge`), `AcquireLock`, `Reconsider` (reads the epoch again), and on a second breach
`Flatten`: positions, placement and its reply for each open lot with no exit in flight, then the
fresh epoch and the notification. `CallRaises` is an exception of an awaited call. `Arm` and
`Disarm` are the epoch routes; the phone sends opening and peak. Environment: ticks, bracket legs,
exits the user sends elsewhere, fills, pushes that reach the ledger late and in any order, the market
closing, the token lost, restarts. A leg's placement is a call of its own (`legCall`): `LegFires`
takes the rule to FIRING and reads the quantity, `LegReaches` brings the order to the broker,
`LegReturns` makes the rule PLACED, or FAILED, whether the order never arrived or only its reply was
lost (`LostLeg`). A lot has an instrument of its own; `Bracketed` says which lots have a leg.

### PositionFlattener

`net` and `resting` are the broker's positions and the exits not filled yet, `call` the locals of
each `flatten_positions`. A call reads positions, cuts each into slices of the freeze quantity
(`SliceOf`, `NextChunk`), sends the slices one by one, and repeats the instruments that failed on
refreshed positions, three passes at most (`MaxPasses`). Slices may be refused or lose their reply; they fill at any time. Results are kept per instrument (`KeyOf`), positions per product, as in the code.

### MarketFeed

`want`, `held`, `tracked` are what the sessions, the positions and open lots, and Settings ask for;
`desired` is the client's list of the union; `applying`, `replaying`, `checking` are the messages
that a change of demand, a replay after a reconnect, and the staleness check still have to send.
The three send over one socket, and each send is an action, so they interleave freely. `broker` is
external: what it serves, and whether it ticks. It may lose a subscription (`Forget`), ignore a
plain re-subscribe (`Stick`) or let all of D30 go silent (`StallD30`). `age`, `nudges`, `stage`,
`cooling`, `failures`, `streak` are the clocks and counters of the healing logic. Time is
counted in passes of the staleness check.

### StreamSessions

`link` is one record per WebSocket: the step its task is at and its `ClientSession`; `sessions` and
`byClient` are the manager's two maps; `waiting` is the FIFO queue of the subscription manager's
lock, `registered` its maps; `signals` the push loops. connect is three actions (look the older
session up and close it, wait for the lock to remove it, write the index), subscribe two, removal
two; `late` remembers links that handled a frame after they had been removed.

### LiveCandle, OrderFlow, QuantitySizing

`LiveCandle` folds ticks into the forming candle (`current`), hands a completed minute to a thread
(`saving`) that writes the cache row later, and lets chart requests save what the API had returned
when they were sent (`charts`). `OrderFlow` keeps the rolling windows and the two trackers of one
instrument's book; `seen` is a history of the books. `QuantitySizing` is one action, a call with
any of the enumerated requests. Fractions are carried as integers over a common denominator; the
square root of 365 in the volatility mode is 19. `InstrumentsAssumption`: an instrument's feed carries
trades or, for an index, only the exchange's candles.

### Journal

One day, one contract. `ledger` is `trade_fills` with computed charges, `trades` and `notes` the
rows of the same names, `work` the locals of each rebuild (a pass, or a correction request's
rebuild of the day), `request` a note or manual entry between its check and its insert. A pass is
`ListReply`, a `WalkFill` for each charge looked up, then `ReadFills`, `LookAtTrades` and
`WriteTrades`, between which the routes' threads run. Foreign keys that fail roll the transaction
back (`KeysHold`). The correction's rebuild runs in a thread, beside a pass's: `outrun` remembers a
rebuild that another one's commit overtook after it had looked at the trades, `tangled` that such a
rebuild has committed and none has cleared it up since. A fingerprint is the set of its fills; hash collisions are not modelled. A manual
entry's id is a uuid4 (`journal_store.py:642-645`), so it is a value of its own and `Resembles` says
which round trip `_same_trade` will find it to be. `Executed` is a nonempty sequence without
repetition: trade ids are the ledger's primary key.

### DailyLogin, AccountEstimate, Notifications, Snapshots

`DailyLogin`: `token` and `state` are the two files, `attempt` the login under way, one action per
request and per file; `hours` divides a day at the broker's expiry and at the scheduler's 5:35. A
rejection ends the thread (`LoginRejected`) before the scheduler saves its count (`CountRejection`);
`uncounted` is the history of those a stop or a failing save lost. A torn or unreadable attempt file
is not modelled: it is replaced atomically.
`AccountEstimate`: `stored` is the file, `cached` the summary's cache entries; the task and the app
ask funds and positions in two awaited calls each. A figure says of which evening its funds are and
of which day the charges taken off it, which are looked up for the clock after the second reply;
`crossed` is the history of captures that midnight passed over with the funds in hand. `Notifications`: `rows` is the table, with
SQLite's rule for the next id; `delivering` the `record()` calls that await a dispatch or a push;
`listed` what the phone shows. `Snapshots`: two workers, each with both collectors; a tick looks for
its slot under the nearest expiry, fetches, and saves under the expiry the analysis names
(`Resolved`) with INSERT OR IGNORE; a comparison pins its read transaction
(`compare.strikes`) while others store and delete. The stores are written for several workers; the
Dockerfile starts one, and in one process it is the stores' threads that put a comparison beside a
clean-up.

In these modules the calendar, the broker's answers and what people do are external actions. A
figure, a charge or a fetch is represented by where it comes from, never by its digits.

## 3. Runs

| run | cfg | checks |
|---|---|---|
| `safety` | `BracketEngine_safety.cfg` | type invariant, `OneOrderPerRule`, `FiringIsExclusive`, `OcoAfterPlacement`, `CancelledNeverResting`, `FiresOnCurrentPrice` |
| `lots` | `BracketEngine_lots.cfg` | `ImplementsOneShotRules` (refinement of `OneShotRules`) |
| `live` | `BracketEngine_live.cfg` | `FiringSettles` under fairness |
| `overlap` | `FillRecorder_overlap.cfg` | `AppliedBound`, `RowsNeverRegress`, `UnprotectedOnlyAfterRestart`, `RulesAreOneShot` (refinement of `OneShotRules`) |
| `held` | `FillRecorder_held.cfg` | type invariant, `AppliedBound`, `ResolvedStaysResolved`, `RulesAreOneShot` (refinement of `OneShotRules`) |
| `recorder_live` | `FillRecorder_live.cfg` | `PushEnds` under fairness |
| `guards` | `Guards_safety.cfg` | type invariants; `WatcherExitsWithinPosition`, `EpochGoesBackOnlyAfterAQuote`; `ReversedOnlyWhenUnsettled`, `SuccessLeavesNothingOpen`; `DemandIsServed` |
| `guards_live` | `Guards_live.cfg` | `LastingBreachIsAnswered`, `SilenceIsAnswered` under fairness |
| `services` | `Services_safety.cfg` | type invariants; `IndexIsLive`, `NoSignalsForTheGone`, `FeedMatchesSessions`; `BarsAreTrue`, `OnlyChartsCutMinutes`; `SignalsFollowTheBooks`; `QuantityKeepsItsLimits`; `NothingCountsTwice`, `OnFileStays`, `PassMatchesLedger`; `LoginRecordsAreTrue`; `EstimateIsSound`; `SnapshotsAreWhole`; `LogStaysTrue` |
| `applied_twice` | `FillRecorder_AppliedAtMostOnce.cfg` | refuted: a fill is applied once |
| `square_off` | `MaxLossWatcher_SquareOffNeedsAFurtherLoss.cfg` | refuted: a second square-off takes a further loss |
| `pass_repeats` | `Journal_PassIsIdempotent.cfg` | refuted: a pass can be repeated |

Bounds. `safety` has one lot (one bracket), two evaluations, one cancel request, two prices, one
modification and one restart: races are between two actors over one row or its sibling, two prices
are enough for a leg that matches and one that does not, and for a modification that turns one into
the other. `lots` has two lots, one evaluation and one external exit, which is what it takes to
have an ambiguous or a wrong owner for a fill and an external entry after it; of the three orders
that could be placed `TwoOrders` keeps two, any two of them (the theorem has no such limit). `LotQty` is 1: a
bracket leg exits the whole remainder. Evaluations and lots are interchangeable, hence the
symmetry; the liveness runs have none. Deadlock is not an error in any run: a ledger with no armed
rule and no order to move is at rest, and so is every model whose bounds are used up.

`overlap` has one order of every kind, three tasks on it (one holding the lock, one waiting, one
more to be delivered after either), two lots so that an unexplained fill can always open one more,
two placement retries, one cancelled leg and two restarts: the bound counts retries and restarts
separately, and two of each show that they add up. `held` has the three orders and two lots that an
ambiguous fill takes: two entries, and a bracket exit whose rule a crash left out of PLACED, so that
two open lots fit it; two tasks and one restart put a resolution, a redelivery and a crash in every
order. `overlap` rearms nothing that was cancelled, `held` nothing
that has fired. `recorder_live` has three pushes of one order, the
smallest queue in which one waiter may be passed over by another.

`guards`: two checks are what can race for the lock; two prices put the lot into breach and out of
it, one epoch armed by the phone and one by the watcher let a stale peak meet a replaced row, one
bracket leg fires, and one manual exit and one failure, a call that raises or a restart
(`MaxFailures`), come at any of their points. A reply of the leg's order may be lost at no cost to a
bound. The exit-all has
three positions of two instruments (one held in two products), a freeze quantity of 2 so that an
exit takes two slices, and the three passes of the code. The feed has two keys, two sessions, two
changes of demand and one fault. `guards_live` has two checks, so that the lock may be taken, one lot
that ticks may put into breach, two turns, which is a market that closes and opens again or a token
that is lost and comes back, one failure, a call that raises or a restart, and a
feed whose keys tick between any two passes when served; no leg fires there (`Bracketed` is empty).
The watcher's `MaxRearms` ends its checks: an epoch it arms in breach would be answered for ever.

`services`: two links of one client with two generations; trades at three times of two
minutes with late ones and two candles of the exchange's own; five books in a row over windows of
three and four;
every sizing mode with inputs missing, zero, negative, at and beyond the caps; one purchase and two
sales, of which one is listed late and its lookup fails, one manual entry and two corrections; two
days of logins with two attempts, of which one a day is rejected without being counted
(`MaxUncounted`); two evenings; three notifications; two workers, two days of two
slots and two expiries. `JournalMeetings` is a bound, a constraint of the runs that check the
journal: of the pass and the two corrections two meet at a time, rebuilds included, or a pass meets a
note or a manual entry in its thread. Two checks, and in `services` the two
correction requests and the two workers (`one`, `other`), are interchangeable. The larger runs have
1.0 million (`guards`) and 0.6 million (`services`) distinct states.

Fairness of the recorder (`recorder_live`): the broker's answer comes or the call fails, for httpx
has a timeout (weak fairness of `Fetch`); a task that holds the loop goes on (weak fairness of
`GoOn`); `asyncio.Lock` and the ready queue are FIFO, so a waiter is not passed over for ever
(strong fairness of `Acquire` and `Continue`). Nothing is assumed of pushes, people or restarts.

Fairness of the engine (`live`). Each awaited broker call ends, with a reply or an exception,
because httpx has a timeout: weak fairness on `BrokerReply`. A coroutine that holds the loop goes
on: weak fairness on `Loop`. A coroutine whose await is over is put at the end of asyncio's FIFO
ready queue and cannot be passed over for ever by others that come and go: strong fairness on
`Continue`, since it is enabled only while the loop is free. Nothing is assumed of ticks, fills,
users or restarts.

Fairness of the guards (`guards_live`). The fallback loop begins a check every few seconds: weak
fairness of some check beginning, not of each, since those that ticks start need not come again.
Awaited calls answer: weak fairness of each check's `Resumes`, of which `CallRaises` is
no part: an exception may come, and none has to. The feed's tasks run: weak fairness of their
sends, of the staleness check, and of the connection attempt, which the client repeats until one
succeeds; a key that is served ticks in the end (`TickArrives`). The broker's faults are not fair,
and nothing is assumed of demand.

## 4. What the refutations show

Run, with a counterexample:

1. **A fill can be applied twice** (`applied_twice`). The placement row is written after the
   broker's answer, with status `submitted`, over whatever is there. If the fill's push has been
   recorded by then, or the placement is sent again later, `already_applied` is forgotten.
   `AppliedBound`, proved, is what does hold: one application more for each such overwrite, and at
   most two for each restart.
2. **A square-off answers the same loss again** (`square_off`). The automatic re-arm sets opening
   and peak to the current equity, which contains the day's P&L, and the next check adds that P&L to
   the new opening again: with no further loss it is in breach at once.
3. **A pass over an adopted manual entry cannot be repeated** (`pass_repeats`). The entry keeps its
   own id; the next pass links its fills to the fingerprint as id, the foreign key fails, and the
   day's rebuild is rolled back from then on.

Read in the code, and confirmed by what a property has to except:

* Both legs of a bracket can fire: the sibling is cancelled only after the awaited placement, and a
  tick that crosses the other leg in between wins its own compare-and-set. `OcoAfterPlacement`,
  proved, is what holds from the placement on, unless a crash fell between.
* FIRING is left after a restart: nothing reads FIRING rows on start-up (`FiringSettles` excepts it).
* A crash between the lot and its rules leaves the lot unprotected: the redelivered fill finds the
  lot and only re-averages it (`UnprotectedOnlyAfterRestart`, proved, is what holds without one, when
  every entry placed through the app asks for a leg).
* A disarm may come back: a check that was waiting for a quote writes back the epoch it had read
  (`EpochGoesBackOnlyAfterAQuote`), though `order_engine_routes.py:861` calls the disarm complete.
* The exit-all may reverse a position it reads while an earlier exit of it still rests
  (`ReversedOnlyWhenUnsettled`), and with two products under one instrument a success of one answers
  for the other (`SuccessLeavesNothingOpen`).
* A subscribe frame received before its session was removed registers a view for a session that is
  gone (`FeedMatchesSessions`).
* A chart request may save a minute it read before the minute was over (`OnlyChartsCutMinutes`).
* A bracket leg whose reply was lost is FAILED with its order at the broker, and
  `_lot_has_exit_in_flight` counts FIRING and PLACED only: on a breach the watcher exits the lot again,
  and when both fill the position is reversed (`WatcherExitsWithinPosition` excepts it, with a leg that
  fires after the watcher looked).
* Two rebuilds of one day side by side (a correction's, in a thread without the reconciler's lock, and
  a pass's) can count a fill towards two trades, when one commits between the other's reads and its
  transaction. The next rebuild deletes the stale trade, unless the person has annotated it
  (`NoFillCountsTwice` and `PassMatchesLedger` say how far that goes, with `tangled`).
* A rejected login whose count is not saved, because the process stops or the file cannot be written,
  is tried again beyond the daily cap that `auto_login_state_store.py:24-25` speaks of
  (`RejectionsAreCapped` grants one for each).
* A capture of the evening's estimate that midnight passes over, between the replies of funds and
  positions, takes off the charges of the new day, which has none, and is stored as the old evening's
  (`EstimateIsTheBrokers` says exactly when).
* A login between midnight and the broker's expiry at 3:30 counts for the day, and the morning login
  is then skipped (`MorningTokenIsNew` speaks of nights with a token file throughout). The watchdog
  sees the token file only, so the broker's own expiry is never reported.
* Silence of all of D30 after the socket was replaced is tried no further until a tick
  (`SilenceIsAnswered`).

Read in the code, with no property about it: the idempotency key is no lock, since the order-book
check and the placement are separate awaits, so the phone's fallback and the server can both place
(within the server the FIRING compare-and-set prevents it: proved); an order placed through
POST /orders with role EXIT is never applied to a lot, for its row has no lot and a known role keeps
it from the search for one; a redelivered same-side external fill gets a role without being applied;
the cancel route ignores the status its own re-fetch returns, so a CANCELLED rule may have been
filled (proved instead: it has nothing resting without a cancel under way); an upsert from the phone
leaves the version alone, so a compare-and-set held across an await does not notice it; the quantity
of an exit is read two awaits before it is sent; a resolution does not look at the stored candidates
again, so its lot may be closed by then (`remaining` still does not go below zero: proved); a key
whose plain re-subscribe the broker ignores never reaches the escalation to an explicit unsubscribe,
because each nudge resets the key's clock (`upstox_market_feed_client.py:526-528`) and the next check
clears its count (`:489-491`); with trades on record and an average win of zero the Kelly mode
divides by zero (`quantity_sizing.py:252`); a lookup of strikes by age reads snapshot and strikes
outside one transaction (`oi_snapshot_store.py:329`); a fill's push that comes before its placement
context was stored is skipped for good (`trade_context_service.py:95`).

## 5. Proofs

All proof modules are checked by TLAPS for every value of the constants that satisfies the
named assumptions: any number of lots, evaluations, requests, prices, modifications and restarts in
`BracketEngine`; any number of orders, lots, overlapping tasks, quantities, retries and restarts in
`FillRecorder`; any number of positions, calls, checks, keys, sessions, links, days, workers, fills
and books in the others. Every safety and action property that a passing run checks, the type
invariants included, is stated by a theorem; what remains with TLC is listed at the end.

Each proof has the same plan. The property is seldom inductive, so an invariant is found that is;
`Init` establishes it, one lemma per action (or per group of actions that disturb the same
conjunct) preserves it, and the last theorem of the module reads the property off.

**BracketEngine.** `IInv` strengthens the properties with: at most one evaluation holds a rule
in FIRING, with its version; no row an evaluation has read has a version above the ledger's, and
versions never fall, so an old row can never be won again (why restarts do no harm); a rule that is
ABSENT or ARMED has no order in the book, a FIRING rule has one only after its holder's placement,
a PLACED rule has exactly one; an evaluation in "placing" has found none. `BracketEngineProofs`
shows Init => IInv and one lemma per action of Next, and derives `TypeOK`, `OneOrderPerRule` and
`FiringIsExclusive`. `BracketEngineStepProofs` proves how one step may change a rule (`RuleSteps`)
and from it the action property `FiresOnCurrentPrice`, and `OcoAfterPlacement` from an invariant of
its own. It relates each step to `OneShotRules!Next` by counting the orders of a rule (finite-set
lemmas) and proves `ImplementsOneShotRules`, and that the book can only change in ways that
preserve `CancelledNeverResting`.

**FillRecorder.** `AppliedBound` is not inductive, because that a fill has been applied shows only
in the row the task writes last, and a held fill can still be applied. `IInv` therefore counts debts
(`Once`): applications plus one for a held fill are at most one for a row that is complete or about
to be, plus resets, plus two per restart. A restart may lose both a settlement about to be written
and a held fill's, hence the two. For a fill that is newly held `Once` needs that nothing has been
applied without leaving a role behind, but for restarts (`Unattributed`); and all of it needs that
one task holds an order's lock (`OneHolder`) and that under the lock no answer is older than the row
(`Rows`). Each action is a lemma: `OutsideStep` covers the steps that touch no row, `QuietStep`
those that only advance a task, `DebtStep` reduces the others to the order at hand. From `IInv`
follow `TypeCorrect`, `AppliesBounded`, `ResolutionsHold`, and the action property of `RowsKeepUp`.

Two more invariants stand on it. `RuleInv`: a rule that has not fired has no order and no rule has
two (`OneExit`); only a lot that exists has rules; and a task that arms a lot finds the legs it has
still to arm ABSENT (`LegsToArm`), which holds because only the task that opened the lot arms it and
a restart ends that task. It gives the refinement `RulesAreOneShot`. For
`UnprotectedOnlyAfterRestart`, `LotsProtected` says that until a restart every open lot has a rule
that was armed, or a task that has legs of it to arm. It needs that an entry through the app asks for
at least one leg, the hypothesis `{} \notin Brackets` of the theorem: a request with neither price
arms nothing (`order_engine_routes.py:78`, `order_engine_lot_bracket_armer.py:42-43`), and its lot
is then without a bracket because it was asked to be. The run has only brackets with legs.

**MaxLossWatcher.** `WatcherInv` has: a check is at a step behind the exit-all lock exactly when
`lock` says it is the holder (`LockHeld`); a leg whose call is under way is FIRING, and only a leg that
has fired, be it FIRING, PLACED or FAILED with its reply lost, can have an order at the broker
(`LegsFired`); and what a check read of the lot it is about to exit, positions and legs, still holds if
nothing has touched the lot since (`CalmIsClear`). The last is what `WatcherExitsWithinPosition` needs:
a check is calm about a lot only if it found no exit of the watcher or the user resting, no leg in
flight and no lost leg; then no order rests, and when no leg fired and the user exited nothing in
between, the quantity sent fits what is left after every exit at work. A leg already FIRING cannot
bring its order in between, for the check would have skipped the lot.
`LockHeld` keeps other checks from sending meanwhile; fills and late pushes only move what is
resting into the position. The other action property, `EpochGoesBackOnlyAfterAQuote`, follows from
the writes of the epoch, each of which is a ratchet, a re-arm or the phone's.

**PositionFlattener.** `FlatInv` is about the exposure of a position, what is held plus the exits
that rest. For a position that was never read while an order was about to change it (`unsettled`),
a call that has it in hand knows its exposure exactly (`ReadIsOpen`), the exposure keeps the sign it
began with and the exits the opposite one (`SignKept`), and a recorded success means exposure zero
when no other product shares the instrument (`SuccessIsFlat`). Two calls cannot then have the
position in hand and both send, because `unsettled` is set by the first of the sends.
`FreezeAssumption` lets the master have any freeze quantity, zero included.

**MarketFeed.** `DemandIsServed` speaks of the moments when nothing is left to send.
`FeedInv` says what holds in between: whoever takes a wanted key away has its subscription later in
the same queue (`QueuesArePaired`), and a wanted key that the broker does not have is in one of the
three queues (`ServedOrSoon`); with them, that the modes are those of the wishes and that the D30
allowance is kept. The lemmas about queues (`TailFacts` and its neighbours) carry the proof: one
message less keeps the pairing, and the subscription lost by it is the one just sent.

**StreamSessions.** `IndexIsLive` says more than it seems to: connect reads the index, awaits the
close of the older socket and then the subscription manager's lock, and writes the index without
looking again. `StreamInv` adds that a link not yet accepted is nobody's session and that a link
replacing another has said whose it is; with them an entry that another link of the same client
wrote meanwhile is overwritten by a live session, and every removal clears the entry that points at
it. `FeedMatchesSessions` needs the order of the lock's queue as well. `ServedInv`: a task waits with
one request at most, for what its step says; a session shows what is registered for it until its
next request is answered; and a registration of a session that is gone, present or still waiting,
has its removal behind it in the queue, unless the session handled a frame after it was removed
(`RegisteredLeaves`, `RequestsLeave`).

**DailyLogin.** The cap on rejections speaks of what Upstox answered, the code only of its file.
`LoginInv` relates the two: an attempt under way still knows what the file says, because only the
scheduler writes it (`AttemptKnowsFile`); the rejections of the file's day are at most its count, those
that were never saved and the one about to be saved, and a later day has none but such
(`FileCountsRejections`); a token is stored before the success is recorded, so a restart in between
repeats the login; and with a token file since midnight no login of today has begun before the
morning (`MorningLogin`). For the alerts it adds that a loss about to be reported has not been
reported (`LossToReport`). `LoginRecordsAreTrue` and `LoginTypeCorrect` follow.

**AccountEstimate.** That the stored estimate is the broker's figure of its own evening depends on
when a reply arrives: `EstimateInv` says that the task asks late, and hears that evening or in the
maintenance window that follows, when the funds endpoint gives nothing; that its own cache entry is
never an estimate, and is of this evening when it is late (entries of the maintenance window have
expired by then); and that while it asks, the stored snapshot is older than the day it asks for. A task
that still waits for the positions after midnight with the broker's funds in hand has its day in
`crossed` (`TaskHeardTheBroker`), which is the one case where the charges are of the next day.
`NoFigureAssumption` says that the value for "nothing stored" is not a snapshot.

**Snapshots.** `SnapshotInv` adds to `SnapshotsAreWhole` that a tick under way has an expiry that
has not passed, because ticks end before the night; that no worker has cleaned up for a day to
come; that the night lies between the last slot of a day and the first of the next (lemma
`NextDay`, the one piece of arithmetic); and that a comparison under way has pinned the strikes of
both its snapshots. The last is what the read transaction gives the code.

**Notifications.** SQLite gives a new row the highest id plus one, so an id is used again only when
the log has been emptied. `LogInv`: ids are unique and none is ahead of the serial numbers; until the
log has been emptied they are the serial numbers and the newest notification is in the log, whence
the next id is new; nothing of the retention window is deleted; and of each notification there is
one delivery at most, with nothing pushed before it.

**LiveCandle.** A saved bar is true when trades come in order. `CandleInv`: while they do, nothing
was traded after the minute being built (`LatestMinute`), so the minute handed to the saving thread
is over, and the first trade of a minute finds none before it; a minute's prices have bounds; what is
on its way to the cache has a successor being built. `BarsAreTrue` and `OnlyChartsCutMinutes` follow.

**QuantitySizing.** No behaviour to speak of: the theorem is the arithmetic of every mode, that the
answer is whole lots, at least one, and within the capital and the risk budget beyond that one lot.
The lemmas bound a rounded quotient and each mode's lots.

**OrderFlow.** `FlowInv`: the window of contributions is the end of the books seen
(`WindowIsTheEnd`); a tracker's counters say for how many books its price has stood (`PriceStood`);
absorption is counted only under pressure of its side. A sum over the window is a function of its
partial sums, and a lemma about two such functions replaces the induction the prover has not: the
contributions over books of one price telescope to the change of the quantities.

**Journal.** `JournalInv` says that ids are unique and name the round trip (or the manual entry) of
their row, in the table and in what a rebuild has seen; that every note has its trade; that the pass
knows a charge at least as high as the ledger's of each fill it has still to walk; and that a pass
that met nothing rebuilds from the ledger as it is. It gives `OnFileStays` and
`CorrectedAtMostOnce` with no hypothesis. Of the matcher, the invariant of its run over the fills
(`Matched`) gives that round trips are disjoint. `NothingCountsTwice` and `PassMatchesLedger` need to
know what a rebuild had seen when it writes, and have no hypothesis about who runs beside whom.
`ViewsInv`: a rebuild about to write has seen every automatic trade there is, unless another one's
commit overtook it (`TradesWereSeen`), which can only befall a pass that has met another
(`OutrunWhileWriting`). A commit that was not overtaken leaves no two trades with a common fill: what
is stale is deleted, or stays under review and keeps the candidates that share a fill with it from
being written. An overtaken one may (`tangled`), until a commit that nothing overtook finds no note on
what it has to delete.

**Side by side.** `GuardsRunApart` and `ServicesRunApart` show that every behaviour of a composition
is one of each of its parts, so what is proved of a part holds in the run that composes them;
`GuardsTypeCorrect` and `SpecServicesTypeOK` put the type theorems of the parts together so.

Only model-checked, and of the finite instances only:

* the liveness properties `FiringSettles`, `PushEnds`, `LastingBreachIsAnswered` and
  `SilenceIsAnswered`, which rest on fairness and so on ENABLED, out of the prover's reach;
* the three refutations, each one counterexample.

The recursive functions (`RoundTrips`, `ChargesOf`, `Total`) enter the proofs by what holds of every
partial result. The library's induction theorems take an operator and cannot be used with these
provers; where a proof needs induction over the naturals it takes the least counterexample
(`LeastOfNaturals`, from the well-founded order of the naturals).

## 6. Plan

Done: the order engine and the recorder; models of the watcher, the exit-all, the feed, the sessions,
the algorithms and the background services; a theorem for every safety and action property of the
runs.

Next, in this order:

1. `FillRecorder` composed with `BracketEngine` in full, so that the quantity read before a placement
   and the fills applied meanwhile meet.
2. The rule upsert from the phone, which leaves the version alone, and what still holds with it.
3. The FIRING rows a restart leaves, read with the order book as a reconciliation would have to.

### Not modelled

* **Exit reconciliation checker**: compares two numbers and records an event nothing decides on.
* **Market analytics** (`underlying_signals_service.py`, `oi_analysis_service.py`,
  `usd_inr_service.py`): indicators on floats behind time-limited caches. They are not reduced to
  integers here, because what could go wrong in them is numerical.
* **Screens and REST façade**: reads, shaping and caching; batch operations loop over independent
  broker calls.
* **Configuration, authentication, generated protobuf**: stateless or generated.
* Of modelled components: the rule upsert, the event log and `reset_all` of the ledger store; tags,
  attachments, statistics and reads of the journal; the portfolio feed's client, the same base class
  without subscriptions; the FCM request itself; signal snapshots and the tracked-instruments
  poller; trade contexts, which are insert-only; `modify_quantity` and the short guard.
* A failing SQLite transaction is modelled only where the code expects one (the journal's foreign
  keys).
