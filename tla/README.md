# ChimeraCrypto: verification project

TLA+ models of the part of ChimeraCrypto that touches money: what happens between a
strategy's wish to trade and the books that result. ChimeraCrypto is a Binance spot trader
in C++: about 20 wired strategy legs turn prices into orders, one gateway checks the orders,
sends them, and keeps its own book of cash, positions and protective stops; portfolio
protections watch the result; an HTTP thread with a kill switch calls into all of it. A wrong
signal costs a trade; a wrong gateway strands coins, sells them twice or leaves them without a
stop. So the models follow the control of the execution path (`include/live/`, the position
handling of `include/core/EdgeEngine.hpp`, and the glue in `src/main.cpp`) and treat prices
and signals as arbitrary input.

Line numbers refer to `src/`; `GW` is `include/live/ExecutionGateway.hpp`, `EE` is
`include/core/EdgeEngine.hpp`, `main` is `src/main.cpp`, other headers are in `include/live/`
unless a path is given.

Contents: 1 the system; 2 the modules; 3 runs and bounds; 4 fairness; 5 proofs;
6 disagreements between code and comments; 7 what is not modelled; 8 plan.

## 1. The system

### Threads and flow

| Thread | Enters through | Calls |
|---|---|---|
| spot feed (`BinanceWSFeed.cpp:33`) | tick callback `main:11301` | every strategy, `governed_submit`, the mirror's `on_price`, `reconcile_stops` every 30 s (`main:12664-12682`), the protections block (`main:12096-12640`) |
| HTTP (`main:11258`) | `/api/kill`, `/api/rearm`, the reset endpoints | `flatten_all`, engines' `kill_all`, the protections' resets, some of them without `g_engine_mtx` |
| main | boot, sleep loop | seeding, reconcile, first `reconcile_stops` |

The feed of liquidations is wired and not started (`main:11681`), so at this commit every BUY
comes from the spot feed's thread, and the HTTP thread only sells. The models of the gateway
let every thread buy and sell, which covers that and the day the second feed is started.

An order travels: strategy -> `governed_submit` (`main:3913-3936`, allocator) ->
`ExecutionGateway::submit` (`GW:180-541`) -> `SpotExecutor` -> `BinanceREST` (one mutex
around each HTTP call) -> Binance; the answer comes back the same way, and `submit` turns it
into an `ExecReport` that reaches `ExchangeLedger::apply_report`, directly or through
`UserDataStream::feed_report`. `submit` is not serialised as a whole: some of what it consults
has a mutex of its own, some has none, and between two of them the other thread may run. That
is where most hazards of this code are.

### Inventory

For each component: the state it keeps, its operations, who it interacts with, what is hard
about it, and the properties that make it correct. The last name is the module.

**ExchangeLedger** (`ExchangeLedger.hpp`) -> `ExchangeLedger`, `CashBook`
- State: `total_cash_`, `reserved_cash_`, positions with average price, attribution per
  (sleeve, symbol), pending orders by client id. No lock: see the assumptions in section 2.
- Operations: `configure`, `seed_position`, `adopt_pending`, `reserve_buy` (rejects, or
  resizes down to what is free), `note_sell`, `release`, `apply_report` (ACCEPTED, PARTIAL,
  FILLED, CANCELLED, REJECTED, UNKNOWN).
- Hard: a running counter next to the per-order reservations, each clamped at zero on its
  own; several sleeves on one coin; one client id shared by every order of one sleeve,
  symbol and side, since production always passes `signal_id` 0.
- Correct when: the counter is the sum of the open reservations; promised cash never exceeds
  cash; every coin has an owner, and the shares are exact until a sale takes another sleeve's
  coins; sleeves never book the same capital twice.

**Protective stops** (`GW:432-463`, `GW:520-541`, `GW:594-719`) -> `ProtectiveStops`
- State: `resting_stop_` (symbol -> id, quantity), `stop_rejected_`, both in memory only and
  guarded by `stop_mtx_`; the resting orders at Binance, which lock the base they would sell.
- Operations: the cancel before each exit, `manage_protective_stop_` after each order that was
  not refused outright, `reconcile_stops` with its stale and naked sweeps, `naked_flatten_` with
  `SpotExecutor::close_symbol_from_broker`, the boot sweep.
- Interacts with: the ledger, for what is held; the transport; every exit of every strategy.
- Hard: holding is read before the lock is taken; the record is dropped even when the cancel
  failed; the record dies with the process while the stop lives on; Binance can trigger or
  drop a stop without telling; the flatten sells coins the ledger still counts; ledger and record
  are looked up by the symbol as it is spelled, and the boot seeds `BTCUSDT` where the roster's
  orders say `btcusdt`; an executed order whose answer is lost, or that expires after a partial
  fill, is booked nowhere; an exit's quantity is computed without a look at the position.
- Correct when: the record is what rests; no exit meets a balance locked by the program's own
  stop; every holding ends up covered; a holding that is not covered is at least reported.

**Storm guards** (`GlobalOrderRateGuard.hpp`, `SlowStormGuard.hpp`, breaker in
`GW:180-190, 369-430`) -> `StormGuards`
- State: deques of the orders of the last second and minute and of newly opened symbols;
  failures, next allowed time and daily count per (symbol, intent); unfilled count and
  LOT_SIZE rejects per symbol; the sticky `circuit_tripped_`. Three mutexes.
- Operations: `admit`, `on_send`, `on_fail`, `on_fill`, `record_out_of_band`, day roll-over,
  the coarse rate check and the trip.
- Hard: windows must slide, not be counted in buckets; guards are asked one after the other,
  so a trip or a failure lands between them; exits must be counted and not stopped.
- Correct when: no window ever holds more entries than allowed; a failing loop ends; after a
  trip only what was under way leaves; an exit is never stopped for good.

**Order recovery** (`OrderIdRegistry.hpp`, `GW:302-331, 488-512`, `BinanceREST.hpp:430-530`)
-> `OrderRecovery`
- State: `inflight_` (client id -> SENT, ACKED, UNKNOWN and the time), without a lock.
- Operations: `make_client_id`, `on_submit`, `on_result`, `on_timeout`, `on_query_result`,
  `decide`; `place_order` and `query_order` of the transport.
- Hard: an answer may be lost although the order was executed; it may be executed after the
  query that did not find it; two threads may recover the same id; a crash empties the table.
- Correct when: a signal is executed at most once; nothing is sent again without asking; an
  id that was refused is free; executed quantity reaches the ledger.

**Entry gates of the gateway** (`GW:190-331, 511-518`, `ExchangeFilters.hpp`,
`ExchangeTimeSync`) -> `SubmitGates`
- State: configuration, `lotsize_rejects_`, and `pilot_gross_usd`, an unguarded double in
  memory only that every fill is added to or taken from.
- Operations: clock halt, sanity, collar, quarantine, filters, hard cap, pilot cap and scope,
  minimum notional, kill switch, cash; the update of the sum after a fill.
- Interacts with: the ledger (`reserve_buy` may cut the quantity), the kill switch, the
  protective stops, whose sales do not pass here.
- Hard: each later gate may shrink a quantity that an earlier one had rounded; the aggregate
  ceiling is measured on a sum and not on the account; a halt may fall between gate and send.
- Correct when: what is sent is within every cap and above the minimum; the money put at stake
  stays within the aggregate ceiling; after a halt nothing new leaves.

**Live halt latches** (`DrawdownGovernor.hpp`, `UserStreamHaltGuard.hpp`, `UserDataStream.hpp`,
`StartupReconciler.hpp`, `main:3743-3841, 12691-12700`): the drawdown latch, the stream latch
and the boot reconciliation. Inert in the shipped program, section 7; their effect, a halt
that starts and ends at any time, is an action of `SubmitGates`.

**Portfolio protections** (`main:1080-1165, 2690-2790, 11385-11510, 12096-12640`) ->
`PortfolioHalts`
- State: `g_trade_log` and its journal; peak, cumulative equity, epoch, baseline and
  `g_daily_kill_until_ms` in atomics; `protection_state.json`; the emergency halt, the
  ratchet's lock and its age; per engine a gate and a cooldown; the symbol's cooldown.
- Operations: a trade's callback; the protections block (daily kill, emergency, ratchet with
  decay, re-arm and clamp, size throttle); the per-engine pass that opens and closes gates;
  `/api/ratchet_reset`, `/api/daily_kill_clear`, `/api/session_reset`; save, load, replay.
- Hard: file, journal and memory are written at different times; the HTTP handlers do not take
  the lock the block holds, and save what they read a moment ago; a shut gate earns nothing
  back, so only time can open it.
- Correct when: a kill survives a restart; equity is that of every trade, unless an operator
  sets another; the high-water mark is never lost; the ratchet latches when it should and lets
  go; an emergency keeps gates shut.

**Trend roster legs** (`EE:700-1020, 1700-1790, 2900-3040`, `main:10478-10612, 11811-11870`)
-> `RosterLegs`
- State: per leg the position (in, entry, armed, peak, bars, runner), `halted_`, the forming
  bar; `open_positions.json`, written every 60 s and at shutdown; `slice_usd` of the boot.
- Operations: a tick that closes bars, synthesises the missing ones and checks exits; entry,
  deferred entry, flip, runner, floor, `kill_all`; the order-intent callback that sizes the
  order; snapshot and `inject_open_position`.
- Interacts with: the gateway, whose answer it does not look at; kills on other threads.
- Hard: the engine believes in a position whatever became of its order; the snapshot is older
  than the crash and lacks the runner flag; one close can flip, run, stop and enter.
- Correct when: a position is bought once and sold at most once as a whole; the floor and the
  trail hold; a killed leg stays flat; an exit sells what was bought.

**LiveMimicMirror** (`main:1225-1813`) -> `LiveMirror`
- State: `held` (leg -> quantity, price, pending sale, floor), a file with most of that, the
  realised ledger; one mutex held across blocking exchange calls.
- Operations: `on_open`, `on_clip`, `on_price`, `retry_pending_`, `flatten_all`, `load`.
- Hard: the sale of a leg can fail, be retried from any later event, race a kill from the HTTP
  thread, and be decided on a free balance that a protective stop has locked or that other
  legs share; a write of the file that fails is not noticed.
- Correct when: every coin it bought belongs to a holding until it is sold, and is sold once;
  memory and file agree when a handler is done; a flagged sale ends.

**MimicLadderCompanion, Campaign manager, BtcRegimeMomentumBook, the cross-sectional sleeves**
(`include/core/`): removed from the program at this commit by `#if 0`; section 7. The mirror's
`on_open` and `on_clip` have no caller either as long as the ladder is gone; its holdings,
its `on_price`, `load` and `flatten_all` still run, and the model keeps all of them.

**Portfolio allocator** (`SpotPortfolioAllocator.hpp`, `PortfolioRisk.hpp`,
`RegimeExposure.hpp`): off by default; section 7.

**Transport** (`BinanceREST.hpp`, `SpotExecutor.hpp`): only its outcomes enter the models.

**Signal engines, feeds, observability, control API, GUI, backtests**: no component of these
keeps a book that another relies on; section 7.

## 2. The modules

| Module | Models | Extends or instantiates |
|---|---|---|
| `Totals`, `Totals_proofs` | the sum of a function over a finite set, as the number of its units; how a sum changes when one value does | |
| `CashBook` | what the ledger promises, without counters | |
| `ExchangeLedger`, `_proofs` | cash, reservations, positions, attribution | `Totals`, `CashBook` |
| `ProtectiveStops`, `_proofs` | the resting stop of one symbol | `Totals` |
| `StormGuards` | rate windows, backoff, breaker, quarantine | `Totals` |
| `OrderRecovery` | client ids and what may be sent again | |
| `Storm_proofs` | theorems of the two, which share their threads and nothing else | `OrderRecovery`, `StormGuards`, `Totals_proofs` |
| `SubmitGates`, `_proofs` | the sizing gates of `submit` and the pilot's sum | the proofs use `Totals` |
| `LiveMirror`, `_proofs` | the mirror's holdings above a gateway and a ledger in outline | `Totals` |
| `RosterLegs`, `_proofs` | the life of a position of the roster's engines | `Totals` |
| `PortfolioHalts`, `_proofs` | protections, protection file, gates | |
| `MCExchangeLedger`, `MCProtectiveStops`, `MCStormGuards`, `MCLiveMirror`, `MCRosterLegs`, `MCPortfolioHalts` | instances for TLC | their module |
| `MCStorm` | ids and guards in one run: a variable `part`, chosen at the start, says which module a behaviour belongs to | `OrderRecovery`, `MCStormGuards` |
| `MCSubmit` | two instances of the gates in one run, told apart by a variable `regime` | `SubmitGates` |

What a run varies that is fixed while the program lives is a variable that no step changes:
`setting` (`ProtectiveStops`, `LiveMirror`, `RosterLegs`, `PortfolioHalts`), `mode`
(`OrderRecovery`), `limits` (`StormGuards`), each a member of a CONSTANT set of records. One run
then covers several configurations, a property can state what it depends on, and one theorem
covers all of them.

A module that composes others in outline says so: `LiveMirror` has the gateway's stop, the
ledger's position, the retry latch and the backoff as four values of its `world`, in detail in
`ProtectiveStops` and `StormGuards`; `SubmitGates` lets a storm guard or the registry turn any
order away.

*Assumption about locks.* `ExchangeLedger` and `OrderIdRegistry` take no lock, so a kill on the
HTTP thread that books a sale while the feed thread books or reads is a data race, whose outcome
C++ does not define. The models make each method one step, that is, they show what the code does
while that does not happen. `pilot_gross_usd` is different: an unlocked read-modify-write of one
double, which `SubmitGates` has as two steps.

### CashBook and ExchangeLedger

`CashBook` is what the ledger promises, without counters: each open order holds some cash,
takes it only from what nobody holds, and spends only out of its hold. `ExchangeLedger` is the
code, one action per method and per kind of report. The mapping is `hold` <- the reservation
recorded for each pending order, `cash` <- `total_cash_`; the running counter is not mapped,
which is the point: it must not matter.

| Code | Definition |
|---|---|
| `seed_position`, `adopt_pending` at boot (`main:3743-3813`) | `Seed`, `Adopt`, `StartTrading` |
| `reserve_buy`, with reject and resize | `ReserveBuy` |
| `note_sell`, of any quantity | `NoteSell` |
| `release` | `Release` |
| `apply_report`: CANCELLED, REJECTED | `ReportClosed` |
| `apply_report`: ACCEPTED, UNKNOWN | `ReportState` |
| `apply_report`: PARTIAL, FILLED | `ReportFill` = `FillBuy` or `FillSell`, and `UnwindFill` |

Money is in 1/`FeeDen` of a quote unit and quantity in lot steps, so `q * px * (1 + fee)` is an
exact integer where the code has doubles with tolerances. `working` is the exchange's side: how
much of an order may still fill. `Hazards` names what the environment may do beyond the tame
case: fill above the reference price (`slippage`), fill after a release (`late_fill`), a client
id in use again (`id_reuse`), sell more than is booked (`oversell`), adopt at boot more than the
cash (`rich_adopt`). The theorems say which of them each property survives.

A sale may be of any quantity, since the roster sizes its exits by notional and price
(`main:10576-10588`). What it takes beyond its sleeve's share comes from the part seeded at boot,
which no sleeve owns, and then out of another sleeve's coins, whose share stays as it was
(`ExchangeLedger.hpp:192-199`). The observers `seeded` and `overdrawn` follow that: how much of the
seeded part is left, and for which symbols a sale has gone past it.

### ProtectiveStops

One coin, any number of threads, one step per HTTP call or critical section. `base` and `stops` are
Binance's; `pos` is the ledger's; `resting`, `rejected` and `mtx` are the gateway's. `pos`,
`resting` and `rejected` are functions of the symbol's spelling, a member of `Keys`: orders go by
`"trade"`, and the boot seeds under `SeedKey`, which is the same in settings with `upper` (the
mirror's orders, `main:1567`) and `"other"` in the rest (the roster's, `main:10588`).

| Code | Definition |
|---|---|
| an entry: order, ledger, then manage (`GW:463-535`) | `StartBuy`, `ExecuteBuy`, `BookBuy` |
| executed and booked nowhere: no answer (`GW:489-508`), or expired in part (`GW:561`) | `LoseAnswer` |
| the cancel before an exit (`GW:432-461`) | `PreExitCancel` |
| the sale and its booking | `ExecuteSell`, `BookSell` |
| `manage_protective_stop_`: reads before the lock (`GW:601-603`) | `ReadHeld` |
| flat; matching; drifted or none (`GW:608-630`) | `ManageFlat`, `ManageMatches`, `ManageRearm` |
| placing; refused; suppressed (`GW:631-655`) | `PlaceAccepted`, `PlaceRefused`, `PlaceSuppressed` |
| `close_symbol_from_broker` | `CancelAll`, `ReadFree`, `ReadFails`, `DumpFree` |
| `reconcile_stops` and its sweeps (`GW:664-719`) | `StartReconcile`, `NextSymbol`, `FindStale`, `EndReconcile` |
| a crash, then seed and boot sweep (`main:3743-3821`) | `Restart` = `Boot` with one of `Seeds` |
| Binance drops or triggers a stop | `StopVanishes` |

Quantities are lots, so the 1 % drift tolerance is equality; the stop price is left out, and so is
the early return for a position without an average price (a position with base always has
one, except a seeded one whose price fetch failed). The restart seeds the free balance, as
`main:3743-3803` does, not the locked one. `setting` fixes what may go wrong, the dust below which
a holding counts as flat, and the largest holding. `tried` remembers which stops the cancels of
an attempt to sell have asked for, `calm` whether something disturbed the reconcile under way,
`lost` how many coins buys brought that the ledger never heard of.

### StormGuards

Several symbols, several threads, one step per guard (each guard has one lock). Time is a tick; a
deque of timestamps becomes counts by age, and `next_allowed_ms` becomes the wait that remains, so
that behaviours are infinite and the state space is not. `AdmitStorm`, `AdmitRate`, `Coarse`,
`Send` are `GW:369-463` in order; `Filled`, `Working`, `Refused` are `GW:463-512`; `Tick` and
`Midnight` are the passing of time, `OutOfBand` is the flatten that bypasses `submit` and is only
counted. Failure and quarantine counters saturate where a larger value changes nothing. `Filled`
merges the updates the code makes under three locks one after the other; all of them only clear,
for the symbol of the order. `Coarse` merges the reading of the window with the breaker's lock.
`limits` holds the caps of all the guards and what they are exposed to: the symbols, the answers of
Binance, and who asks. `OPERATOR` tells an operator's order from an automated one: to the guards
both are exits, since no production caller sets `operator_initiated`.

### OrderRecovery

Signals, callers, and an exchange that may or may not refuse a client id it has executed. `mode`
says who drives the registry, `gateway`, which is `submit` as it stands, or `query_first`, the
protocol the registry's header describes and `tests/order_recovery_test.cpp` drives; who recovers;
whether the exchange refuses executed ids; and what may go wrong. `Protocol` is the mode that keeps
to the header: query first, one recovering thread, requests that are dead once they went unanswered,
no id overdue, no crash. `OnSubmit`, `Pass`, `Refuse`, `BelowMinNotional` are `GW:302-331`;
`Answered`, `Rejected`, `Lost` are the three ends of `place_order`; `Land` is an unanswered request
that arrives late, within its `recvWindow`; `Query` and `OnQueryResult` are the recovery; `Crash`
empties the table. The signal carries an id here (`signal_id # 0`); production passes 0 and so skips
the registry.

### SubmitGates

`submit` from the clock halt to the cash, and the pilot's sum after the answer, in LIVE mode with
the pilot on, for several coins and threads.

| Code | Definition |
|---|---|
| clock, sanity, collar, quarantine, filters, caps, minimum (`GW:195-292`) | `Size`, with `Collared`, `Normalized`, `Capped`, `GrossRoom`, `EntryMayGo` |
| the kill switch; registry and storm guards (`GW:293-309`) | `KillSwitch`, `TurnAway` |
| `reserve_buy`, which may cut; below the minimum (`GW:312-331`) | `Reserve` |
| the order leaves; LOT_SIZE refusal, failure (`GW:463-509`) | `Leave`, `LotRefused`, `Failed`, `Executed` |
| `pilot_gross_usd` read, then written (`GW:511-518`) | `ReadGross`, `WriteGross` |
| `normalize`, `fallback_step` (`ExchangeFilters.hpp:95-154`) | `Normalized`, `ToStep`, `Submittable` |
| boot; a halt; a price; a sale that does not pass here | `Restart`, `Halt`, `PriceMoves`, `SoldElsewhere` |

Quantities are in grains, the finest quantity an order can name; `LotStep` grains make a lot step,
so an unfloored quantity is one that `OnStep` rejects. Two observers go with the sum. `spent` is the
dollars the pilot paid for its coins, at the prices of the fills, less what selling them brought.
`told` says that nothing has yet lowered the sum, or failed to raise it, without the money coming
back: no two entries past gate 4b at once, no two updates of the sum at once, no BUY executed
without an answer, no exit that expired unfilled (counted as a whole sale, `Counted`) or was of a
coin outside the pilot (`Heard`), no restart. Moving prices, fills off the reference, entries that
expire, exits that overlap an entry or are executed without an answer, and stops that sell leave it
alone; then the sum is too high, never too low.

### LiveMirror

The legs of one coin. A handler holds the mirror's mutex across its exchange calls, so it is a
`job` with a retry phase and a body, one step per call; only the world outside moves in between.

| Code | Definition |
|---|---|
| `on_open`, `on_clip`, `on_price`, `flatten_all` begin | `LegOpens`, `LegClips`, `PriceTick`, `Kill` |
| `retry_pending_` (`main:1528-1578`): balance query, dust-clear, sale | `RetryAsk`, `RetryDust`, `RetrySell`, `RetryEnds` |
| entry: guards; BUY (`main:1583-1706`) | `Decline`, `Buy` |
| a sale of a leg (`main:1713-1737`, `1747-1783`, `1791-1810`) | `SellLeg`, `NotHeld`, `Finish` |
| `book_close_` | `Account` |
| `persist_`, which may fail and then returns silently (`main:1490-1491`) | `Persist`, where the code calls it and only there |
| `load` after a crash | `Restart` |
| `submit` below it: cancel of the stop, the sale or BUY and what Binance makes of it, re-arm | `Freed`, `Sales` = `Sold`, `SoldUnheard`, `Expired` or `Failed`, `Buys`, `Manage` |

`setting` fixes at the start whether native stops are on and what may go wrong: refusals, lost
answers of a SELL or a BUY, expiry after a partial fill, the fee taken in base, a failed balance
query, a triggered stop, a crash between handlers or inside one, a file that cannot be written
(`unwritten` remembers that the last write failed). Prices are choices: which tick
breaks a floor, which entry is too far from its anchor.

### RosterLegs

Legs of one coin: ride-to-flip (SOL-IBS) and RSIREV (SOL-RSIREV), which share the account. `todo`
is what the tick or kill that holds `g_engine_mtx` still has to do, per leg: the bars to close, each
with the verdict of its signal, and then the exits to check or the engine to kill. The legs are
served in the order of `g_slots` (`Turn`); nothing else starts until all are `Idle` (`Free`).

| Code | Definition |
|---|---|
| `on_tick`: the bars and synthetic fillers it closes, then the exits (`EE:737-785`); the first tick may close the bar the boot seeded (`EE:707-726`) | `Tick`, `Verdicts`; `WorkBar`, `WorkLast` |
| `close_bar_` (`EE:1689-1776`): flip, runner, unopened, entry | `CloseBar` = `FlipToRunner`, `FlipUnopened`, `FlipOut`, `Enter`, `BarPasses` |
| `check_exits_` (`EE:2681-2738`): confirm, arm, keep, stop | `CheckExits` = `Arm`, `StopOut`, `Rides`, with `Confirm` and `Keep` |
| the order-intent callback (`main:10566-10606`) | `Qty`, `Buy`, `Sell`, `Bought`, `Sold` |
| `kill_all` (`EE:808-814`, `main:2629-2637`) | `Kill`, `KillLeg` |
| snapshot, shutdown, crash, boot (`main:11829-11872, 12939-12983, 10985-11040`) | `Snapshot` of what `Saved` keeps, `Shutdown`, `Crash`, `Boot`, `Resumed` |

The indicator that flips, the signal that enters and the volatility that sizes are verdicts. The
exits of kinds the roster does not wire (trail, ratchet, pyramid, time) are left out.

### PortfolioHalts

| Code | Definition |
|---|---|
| a trade's callback (`main:1080-1120`) | `Trade`, `Logged`, `Credited` |
| the protections block in four parts, since HTTP handlers do not take its lock | `LoopReads` (emergency with the positions it closes, `Closing`; kill), `LoopSaves` (the kill's save), `LoopEquity`, `LoopRatchet` |
| the per-engine pass of a tick, engine by engine in the order of the wiring (`main:11378-11501`) | `Tick`, `Cooled`, `Blocked`, `MayEnter`, `Entered` |
| `/api/ratchet_reset`, `/api/daily_kill_clear`, `/api/session_reset` | `RatchetReset`, `ResetPeak`; `DailyKillClear`; `SessionReset`, `ReadEquity` (with or without `?cum=`), `Rebase`, `ClearHalts` |
| a handler's `save_protection_state`, without the lock: what is read, then the file | `SaveReads`, `SaveWrites` |
| crash (which file it may leave), boot with replay, which believes the file within 1 bp | `Crash`, `Boot`, `Rebuilt`, `Near` |
| time | `Pass` |

Equity is in basis points; timestamps become time left or elapsed in units of two hours, the
shortest duration anything here lasts. The cascade of stop-losses and the fall of BTC that raise
the emergency are one choice, `alarm`; the blocks by streak, symbol, cluster and regime are left
out, so `open` may be closed by the daily kill, the emergency, the ratchet and the throttle.
Only the emergency closes wired engines (`main:12233-12260`). The daily and the aggregate kill
close positions of `g_slots` (`main:12282-12286, 12324-12328`), whose trades are only exported
(`main:10308-10322`) and never enter `g_trade_log`: nothing in this module's state changes by it.

Three observers belong to the kill and the equity: `owed` is what is left of a kill that tripped and
that no operator cleared; `saved` that the kill was saved and no save whose values are older has
replaced the file since; `rebased` that an operator set the equity with `?cum=`. The lock holder's
save is one step: what a handler stores while it runs can only be older in the file than in memory
by a kill the operator has just cleared, never by one that tripped.

The engines with this per-symbol cap are those `wire_engine` makes, which at this commit needs
`CHIMERA_WIRE_LEGACY` (`main:4570`); the block itself always runs.

## 3. Runs and bounds

| Run | Question | Instance | Distinct states |
|---|---|---|---|
| Ledger | Do counter, cash bound, shares and the refinement of `CashBook` hold through every mixture of orders, with sales of any size? | 2 sleeves, 1 symbol, 2 prices, 3 orders of up to 2 lots, cash for less than one full order at the high price | 719,582 |
| Stops | One thread. Calls that fail, answers that are lost, stops that trigger or are cancelled by hand, a process that may die anywhere: is no exit refused over base our own stop locks, does a sale cancel first, is every naked holding one the sweep reports, is every holding covered after a reconcile? | six settings: failing placements and flattens with lost answers and triggers, without and with failing cancels; crashes alone, in either spelling; crashes with failing calls; crashes with stops cancelled by hand; holdings up to 4, sales of 1 to 4, dust below 2 or none | 752,471 |
| StopsConverge | Two threads that buy and sell, one reconciles: is `resting_stop_` exact, and is the holding in the end covered for good? | holding up to 2 | 140,336 |
| StopsExitRace | Is no exit refused with two threads? | 1 trader, 1 reconciler | **violated** |
| Storm | May `submit` send once more? At most one execution per signal, no blind repetition; windows and fan-out; ends of a loop, of unfilled sends, of a trip | 2 signals, 2 callers in the modes `query_first` and `gateway`; 2 threads with the limits `Windows` (3 symbols, windows of 2 and 3 ticks) and `Loops` (1 symbol, every answer) | 3.5 M |
| StormExits | Is a failing exit sent again and again? | 1 thread, entry and exit, every answer but LOT_SIZE | 9,044 |
| Submit | Are sizes and steps right, does the aggregate ceiling bound the money at stake, and does a halt bind? | "pilot": 1 thread, 4 coins, 5 sizes, expiries and stops at one price; "threads": 2 threads at one coin, halts, 2 prices, lost answers, restarts | 2.8 M |
| Mirror | Is each lot sold once and booked once, is nothing stranded, is what is recorded there, is the file current? | 2 legs, BUYs of 2 or 3 lots, at most 5 on the account, 10 settings | 5.2 M |
| MirrorResolves | Does a flagged sale end? | 2 legs, 1 lot each, with and without stops | 11,570 |
| Roster | Is a position bought once and sold once, do floor and trail hold, does a kill last? | 2 legs of one coin, 3 prices, a slice of 4, 2 entries, 1 kill, 1 restart | 3.7 M |
| RosterExits | Does an exit sell what was bought? | 1 leg, 1 entry | **violated** |
| Halts | Do kill, equity, peak, ratchet, emergency and cap survive crashes, requests, their overlap and time, and does the gate open again? | 2 engines, up to 3 trades, 1 restart, 1 request, jumps of 2 h and 24 h | 711,237 |

The longest runs take up to three minutes with two workers.

Why the bounds are enough:

- *Ledger.* An error in the bookkeeping needs an order whose share is mistaken for another's: one
  order that is resized, one that fills in part, one that closes; three orders, two sleeves and a
  quantity of two allow each in any order. Cash of 30 is between one lot at the high price (22) and
  two (44), so orders are granted, resized and rejected. Two prices let a buy fill below its
  reservation and a sale at a profit or a loss; two fees cover the reported and the estimated one.
  Two sleeves and a seeded lot let a sale take its own share, the seeded part and the other
  sleeve's. Sleeves are symmetric.
- *Stops.* At most one stop rests by record, one is being replaced and one may be an orphan; there
  is an id more than that. Four lots with dust of two give exits that leave more, exactly and less
  than dust, also after several entries, and exits of more than is held. `MaxBelief` bounds what the
  ledger may count after sales it never heard of at twice the largest holding, and `LoseAnswer`
  stops adding to `lost` at the largest holding. Two threads: each step that another thread can
  disturb is a gap in one thread; a third adds no new gap. `CoveredAfterReconcile` speaks of the
  setting with crashes alone, which has no dust because of the restart finding in section 6.
- *Storm.* The windows hold more than one tick, so that bursts straddle an edge, and the caps are
  reached within one window and by two threads together. `Loops` reaches every stop (unfilled 3,
  consecutive 1, quarantine 2, day 4, and the coarse rate, which exits fill since they are counted
  and not refused). `burst` bounds the orders of one tick one below or above the coarse limit. Three
  requests per signal (`posts`) cover the original, a blind repetition and one more after a query;
  the gateway mode has two because late requests and crashes multiply the states.
- *Submit.* `HardMax` 55, `PilotMax` 45, `GrossMax` 85 and a minimum of 20 at prices of 10 and 20
  with two grains to a step make every order of the caps bind, leave an unfloored remainder, and
  fall below the minimum; two full orders exceed the aggregate. The coins are one of each kind and a
  second of the pilot: in the pilot or not, with a filter, with a fallback step, with neither.
  `MaxSum` only stops a sum that two threads' lost updates let grow without end. `MaxHeld` is 8 and
  4 grains of a coin, 80 dollars, so that entries run up to the ceiling of 85 and the gate of the
  sum, not the bound, turns the next away. `NotFarAhead` keeps who sells dearer than he bought from
  gaining more than 20 dollars, beyond which the ceiling is only farther away.
- *Mirror.* Two legs are enough to take each other's coins, a BUY of two or three lots with
  `MinSell` 2 gives remainders above and below the minimum, and 5 lots hold both legs. `AnySettings`
  is the strongest combination of faults each property is claimed for; section 6 shows it fail with
  one more.
- *Roster.* Three prices are at, above and below an entry, and far enough apart for the confirm
  distance; a third entry adds nothing, since a position keeps nothing of an earlier one (`TypeOK`:
  a flat leg is `Flat`), and two let a position of the same leg follow a kill, a restart or an exit.
  A slice of 4 buys 2, 1 and 1 coins at the prices 2, 3 and 4, so that a SELL at a lower price asks
  for more than was bought and is refused, and one at a higher price leaves coins; the engine reads
  neither answer. RosterExits has a slice of 24, which every price divides, so that its
  counterexample is not one of rounding.
- *Halts.* The returns are chosen to cross the thresholds from both sides: -420 trips the daily loss
  and the ratchet, -120 the half hour, 200 arms the peak, 40 stays below; 1 is within the tolerance
  of the replay, and 120 regains what -120 lost while the file is torn. Disturbances multiply, so
  `AnySettings` has five cases: crashes with up to three trades, with finer returns and two trades,
  with torn files and an operator's own equity of 40, with handlers inside the block and one trade
  (a kill trips, a request's save is under way, the process dies), and the alarm with both jumps.
  What else they do together is left to the theorems, which do not separate them. Jumps of 2 h and
  of 24 h end every duration.

Deadlock is not checked in the Ledger, Stops, Submit, Mirror and Roster runs: their bounds
(orders, largest holding, entries) really do end behaviours. The Storm and Halts runs check it.
`TypeOK` of `ExchangeLedger` is in its run; of the other modules it is a theorem of section 5.

## 4. Fairness

Four properties need it, and each says under which scheduling the code makes progress.

- `EventuallyCovered` (`ProtectiveStops!Fairness`): strong fairness of a thread's next step, since
  a thread waiting for `stop_mtx_` may find it taken again and again but is granted it sooner or
  later; weak fairness of the reconcile on each reconciler, which the tick callback repeats every
  30 s (`main:12664-12682`). No fairness of buying or selling: a trader owes nobody a trade.
- `ExitsKeepGoing` (`StormGuards!Fairness`): time passes (`Tick`); a started `submit` goes on,
  strongly, since `burst` may hold it up within one tick. That the exit is submitted again is not
  assumed but a premise of the property: it is about whoever does so, which is the mirror, every 3 s
  (`main:1547`). The roster's engines clear their position whatever the answer (`EE:2992-3032`,
  `main:10591`) and never resend. Nothing is assumed
  of Binance: it may refuse for ever, which is the case the property is about.
- `PendingResolves` (`LiveMirror!Fairness`): a handler that has the mutex goes on; ticks keep
  coming, also while no backoff runs and nothing cools (strongly: other handlers may be first); the
  3 s and the backoff pass; and Binance does not refuse every sale for ever and does not fail
  every balance query that finds dust (strongly). Without the last two the holding may well stay,
  and should.
- `GateReopens` (`PortfolioHalts!Fairness`): the main loop's block runs, a started handler goes
  on, time passes (strongly, since a step of the block may always be due first), and the process
  is started again after a crash. No trade is assumed: a shut gate must open by time alone.

## 5. Proofs

TLAPS checks each theorem for all values of the constants; the leaves are discharged by Z3, Zenon
and, for the temporal steps, LS4. The assumptions on constants (`LedgerAssumption`,
`StopsAssumption`, `RecoveryAssumption`, `StormAssumption`, `GatesAssumption`, `MirrorAssumption`,
`RosterAssumption`, `HaltsAssumption`) say what kind of value each is (finite sets of threads, stop
ids, symbols and legs, natural bounds and prices, an order of engines without repetition, a set of
configuration records), that guards have at least one thread and one symbol, and that a second is no
longer than a minute and a first backoff no longer than the cap. TLC evaluates them in the runs.

Every safety invariant that a passing run checks is a theorem.

| Theorem | Says | Needs |
|---|---|---|
| `ExchangeLedger_proofs!TypeCorrect` | `[]TypeOK`; in particular the counter and positions never go below zero | nothing: every hazard allowed |
| `CounterExact` | `[]ReservedMatchesPending` | no slippage, late fill or id reuse |
| `NotOverbooked` | `[]NeverOverbooked` | no hazard |
| `LedgerImplementsCashBook` | `Spec => Book!Spec` | no hazard, enforcement on |
| `SharesAddUp` | `[]AttributionExact`: no coin without an owner, and shares that add up until a sale takes another sleeve's | nothing: every hazard, sales of any size |
| `ProtectiveStops_proofs!TypeCorrect` | well-formed, and stops never lock more than is held | nothing: every fault, any threads |
| `RecordExact` | `[]StopsMatchRecord` | any threads; the faults it excludes are in the property |
| `NakedIsReported` | `[]NoSilentNaked`, but for the coins of buys whose answer was lost | any threads; the faults are in the property |
| `ExitsGoThrough`, `ExitsCancelFirst`, `CoveredAgain` | `[]ExitNeverLocked`, `[]ExitCancelsEveryStop`, `[]CoveredAfterReconcile` | one thread, exits of any quantity; the faults, and a single life of the process in the first two, are in the properties |
| `Storm_proofs!TypeCorrect`, `GuardsWellTyped` | `[]TypeOK`, `[]GuardsTyped` | nothing |
| `ExecutedOnce` | `[]AtMostOnce` | nothing; the property asks for an exchange that refuses executed ids or for `Protocol` |
| `NothingBlind`, `RefusedIsFree` | `[]NeverBlind`, `[](Protocol => RefusedIdIsFree)` | nothing |
| `DeskStaysWithinCaps` | `[]AdmissionsBounded` | nothing: any threads, symbols, windows, caps |
| `RetryLoopsStop`, `UnfilledRunEnds`, `TripIsFinal` | `[]RetriesStop`, `[]UnfilledBounded`, `[]AfterTripBounded` | nothing |
| `SubmitGates_proofs!TypeCorrect` | `[]TypeOK` | nothing |
| `HaltBinds` | `[]AfterHaltBounded` | nothing: any threads, any halts |
| `SizesRight`, `OffStepOnlyIfCut` | `[]EntriesFit`, `[]RawOnlyIfCut` | nothing |
| `CeilingHolds` | `[]SpentWithinCap` | nothing: any threads, prices and ceilings; what ends the guarantee is in the property, as `told` |
| `LiveMirror_proofs!TypeCorrect` | `[]TypeOK` | nothing |
| `FileNeverBehind` | `[]FileCurrent`: between handlers the file is behind only after a write that failed | nothing: every fault |
| `NoLotBookedTwice`, `NoLegOversells` | `[]BookedOnce`, `[]SoldOnce` | nothing; the exceptions are in the properties |
| `HoldingsBacked`, `NoCoinStranded` | `[]HoldsBacked`, `[]NothingStranded` | nothing; the exceptions are in the properties |
| `RosterLegs_proofs!StateWellTyped` | `[]TypeOK`; in particular a leg that is out keeps nothing of its last position | nothing |
| `NeverSoldTwice`, `BoughtBeforeSold` | `[]SoldAtMostWhole`, `[]BoughtOnceThenSold` | nothing: any legs, prices, slices, entries |
| `FloorIsAFloor`, `TrailIsKept`, `KilledEnginesStayOut` | `[]FloorHolds`, `[]RunnerTrails`, `[]KilledStaysFlat` | nothing |
| `PortfolioHalts_proofs!StateWellTyped` | `[]TypeOK`; no epoch lies ahead of the trades | nothing |
| `OnePositionPerSymbol` | `[]CapHolds` | nothing: any engines in any order |
| `EquityNeverMiscounted`, `HighWaterNeverLost` | `[]EquityIsAllTrades`, `[]PeakKept` | nothing; no overlap of request and block, and no equity set by an operator, in the properties |
| `KillsOutliveTheProcess` | `[]KillHolds` | nothing: any trades, overlapping requests and crashes; through a crash from the kill's save on, until an older save replaces it (`owed`) |
| `EmergenciesShutGates` | `[]EmergencyShuts` | nothing |
| `RatchetNeitherSkipsNorLatches` | `[]LockedIffGivenBack` | nothing |

The hypotheses, in the theorem or in its property, are part of what is learnt: each disturbance
left out has a counterexample in section 6.

**Sums.** `Total(f, S)` is the number of units of `f` over `S`, which needs no recursion.
`TotalUpdate` says that changing one value moves a sum by the difference, `TotalMonotone` and
`TotalBounds` compare sums; they are proved from the cardinalities of disjoint unions. Windows,
reservations, shares, stops and holdings all rest on them.

**The ledger.** `ReservedMatchesPending` is inductive with typing (`Balanced`). A step is right if
it moves the counter by what it moves one reservation. For a fill that is so because
the cost is within the order's reservation, so neither clamp bites (`FillUnwinds`); `slippage` is
exactly its failure. Solvency then needs that a buy consumes from its reservation at least what it
pays: the consumption is the estimated cost at full fee, the payment has a fee that is no higher
(`BuySpends`). The refinement maps a reservation to `Commit`, a report to `Settle` or `Income`,
and everything else to stuttering; it needs that sells hold nothing (`SellsHoldNothing`).
Attribution survives every hazard and sales of any size. A sale is clamped at its sleeve's share and
taken in full from the position, so what it takes beyond the share must come off something else:
`Covers` says that position is at most what the shares and the rest of the seeded part add up to
(`Owned`), and equals it for a symbol of which no sale has taken another sleeve's coins. What a sale
then leaves too much in the shares never comes back: the inequality is all that is left.

**The stops.** `StopsMatchRecord` is not inductive: in the middle of a re-arm nothing rests and
nothing is recorded, and another thread must not act on that. The strengthening `RecordInv` adds
that a thread between re-arm and end of flatten owns `stop_mtx_` (`LockOwner`), that the record is
empty as long as it does (`Unarmed`), and splits the property in "nothing rests unrecorded"
(`NoOrphan`) and "what is recorded rests" (`Present`, only if stops last).

`NoSilentNaked` also holds for any number of threads, and rests on two facts. The account holds no
more than the ledger knows, and neither does the free base with the recorded stop, once what the
threads have bought and sold without booking it yet is counted (`KnownInv`; the sums `ToBuy` and
`ToSell` run over the threads). And a reconcile that nothing disturbs is the work of one thread
whose reading of the position stays true, so that it ends with a record that is empty or names the
whole position (`QuietInv`). Then an uncovered holding has no stop on record and is in the ledger.

What the ledger will never hear of is the one exception, and `lost` counts it: the account may hold
that much more than is known, and no more. An expired or unanswered sale errs the other way.

The other three are about one thread, `Alone`, and need it: with a trader beside the reconciler TLC
finds each of them violated (StopsExitRace is one of the counterexamples). The two about exits
follow from `NoOrphan` and one line more, `SellInv`: when the thread sells, nothing is on record. In
one life of the process that is one record, since only the spelling of the orders is ever used
(`OneKey`). A process that dies uses both: `CoverInv` says that what is neither locked nor on record
is in the ledger under one spelling or the other, that no record exceeds its position (`Balanced`),
and which spellings the thread still has to see to (`InPlace`), down to what a refused sale leaves
to the next reconcile.

**Ids.** With an exchange that refuses executed ids the invariant is one line: what was executed is
known, and known ids are refused (`RememberedInv`). Without it everything rests on the registry:
`ProtocolInv` says that an id in state SENT has one owner, who got it from `on_submit`; that only
the recoverer holds an answer, and the answer is still true, because nobody can submit an id that
is UNKNOWN; and that an id is UNKNOWN exactly when its last request is unresolved.

**The storm guards.** Each guard has its own lock, so each bound is the guard's limit plus what the
threads between two guards may add, and each invariant counts those threads. For the windows there
are none: counting and recording are one critical section. `DeskInv` compares the entries admitted
with the orders recorded, age by age (exits are recorded too), and a passing tick shifts a window
into a smaller one (`SumShift`). `RetryInv`: the failures of a symbol plus the threads that are past
`admit` with an entry for it never exceed the limit by more than the other threads; an answer turns
one into the other. `UnfilledInv` does the same for the entries sent since the last fill and the
threads between count and send; a fill resets both counts, and the filling thread is not
one of those that remain. `TripInv`: what went out after the trip plus the entries
that are past the breaker; the thread that trips it has dropped its own. `Backoff` is a recursive
function; that it is defined and capped needs an induction over numbers (`BackoffIs`, below).

**The gates.** `HaltInv` bounds an entry by where its thread is: whoever has sent one since the halt
began is before the kill switch with the next. `SizeInv` carries the size through the four gates
that change it: once sized, an entry fits both ceilings, and the later ones only lower it or drop
it. `CapInv` is the interesting one: while `told`, the money the pilot has at stake, with what
answered exits are still to take from the sum (`Due`), is at most the sum with what answered entries
are still to add (`Paid`); both are sums over the threads. At most one entry is in hand, and until
it is answered the sum still has the room the gate found for it (`HasRoom`): other threads may only
sell meanwhile, and that lowers the sum. When the entry leaves, nothing is still to be added, so its
cost fits. It uses the sum's error in one direction only, which is why an expired entry, a lost
answer to a sale or a stop does not end it, and a BUY without an answer does.

**The mirror.** `FileInv` says which steps may run with memory ahead of the file (a job marked
dirty, or one that writes at its end), and that otherwise memory and file differ only after a write
that failed. `BookedInv` and `SoldInv` need more than the holding: while a retry has asked for the
balance, the size it will sell is at most what the leg still holds (`AskInv`), although the balance
may contain the other legs' coins. `BackInv` compares the total of the holdings with the account,
and needs for native stops that the ledger's position and the stop are covered by the account too:
otherwise the gateway's own flatten could sell what the mirror records. `StrandInv` goes the other
way: every coin above dust is in a holding, nothing is locked, and a retry that asked will sell
either all of the holding or all there is, so what is left after it is dust.

**The roster.** One invariant, `LegInv`, for each leg: what a position may still sell fits with what
the book says was sold (`SoldFits`), and with the snapshot, from which a later life sells the whole
again; who may still buy has not bought (`BoughtFits`, `RoughFits`); while the exits of a tick
are still to be checked nothing is claimed of the floor and the trail, and afterwards the price is
above them (`FloorFits`, `TrailFits`), which survives a restart because `Saved` keeps entry,
peak and arming. The steps are proved once per way a leg's position can change.

**The halts.** `KillInv` ties four copies of the kill: what is owed is at most what memory has while
the process runs; once the kill is saved, at most what the file has; and, if a request is about to
write values read since the kill tripped (`~reset.old`), at most what those say. With the process
down, either the kill was saved or nothing is owed. `ShutInv` says which gates a pass has shut when
the next tick runs. `RatchetInv` is the property wherever nobody is in the block and nothing is due:
whatever touches equity, peak or lock marks a pass as due, a session reset only at its last step
(`reset.at # "clear"`), and a pass ends by setting all three together. `EquityInv`, for behaviours
without overlap and without an equity set by hand, is about the pair a session reset writes:
baseline and epoch always describe a prefix of the log whose sum the baseline is, in memory and in
the file; so the recount of a pass, which adds what came after the epoch, is the sum of all trades,
within the one tolerance a replay accepts, and the tolerance is never added to another. `PeakInv`
says which prefixes of the log the memory's and the file's peak are above; the file may lack the
last trade, and the replay adds it. `CapHolds` follows one tick through the engines: `Entered` is a
recursive function of the wiring's order, and at each engine the engines that have entered are the
ones in position.

*Induction over data.* The library's induction theorems take an operator as parameter, which the
installed provers cannot instantiate. Where a proof needs an induction over numbers (`Backoff`,
`Running`, `Entered`, `Closing`) it is done by hand: the set of numbers where the
claim fails has no least member, and the order of the numbers is well-founded
(`Totals_proofs!Smallest`, `Induct`, `Highest`). That a recursive function satisfies its own
equation comes from `Accumulation`, which finds the values one
by one.

Left to TLC: the four liveness properties (liveness and `ENABLED` are beyond the prover), and that
the bounds of the runs let the interesting cases happen. Of the stops, what holds for any number of
threads is `RecordExact` and `NakedIsReported`; the other three are false for two.

## 6. Disagreements between the code and what it says of itself

Two of the runs are counterexamples kept as runs. The others are reproduced from a listed
configuration by the change given, and TLC finds them within seconds, seldom minutes. "Without X"
means: remove the condition X from the property; "setting {...}" means: the set of settings is
the one with these faults.

| Property | Change | What happens | Against |
|---|---|---|---|
| `ExitNeverLocked` | run StopsExitRace | `submit` cancels the stop, releases `stop_mtx_` and sells; a reconcile in between sees the holding unprotected and re-arms; the sale is refused | `GW:432-446` "so the stop's locked base is freed for the exit" |
| `ExitSellsWhatIsHeld` | run RosterExits | an exit's quantity is `slice / price` at the exit's price (and, for the others, volatility), so it sells more or less than the entry bought | `EE:590-591` "sells the exact held fraction" |
| `ReservationsBacked` | Ledger, `Hazards = {"slippage"}` | a fill above the reference price takes more from the shared counter than its order had reserved, and so eats the cash of other open orders | `ExchangeLedger.hpp:14-15` "sleeves can no longer each book the full capital" |
| `NoOrphanReservation` | Ledger, `Hazards = {"id_reuse"}` | a second order of the same sleeve, symbol and side overwrites the record of the first, whose reserved cash nobody can release any more | `ExchangeLedger.hpp:96` "so apply_report can release it" |
| `AttributionExact` | Ledger, without `s \notin overdrawn` | a sale above its sleeve's share is clamped at the share and taken in full from the position: the other sleeve's attribution counts coins that are gone | `ExchangeLedger.hpp:223-224` "the exact quantity an exit path must close ... Never oversells the real position" |
| `CoveredAfterReconcile` | StopsConverge with this invariant | held quantity is read before `stop_mtx_`; a thread that waited re-arms for an old holding (the next reconcile repairs it: `EventuallyCovered` holds) | `GW:664-665` "ensure EVERY held position has a broker-side stop" |
| `ExitCancelsEveryStop` | Stops, without `"cancel_fail"` | the record is erased though the cancel failed; the next exit finds no record and cancels nothing | `GW:457-458` "a stale entry would make the NEXT attempt skip the cancel entirely" |
| `ExitCancelsEveryStop` | Stops, without `"crash"`, setting {crash} | a stop of the previous life rests, no record names it, and no exit cancels it | as above |
| `ExitNeverLocked` | Stops, without `"cancel_fail"` | the cancel fails, the sale goes out all the same and meets the locked base | `GW:432-446` |
| `ExitNeverLocked` | Stops, without `"crash"`, setting {crash}, `upper` FALSE | the boot seeds and arms under `BTCUSDT`; an exit of `btcusdt` looks its record up in lower case, finds none, cancels nothing and is refused over the boot's stop | `GW:432-446` |
| `ExitNeverLocked` | Stops, without `"crash"`, setting {crash}, `upper` TRUE | in one spelling too: the exit cancels the stop on record, and one that the previous life left still locks base | `GW:432-446` |
| `NoSilentNaked` | Stops, without `- lost` | a BUY whose answer is lost, or that expires after a partial fill, brings coins the ledger never counts: no reconcile protects them and no sweep reports them | `GW:664-665` |
| `NoSilentNaked` | Stops, without `"external_cancel"`, setting {external_cancel} | a stop dropped by Binance stays recorded, its quantity matches, so neither the reconcile nor the naked sweep notices | `GW:700-703` "a stop the exchange cancelled out from under us" |
| `CoveredAfterReconcile` | Stops, without the condition on faults, setting {place_reject} | the flatten sells the coins and the ledger is not told: the symbol never reads flat, the rejection latch stays, the next entry gets no stop | `GW:616` "a later re-buy may arm a fresh stop" |
| `CoveredAfterReconcile` | Stops, without the condition on dust, setting {crash}, `upper` TRUE, dust 2 | each restart leaves dust out of the seed; the dust of several lives adds up to a position no stop covers | `GW:664-665` |
| `CoveredAfterReconcile` | Stops, without the condition on faults, setting {crash, seed_fail} | a boot that cannot price a coin leaves it out of the ledger, and no reconcile ever protects it | `GW:664-665` |
| `OperatorNeverRefused` | StormExits, this invariant and `asks` with `"OPERATOR"` | no production caller marks an order as the operator's, so `/api/kill` is refused while an automated exit of the symbol backs off | `SlowStormGuard.hpp:47-48` "never delayed or refused" |
| `LedgerLearns` | Storm, this invariant | an unanswered request that was executed is a plain failure to `submit`: reservation released, fill booked nowhere | `OrderIdRegistry.hpp:68-69` "the caller must query the exchange before doing anything else" |
| `NeverBlind` | Storm, without `Protocol` | `submit` never calls `on_timeout`: a lost answer frees the id and the next submission goes out unasked | `OrderIdRegistry.hpp:12-15` "NEVER blind-resubmit" |
| `RefusedIdIsFree` | Storm, this invariant | the return below MIN_NOTIONAL (`GW:325`) forgets `on_result`; the id is in flight for ever | `OrderIdRegistry.hpp:65` "rejected: id is free to reuse" |
| `AtMostOnce` | Storm, `Protocol` without `~mode.late`, and late requests in its mode | a query that finds nothing frees the id, while the first request may still be accepted within its `recvWindow` | `OrderIdRegistry.hpp:87-89` "never landed and is now safe to (re)submit" |
| `AtMostOnce` | Storm, `Protocol` for any recoverers, and two in its mode | the answer of a second query, made before the id was sent again, erases it while it is in flight | `OrderIdRegistry.hpp:48-50` |
| `RawOnlyIfCut` | Submit, without its first alternative | cap, pilot cap and cash divide a floored quantity and do not floor it again: Binance refuses it with -1013, and two such refusals quarantine the leg | `main:3628-3637` "never sends an unfloored qty" |
| `SpentWithinCap` | Submit, `Pay` with `told' = told` and `spent' = spent + usd` | the sum starts at zero after a restart, hears nothing of a BUY whose answer was lost, counts an exit that expired unfilled as a full sale (`GW:514`), is lowered by a SELL of any coin, also one outside the pilot (`GW:517`), lets two entries past the gate that each fit alone, and loses one of two updates made at once | `GW:111-118`; `GW:512` "runs on the gateway/WS thread", while a kill runs on the HTTP thread |
| `SoldOnce` | Mirror, without `"lose_sell"` | the answer to a sale is lost, and the retry, clamped to a free balance that holds other legs' coins, sells again, theirs | `main:1286-1293` |
| `BookedOnce`, `SoldOnce` | Mirror, without `"crash"` | the process dies between the sale and `persist_`; `load` resurrects the holding, which is sold and booked again | `main:1538` |
| `SoldOnce` | Mirror, without `"write_fail"`, and settings with {refuse, write_fail, crash_idle} | `persist_` returns when the temporary file cannot be opened, and does not look at what `rename` says: after a restart the old file's holding is sold again | `main:1538` "Persist on any state change so a restart cannot resurrect a closed hold" |
| `NothingStranded` | MirrorResolves with this invariant, without `~setting.stops` | free base below the minimum is taken for dust of a closed position and the holding erased, but a resting stop has locked it | `main:1534-1536` |
| `NothingStranded` | Mirror, without `"lose_buy"` | a BUY whose answer is lost leaves coins that no holding names | `main:1219-1220` |
| `NothingStranded` | Mirror, without `"expire"`, and settings that have it alone | `main:1715` erases the holding for any sale that returns ok, also one that expired in part | `main:1219-1220` |
| `HoldsBacked` | Mirror, without `"fee"` | the fee of a BUY is taken in base, so the holding is larger than what arrived | `main:1290-1293` |
| `HoldsBacked` | Mirror, without the condition on stops, and settings with `"trigger"` | a stop that triggers sells what the mirror goes on recording | `main:1243-1245` |
| `SoldAtMostWhole`, `BoughtOnceThenSold` | Roster, without `count.kills = 0` | `kill_all` sells the whole size of a runner, of which half is gone, and sells a deferred entry that never bought | `EE:2959` |
| `SoldAtMostWhole`, `RunnerTrails` | Roster, without `(1 + count.boots)`, `count.boots = 0` | the runner flag is not in the snapshot, so after a restart the half that runs on flips again and is sold as a whole position, and its trail is gone | `EE:895-936` |
| `BoughtOnceThenSold`, `FloorHolds` | Roster, without the exceptions for `"rough"` | a crash before the next snapshot resumes a closed position, or buys an armed one again | `main:11811-11825` |
| `KilledStaysFlat` | Roster, without `count.boots = 0` | `halted_` is not persisted: a killed engine trades after the restart | `EE:808-814` |
| `EquityIsAllTrades`, `PeakKept` | Halts, without `~setting.race` | the HTTP resets take no lock; the block stores the peak it read before the reset, and a session reset can pair the old baseline with the new epoch | `main:2735-2761` |
| `PeakKept` | Halts, `Boot` without its change of `eased` | the replay wins only if its total is more than 1 bp off the file's; with the file missing or torn (read as zero) and a journal that nets to about zero, nothing is rebuilt and the peak stays zero, however high the account once was | `main:11198-11200` "reconstruct all-time cum + peak by replaying trade_log" |
| `EquityIsAllTrades` | Halts, without `~rebased` | `/api/session_reset?cum=` sets an equity of the operator's; a boot whose replay differs from it puts the journal's sum in its place, until the first pass counts from the baseline again | `main:2750-2751` "sets a deliberate warm baseline" |
| `KillHolds` | Halts, `Crash` with `owed' = owed` | the process dies between the kill's store and its save; after the boot the loss is already "below" and the kill does not trip again | `main:897-899` "protections survive process restarts" |
| `KillHolds` | Halts, `SaveWrites` with `saved' = saved` | `/api/daily_kill_clear` or `/api/ratchet_reset` has read a kill of 0 for its save when the block trips and saves one; the older save overwrites it, and the process dies | `main:897-899` |
| `KillHolds` | Halts, without the exception for `"torn"`, whose case trades `{-420, 200}` | the file is truncated and rewritten on every trade; a crash meanwhile leaves it empty, and the kill is forgotten | `main:897-903` |
| `EmergencyShuts` | Halts, without `seen` | between the alarm and the first pass of the per-engine block gates are still open | |
| `GateReopens` | Halts, without `Stuck` | a drawdown between the throttle's zero (500 bp) and the clamp (800 bp) with the ratchet unlocked: size is zero, no trade changes the equity, and neither decay nor clamp applies | `main:12384-12385` "Prevents permanent lockdown" |

A retry of the mirror whose balance query fails sells the recorded quantity (`main:1565`, "best
effort", `RetryAsk`), where the comment above the same function says "do NOT blind-sell (over-sell
risk)" (`main:1536-1537`). The model does what the code does; no property is violated by that alone,
since a sale of more than is free is refused, and with other legs' coins free it is the row of the
lost answer.

Of the five rows about ids, `LedgerLearns` concerns production as it runs; the other four need a
signal that carries an id, and production passes 0 and so skips the registry (section 2).

Noticed while reading, not reproduced by a run because the models leave the surroundings out:

- The blowoff guard (`main:11536`) writes the same flag of a slot engine as the portfolio gate, on
  every tick, so the gate does not bind slot engines (`EE:1346`); the daily kill and the emergency
  still stop their BUYs in the gateway (`main:3832-3841`).
- A per-symbol block or an emergency shuts the gate of a wired engine, and only that engine's own
  cooldown opens one again (`main:11415, 12261`).
- `/api/session_reset` unlocks the ratchet but keeps the peak, so the same pass may lock it again.
- The comments say the daily kill lasts 24 h (`main:12298`); `DAILY_HALT_MS` is two hours
  (`main:12048`). A second crossing while a kill runs does not extend it, and a restart with the
  loss still open starts "below" and does not trip (`main:12300-12313`).
- The emergency closes `g_all_wired`, the daily and aggregate kills close `g_slots`: neither closes
  both (`main:12233-12334`). A kill at price 0 halts an engine without closing (`EE:809`).
- The roster's entries are cut by allocator, pilot and cash, its exits are not; the engine ignores
  both answers (`main:10588-10594`).
- `submit` returns for an exit that `normalize` rejects (`GW:229`), against "Exits are never
  blocked"; `exposure_ok` is never set; an order that expires after a partial fill is reported
  REJECTED and its filled part is booked nowhere (`GW:561`).
- `format_qty` (`BinanceREST.hpp:855`) rounds where its comment says truncate.
- The allocator's aggregate momentum cap measures what is held in symbols with a declared momentum
  target (`SpotPortfolioAllocator.hpp:317-329`); the callers of `set_target` are under `#if 0` or
  behind `CHIMERA_WIRE_LEGACY`, so in HARDCAP it compares every order with nothing held. A PARTIAL
  report leaves the whole order in `pending_buy_value` next to the filled part in the position.
- The clock offset is measured once, at boot (`main:3605-3617`), and a failed probe counts as
  synchronised, in LIVE too.
- The stream halt never arms, because `set_listen_key` has no caller, and would be cleared by a
  reconcile of an empty snapshot (`main:12691-12700`). `StartupReconciler.hpp:80` finds no mismatch
  in a ledger position the snapshot lacks. `DrawdownGovernor` is only updated by tests.

## 7. What is not modelled

- *Prices and signals.* Which engine wants to trade is arithmetic on prices; the models let any
  order come at any time, which covers every engine.
- *Code that does not run.* MimicLadderCompanion, the campaign books, BtcRegimeMomentumBook, the
  cross-sectional sleeves, RipRider, the observation books and CORE-TRIGGER are constructed only
  inside `#if 0` (`main:3995-4033, 4035-4560, 5375-5898, 6038-6056, 10903-10935, 11271-11299`). A
  model of them would be of no program anyone runs.
- *Live halt latches.* `DrawdownGovernor::update_equity` and `try_resume` are called by tests only,
  and without a listen key the stream latch never arms; what remains, a halt that comes and goes, is
  an action of `SubmitGates`.
- *Portfolio allocator.* `govern_entry` cuts a BUY to the headroom it reads, on the one thread that
  buys: a comparison without a second actor; `plan` has no caller that runs. The covariance, beta
  and regime scales are floating-point arithmetic.
- *Formatting, signing, JSON, sockets, HTTP parsing, pages, logs.* Wording, not control; the
  transport enters by its outcomes. A write of the mirror's file fails as a whole; one cut short by
  a full disk, and a protection file that cannot be opened at all (`main:904-907`, which only
  prints), are not in the models.
- *Spelling.* `ProtectiveStops` assumes that all who trade one coin in one life of the process spell
  it alike. Where the mirror and the roster trade the same coin, the ledger has two positions of it
  and the gateway two records, each right for its half.
- *Doubles.* Quantities and money are integers in lot steps, grains and money units. Decimal
  precision, `max_qty`, tick rounding of stop prices are left out.
- *Average price, cumulative fees, counters for display*, in the ledger; *stop and trigger price*,
  in the stops; *alerts and daily summaries*, in the guards; *floors' levels and the event feed*, in
  the mirror; *streak, symbol and cluster loss blocks, regime classifier, conviction filter*, in the
  protections.
- *Wall-clock steps.* The rate windows use the system clock; the model's time only moves forward.
- *Data races on containers* (`ExchangeLedger`'s maps, `inflight_`): section 2.
- *Unused headers* (`include/spine`, `include/orders`, `core/BalancedEngine.hpp` and others):
  `main.cpp` does not include them.
- *Backtests, tools and data*: not part of the running system.

## 8. Plan

Done: the ledger with its abstract specification, the stops, the storm guards, order recovery,
the gates of `submit`, the mirror above its gateway, the roster's positions and the portfolio
protections; every safety invariant of a passing run is a theorem. What is left, by worth:

1. Refinements: a one-step "protected position" that `ProtectiveStops` implements when nothing
   fails; the roster's snapshot as a specification of its own ("what a restart resumes is what the
   engine believed at most 60 s ago") that `RosterLegs` implements; a gateway of one step that
   the `world` of `LiveMirror` agrees with.
2. Action properties with their theorems: a floor that is armed is only lowered by the end of its
   position, the peak only falls by decay, reset or clamp, an id goes from SENT to free only by a
   refusal.
3. The blocks the protections leave out: streak, symbol and cluster losses, with the gate of each
   engine composed from all of them, and the blowoff guard's writes to the same flag.
4. If the ladder or the allocator is wired again: `MimicLadder` (leg cap, floors that only rise,
   one clip per leg and bar, kill and re-arm across a restart) composed with `LiveMirror`, and
   `govern_entry` against the ledger.
