# Verification of the SK hynix ETF trading strategies

The repository trades Korean stocks and ETFs by itself. It holds an older gap-up
programme, and two strategies that switch between a leveraged and an inverse
ETF on SK hynix: *Enhanced* (`app/services/hynix_switch_engine.py`) and *MACD*
(`app/trading/macd_hynix_*.py`). This directory holds TLA+ models of the code
that places their orders and of the services those orders depend on, TLC runs of
the models, and TLAPS proofs about them.

What is at stake is money on an account that the program does not own alone:
the broker's replies get lost, orders fill late or in part, several threads
share one state file, and the process may be restarted between an order and the
record of it. The unit tests run one call at a time against a broker that
answers at once; the models are about everything else.

## 1. Inventory

### 1.1 Components, state, operations

| Component | State it keeps | Operations | What makes it correct |
|---|---|---|---|
| Order coordinator, `trading/exit_order_coordinator.py` | one process-wide `RLock`, `_order_records` (status per idempotency key), legacy exit lock and cooldown stamps | `coordinated_order` (enter, refuse a duplicate, run the body, mark, leave) | no oversell; one order per key; no record stuck in PENDING |
| Enhanced order bodies, `trading/hynix_switch_position_manager.py` | none of their own | `_execute_sell`, `_buy_new` inside the coordinator | cut a sale to the holding read under the lock; say FAILED only if nothing was sent |
| MACD order manager, `trading/macd_hynix_order_manager.py`, `macd_pipeline/order_executor.py` | the state file (position, processed signal ids, direction episode, done date, pending liquidation), the ledger, `_ORDER_PROCESS_LOCK` | `switch_to_direction`, `exit_position_full`, `force_liquidate_all`, `execute_buy`, `execute_sell_all`, `apply_macd_session_day_rollover` | never both ETFs; bounded orders per signal; flat after 15:00; the ledger tells the truth |
| MACD worker, `trading/macd_hynix_worker.py` | `_worker_thread`, `_stop_event`, `_watchdog_thread`; a copy of the state file per thread | `_worker_loop`, `run_once`, `_persist_heartbeat`, `start_auto_trade`, `stop_auto_trade`, `request_force_liquidate`, `recover_stalled_worker`, `bootstrap_macd_history` | one purchase per signal; a strategy that is on keeps ticking; Stop means stopped |
| MACD signal, `trading/macd_hynix_strategy.py` | `direction_state`, `direction_episode`, profit-lock tracker | `evaluate_macd_direction`, `signed_hist_two_turn_*`, `evaluate_position_exits` | one entry per direction until the other direction; exits in priority order |
| MACD market data, `trading/macd_pipeline/market_data.py` | quote cache, last good quotes with one stamp, updater thread, `_quote_stop` | `store_quotes`, `read_quote_cache`, updater loop, start and stop | a price called usable is fresh |
| Ledgers, `trading/macd_hynix_ledger.py`, `services/hynix_execution_ledger.py` | append-only rows | append, pair, daily figures | entries and exits pair up |
| Brokers and KIS client, `trading/kis_client.py`, `kis_*_broker.py`, `dry_run_broker.py` | token and its expiry in memory and in a file, `_token_lock`; `_daily_ordered_amount` | `buy`, `sell`, `get_position_quantity`, token renewal, limits, throttle | one renewal at a time; a query is answered after its renewal; the limits of a day |
| Emergency stop, `trading/emergency_stop.py`, `ui/real_emergency_controls.py` | a flag file, `_ORDER_LOCK`, `allow_liquidation` per thread | set, clear, `real_order_lock`, liquidate | no real order after a stop but the liquidation's |
| Enhanced engine, `services/hynix_switch_engine.py`, `hynix_switch_state.py`, `hynix_auto_trade_scheduler.py` | a state file under an in-process and a cross-process lock; a 3-minute scheduler and a fast worker with a wake event | cycle, fast tick, `with_state_lock`, `set_control`, `reset_mock_state`, `save_state_atomic` | no lost update; OFF stays OFF; not on beside MACD; an entry handed to the fast worker is looked at in time |
| Dynamic exit watcher, `trading/dynamic_exit_watcher.py` | exit reservations, a 1-second thread | watch, reserve, sell | one sale per exit |
| Enhanced decisions (fusion, big trend, cycle, regime, early trend) | rolling series | score, classify | numeric |
| Gap-up trading, `execution/*` with the page of market judgement | per browser session: watched positions, count of trades | exit check, buy all, sell all, manual orders, retries | what is watched is what the account comes to; one first half per position |
| Older gap-up parts, `trading/order_manager.py`, `portfolio.py`, `sell_manager.py`, `budget_allocator.py` | orders, budget slots | allocate, buy, sell | budget limits |
| Services, screening, models, collectors, storage, pages, scripts, tests | tables and files | | not control code |

### 1.2 How they interact

* Every order of both strategies goes through `coordinated_order`. Callers on
  different threads meet at its lock: fast worker, exit watcher, MACD worker,
  pages. Lock order in the MACD path: `_ORDER_PROCESS_LOCK`, then the
  coordinator's lock.
* The MACD worker, the pages and the watchdog share the MACD state file.
  `load_state` and `save_state` are atomic one by one, but nobody holds a lock
  from a load to the save that follows.
* A page's *Start* stops the old worker, creates a new one, saves the state,
  runs the bootstrap and then runs the first tick on its own thread.
* The page and the workers of Enhanced share one state file per account mode and one
  profile for both modes, whose `auto_trade_on` counts; a lock per process and a
  lock file across processes, with a page that saves without either.
* A cycle of Enhanced buys nothing itself: it notes a deferral and a request in the
  state file, and wakes the watcher thread, whose ticks buy, after it gave back the lock.
* Enhanced and MACD each look at the other's switch before they start; a mutex file
  repeats MACD's. The page looks only when the state it loaded at its top says OFF.
* Every broker object brings its own KIS client; the clients of one mode share the
  token file, and issuing a token makes the server reject the one before.
* Every real order passes the limits of its broker object and then
  `real_order_lock`, which reads the stop file before and after it takes the lock.
* The broker is asked and told over REST. A call may fail before or after it
  took effect, and the caller cannot tell.

### 1.3 What is hard here

Interleavings of threads at the coordinator and on the state file; loads that
are saved back late; joins that time out and leave a second worker; retries with
new keys after an unknown outcome; fills after the confirmation gave up; a crash
between an order and the save; "must eventually happen": the 15:00 liquidation
and the recovery of a dead worker; a lock that is given up, stolen or aged; a flag
that is read before the step it guards; stamps and sums kept in the wrong place
for what they bound. `PROJECT.json` lists each hazard at its
line with the properties about it, or says why there is none yet.

## 2. Modules

    OrderCoordinator ---- OrderCoordinator_proofs --+
    KisToken ------------ KisToken_proofs           |
    RealOrderGate ------- RealOrderGate_proofs      |  the models on the left side
    EnhancedState --+---- EnhancedState_proofs      +- are checked by MCServices
    FastWorker -----+                               |
    QuoteCache ---------- QuoteCache_proofs         |
    GapTrader ----------- GapTrader_proofs ---------+
    MacdOrder ----------- MacdOrder_proofs        MacdOrder => HynixBook (abstract)
    MacdRuntime --------- MacdRuntime_proofs      MCMacdRuntime

`MC*.tla` name model values, small instances and symmetry for TLC. `MacdOrder` has numbers
and Booleans for constants and needs no such module. `MCServices` puts seven
components that share no variable side by side: `subject` says at the start which
of them takes steps, and the others stay where they began. So one run checks each
of them by itself; nothing is claimed about their interleaving, since none of them
reads another's state.

### 2.1 OrderCoordinator

One symbol's orders, sent by `Threads` under idempotency keys `SellKeys` and
`BuyKeys`. A key fixes the request (`generate_order_idempotency_key`), so
`Want[k]` is the quantity of key `k`.

| Module | Code |
|---|---|
| `owner` | `_order_lock`; one thread at a time is between enter and leave |
| `rec[k]` | `_order_records[k]["status"]`, `"NEW"` when there is none |
| `pc[t]`, `key[t]`, `sent[t]` | where thread `t` is in the body, its key, the quantity it will send |
| `held` | shares at the broker |
| `acks[k]`, `faults[k]` | history: orders of key `k` the broker took; faults of key `k` so far |
| `Refused`, `Open` | entry of `coordinated_order`: a record outside `TERMINAL_RETRYABLE` refuses |
| `ReadFails`, `NothingToSell`, `ReadHeld` | `_execute_sell`: read the holding and cut the request |
| `SendFails`, `Taken`, `ReplyLost` and, after it, `Accepted`, `Confirmed`, `Unconfirmed` | the broker's answers and what the body marks |
| `BodyRaises`, `Leave` | the `except` and `finally` branches |

### 2.2 MacdOrder, and the abstract HynixBook

One tick of the worker and the orders it places, against a broker with
outages. Each attempt of each order is followed through its queries: peek, read,
send, confirm, verify. Nothing between two broker calls is merged: an order may fill, or the
process may crash, between any two of them.

| Module | Code |
|---|---|
| `held`, `buying`, `selling` | the account; what the broker took and has not filled |
| `disk`, `mem` | the state file; the copy that the tick loaded |
| `pc`, `job` | where `run_once` is; the current order's target, attempt, quantities |
| `blocked` | coordinator records that refuse their key |
| `phase`, `day`, `bar`, `flag` | the clock (open; late, exits only; 15:00 and after), the date, the completed bars and the direction the last one shows |
| `TickLiquidates`, `TickSwitches`, `TickExits`, `TickIdles` | the branches of `run_once` in their order; all begin with the day rollover |
| `Peek*`, `Verify*` | `execute_switch` and `switch_to_direction` before the buy |
| `Sell*` | `execute_sell_all` and the loops of its three callers |
| `Buy*` | `execute_buy` and the retry loop of `switch_to_direction` |
| `LedgerFails` | `_append_ledger` swallows the error: the row is missing |
| `Save` | `save_state` at the end of the tick |
| `Crash` | memory and coordinator records are gone, orders and the state file are not |
| `FillBuy`, `FillSell` | an order the broker took fills, by one share or more |

Prices are not in the model: a stop loss or a profit lock is a choice of
`TickExits`, the size of a purchase a choice from `Lots`. The signal keeps its
identity (direction and bar), on which deduplication depends.

`HynixBook` says what the strategy promises about the account and nothing of how:
flat or in one ETF, a change only by way of flat, a day shut only when flat,
nothing bought after that until the next day opens. `MacdOrder!ImplementsBook` maps the
account to it: `book` is the ETF held or on order, `shut` says that it is after
15:00 and today's liquidation is recorded as done. The run `order_prompt` checks it for one day,
and `MacdOrder_proofs!Refinement` proves it for any number of them.

### 2.3 MacdRuntime

The threads. `Workers` are the generations of the worker's thread, `Pages` the
sessions of the user interface. Each load of the state file, each save, each
join and each check of `_worker_thread` is a step of its own, because nothing
in the code holds them together. The order path is reduced to one signal and a
broker that answers: `peek` and `buy` under `_ORDER_PROCESS_LOCK`.

| Module | Code |
|---|---|
| `disk`, `copy[x]` | the state file and each thread's loaded copy |
| `current`, `target[x]`, `stopEvent` | `_worker_thread`, the thread `stop_worker` joins, `_stop_event` |
| `watching` | `_watchdog_thread` |
| `Loop(w)`: `Beat`, `BeatSave`, `TickLoad`, `Tick`, `Leave`, `ExitLoad`, `ExitSave` | `_worker_loop`: heartbeat, tick, end |
| `Tick(x)`: `TickIdles`, `TickOrders`, `Liquidate`, `PeekSkips`, `PeekGoesOn`, `Buy`, `TickSave` | `run_once`, on a worker or on a page |
| `Start*`, `Boot*`, `Resume*` | `start_auto_trade` with `bootstrap_macd_history`; the refusal of `can_start_macd` |
| `Stop*`, `Request*` | `stop_auto_trade`, `request_force_liquidate` |
| `Recover*` | `recover_stalled_worker` on the watchdog |
| `Crash` | the process ends; its threads are gone, the state file and the account stay |

### 2.4 KisToken

The access token of `kis_client.py`. Tokens are numbered in the order of their issue.

| Module | Code |
|---|---|
| `kisMem[c]`, `kisFile` | `_token` of client `c`; the token in the shared cache file |
| `kisAged` | tokens up to this one are within the five minutes before expiry |
| `kisLive`, `kisIssued`, `kisKills` | the token the server accepts; tokens issued; rejections of its own |
| `kisLock[c]`, `kisPc[t]`, `kisHdr[t]`, `kisTry[t]` | `_token_lock`; the thread's place, the token in its header, its first or second try |
| `Request`, `FastPath`, `FastReturn` | `get_access_token` without the lock: test and read are two steps |
| `TakeLock`, `UnderLock`, `Issue`, `IssueRefused`, `SaveFile` | under the lock: memory, file, `tokenP`, and the file truncated before it is written |
| `Answer`, `Invalidate` | `_request_with_token_retry`; an order (`_place_order`) is not sent again |
| `BrokerKills`, `TokenAges`, `NewClient` | the server, the clock, `create_kis_client` |

### 2.5 RealOrderGate

| Module | Code |
|---|---|
| `gateFlag` | the stop file exists |
| `gateLock[p]` | `_ORDER_LOCK` of process `p` |
| `gateSum[t]`, `gateBought` | `_daily_ordered_amount` of the thread's broker object; what the account bought |
| `gateAllow[t]`, `gateTodo[t]` | `emergency_liquidation_allowed`; positions still to be sold by the button |
| `Buy`, `Sell`, `WithinLimits`, `Sendable` | `KisRealBroker.buy` and `sell` up to the lock, `_check_order_limits`, `_auto_reduce_quantity` |
| `FirstCheck`, `SecondCheck`, `Send` | `real_order_lock` before and under the lock; the order, its loss or refusal, the sum |
| `Activate`, `Liquidate`, `ClearStop`, `NewBroker` | the page's buttons; `create_broker` |

### 2.6 EnhancedState

| Module | Code |
|---|---|
| `esOn`, `esModeOn[m]` | `auto_trade_on` of the shared profile and of the file of mode `m` |
| `esMacd`, `esMutex`, `esMacdPc`, `esCopies` | `auto_trade_on` of the MACD state; its mutex file; its start between check and save; what the copies say that MACD's threads have loaded |
| `esActive` | the active-mode pointer |
| `esRLock[p][m]`, `esFile[m]`, `esOld[m]` | the lock of mode `m` in process `p`; the lock file and its age |
| `esOp[t]`, `esMode[t]`, `esData[t]`, `esCopy[t]`, `esOwns[t]` | what the thread does, the mode it locks, the mode it loads, its copy, `acquired` |
| `esBlind[t]`, `esRaced[t]`, `esMacdLate`, `esIgnored` | history: a look that was not made or could not read; a switch turned after the look; the same of MACD's start; a lock file that was not respected |
| `ActiveRead`, `Loaded`, `DiskOff`, `MacdSeen` | `get_active_mode`, `load_state`, `_effective_disk_auto_trade_on`, `is_macd_strategy_on`, each with files that cannot be read |
| `TakeRLock`, `CreateLockFile`, `SeeOldLock`, `RemoveLockFile`, `GiveUpLockFile` | `with_state_lock`; the removal is by name, a step after the age was read |
| `Load`, `Guard`, `WriteProfile` or `ProfileFails`, `WriteFile` | `load_state`, then `save_state_atomic` in its order: guard, profile, file; a write that fails is not noticed |
| `Start(t, op)` | cycle, exit watcher, page rerun, `set_control` ON and OFF, `reset_mock_state` |
| `PageLooks`, `PageTakesMode`, `PageIdles`, `PageWrites` | the page's switch: its state of line 411, the look at MACD only if that was OFF (767-774), another mode taken while it was ON, `set_active_mode` |
| `MacdCheck`, `MacdStart`, `MacdStop` | `can_start_macd`, which also clears a mutex file it takes for a leftover; `start_auto_trade`, `stop_auto_trade` |
| `MacdLoad`, `MacdSave` | `load_state` and `save_state` of MACD's worker, loop and page, with no lock from one to the other: a copy of before *Stop* brings ON back, as in `MacdRuntime` |
| `SwitchMode`, `LockAges`, `StateCrash` | `set_active_mode`, time, the end of a process |

The guard of `save_state_atomic` refuses what it reads as `False`. If the profile cannot be
read it reads the file of the mode, which the other mode's switch does not touch; if neither
can, it reads `None`, which is not refused.

### 2.7 FastWorker

A section under the state lock is one step here; when the lock excludes is the subject of
`EnhancedState`.

| Module | Code |
|---|---|
| `fwOn`, `fwDay` | `auto_trade_on` without `stopped`; the window for entries and the operating window |
| `fwPending`, `fwForce`, `fwSnap`, `fwError` | in the state file: `pending_fast_worker_deferral` with its age, `force_fast_worker_tick`, a complete `last_fast_worker_decision_snapshot`, `last_fast_worker_snapshot_error` |
| `fwPc`, `fwWait`, `fwEvent` | where `HynixFastTrendWatcherThread.run` is, the wait it chose, `_wake_event` |
| `fwRun[r]` | where the cycle of thread `r` is: the scheduler's or the page's |
| `Look`, `WatcherTicks`, `ChooseWait`, `ClearWake`, `WakeUp` | one round of the watcher; state and event are each read or written by themselves |
| `TickCompletes`, `TickGivesUp` | `run_early_trend_fast_feed_tick`: it leaves a decision and settles deferral and request, or neither |
| `BeginCycle`, `SectionSkips`, `SectionEnds`, `SectionRaises` | a cycle and its section: stopped, run to its end (`Settled`), or failed, perhaps between its two saves |
| `Wake`, `CycleTicks` | what `update_hynix_auto_trade_loop` does after the section: `wake_fast_trend_watcher`, and a tick of its own after an error |
| `Toggle`, `NextPhase`, `DeadlinePasses` | the user, the clock, the 15 seconds of a deferral |

### 2.8 QuoteCache

Prices are ages. `qcQuote` and `qcStamp` are the last round and its stamp, `qcGood`
and `qcGoodStamp` the last good quotes and the single stamp they share.
`BeginRound`, `FetchOne`, `CutShort`, `RoundFails`, `StoreQuotes`, `WaitOver` are the
loop of `_quote_updater_loop`; `ColdRound` is the worker's own round in
`_refresh_quotes`; `StopUpdater`, `Joined`, `CreateUpdater` are the steps of
`stop_quote_updater` and `start_quote_updater`, with a join that may time out;
`Usable` and `PriceAge` are what `read_quote_cache` answers.

### 2.9 GapTrader

| Module | Code |
|---|---|
| `gtHeld`, `gtBuying`, `gtSelling` | the account: what it holds, what accepted orders are still to buy and to sell |
| `gtQty[k]`, `gtTp1[k]` | the positions that session `k` watches: quantity, `tp1_executed` |
| `gtSeen[k]` | the balance that `sync_from_broker` has read and not registered yet |
| `gtTrades[k]` | `trade_count` of its risk manager |
| `gtJob[k]`, `gtTodo[k]`, `gtOrder[k]`, `gtTry[k]` | the button's job, the symbols still to come, the order and its failed attempts |
| `gtBlur[k]`, `gtHalves[k]` | history: the watch of a symbol was put out of step; first halves sold in step |
| `ReadBalance`, `RegisterFound`, `CheckNext` | `run_exit_check`: the balance is read, what it showed is registered, then each position is judged |
| `StartJob`, `BuyNext`, `SellNext`, `ManualOrder` | `auto_buy_all`, `sell_all`, `buy_now`, `manual_sell` |
| `GapAccepted`, `GapFailed` | `_execute_with_retry` and what its callers do with the result |
| `Accept`, `Fills`, `Lapses` | the broker: a limit order is accepted, filled share by share later, or never |

`success` of an order means that the broker accepted a limit order. The callers register,
reduce or close the position at that moment; nothing tells them whether the order fills.
A position closed by a sale that lapses is found again by the next sync, as a new one whose
first half is not sold yet. What a price decides (keep, half, all) is a choice; sizes of
purchases are one share, and what the account held before is any number.

## 3. Runs

All bounds are constants or are named in the guards (`MaxFaults`, `MaxBar`,
`MaxDay`, `MaxPresses`).

| Run | Properties | Bounds and why they are enough |
|---|---|---|
| `coordinator`: the coordinator | `TypeOK`, `NoOversell`, `TakenOncePerKey`, `PendingIsOwned` | 3 threads, two sells that together ask for more than is held (3 + 2 of 3) and one buy; one fault per key. Two threads already compete, the third waits while they do |
| `coordinator`: the token | `KisTypeOK`, `RejectedTwiceOnlyIfRaced`, `RenewedOnlyWhenStale` | two threads of one client and one of another: a race inside a client, and one by way of the file; 2 tokens issued, one rejected by the server on its own |
| `coordinator`: the gate | `GateTypeOK`, `StopBarsOrders` | two threads of one process and one of another; one position to liquidate; limits of one unit, so that a second purchase of an object is over its day |
| `coordinator`: the state files | `SectionsExclude`, `OffRestoredOnlyIfMissed`, `BothOnOnlyIfMissed` | exit watcher and page in one process, the cycle in another. Five subjects. Without MACD: `state` (one mode, every operation but the page's rerun, and locks that age), `modes` (both modes and their switch, watcher and OFF), `rerun` (both modes, watcher and the page's rerun). With MACD and files of the modes that change: `both` (one mode, watcher and the page's buttons, MACD's stale saves), `taken` (both modes, a page that takes another mode or switches off). All of it at once is beyond TLC; the proofs of section 4 are about all of it |
| `coordinator`: the fast worker | `WakeLostOnlyIfRaced`, `AnswerSettlesDeferral`, `HurryEndsWithTick` | the watcher and two threads that run cycles, so that a cycle's wake meets a section of the other; nothing else is bounded |
| `coordinator`: the quotes | `QuoteTypeOK`, `OldOnlyAfterFailure` | one symbol, two updaters (one that outlives its stop) and the worker's cold round; ages up to the first that is too old |
| `coordinator`: the gap-up page | `GapTypeOK`, `WatchedIsExpected`, `HalfSoldOnce` | two sessions, one symbol, 3 shares (a half, then a half of the rest), orders that fill or lapse share by share, one retry where the code has two |
| `order_prompt` | `NeverBothHeld`, `OrdersPerSignalBounded`, `ImplementsBook` | 2 attempts (a first and a retry), one lot, 2 bars with a direction (a switch, or the same direction again), one lost reply, failed row or crash, outages at any query, one day with its liquidation |
| `order_late` | `TypeOK`, `LedgerNeverOverstates`, `OrdersPerSignalBounded` | orders of two shares, so that a fill may be partial, filled at any later moment; manual liquidations. One attempt per call: ticks retry anyway |
| `order_days` | `NoReentryAfterExit` | two days, so that a position, a stopped direction and a done date are carried over; three bars a day and one crash, the least for an ETF bought, left for the other one, still in the state file, sold as if held, and signalled again; no outages |
| `order_dayend` | `DayEndsFlat` | the code's 3 attempts, two faults or crashes |
| `runtime` | `TypeOK`, `HeldOnce`, `TicksGoOn` | two workers (one left over from before and one new), one page, the watchdog, two buttons, any number of crashes |
| `order_duplicate`, `order_untracked`, `order_manual`, `runtime_stop`, `gate_daily`, `quote_stale` | one each, violated | section 5. `gate_daily`: two threads of a process. `quote_stale`: two symbols, one updater |

What the properties say:

* `NoOversell`: reading the holding and selling it is one step for every caller.
* `TakenOncePerKey`: the broker takes a second order under one key only after a
  fault of that key (a lost reply, or a body that raised after it sent).
* `PendingIsOwned`: no path leaves a key that can never be used again.
* `NeverBothHeld`: while one ETF is held or on order the other is neither. It
  needs prompt fills: with `LateFills` an order that the confirmation gave up
  on may fill after the opposite ETF was bought, and the code cannot know.
* `OrdersPerSignalBounded`: attempts per call times calls per tick do not
  multiply. Coordinator records stop the next tick; a crash forgets them.
* `LedgerNeverOverstates`: shares in the ledger are at most shares traded, even
  when a fill of an earlier order is counted by a later confirmation.
* `NoReentryAfterExit`: after a price exit of one direction the next purchase is
  of the other for the rest of the day (the rollover forgets the direction), over retries,
  crashes, liquidations and positions carried over from the day before.
  `stopped` remembers the ETF that the last price exit sold; an exit of a position that only
  the state file shows sells nothing and closes nothing. Like `NeverBothHeld` it needs
  prompt fills: the second share of a late order may fill for a direction that is no
  longer the last one, the exit that sells it then closes the other, and the sold ETF may be
  bought again at the next bar.
* `DayEndsFlat`: if the broker stops failing sells for good, then after 15:00 the
  account becomes flat, the day recorded, the position cleared. Its premise
  names only failures of the broker (`BrokerFails`); a key that blocks a sale, a
  fault of the ledger, a crash or an untracked holding is not an excuse.
* `HeldOnce`: two ticks at once buy a signal's ETF once.
* `TicksGoOn`: exceptions, a crashed loop, joins that timed out and a stop event
  left set do not stop a strategy that is on, once nobody presses buttons and
  while the process that started it lives.

* `RejectedTwiceOnlyIfRaced`: a query rejected for its token is sent once more; it
  is rejected again only if another thread or the server changed a token in
  between. The invalidation deletes the file whatever token it holds, so a thread
  may throw away the token another has just renewed; the property says that this is the only way.
* `RenewedOnlyWhenStale`: the second look under the lock keeps threads of one client
  from renewing a token that another has just renewed.
* `StopBarsOrders`: once the stop is set, a process sends at most one more order
  beside the liquidation, that of the thread that holds the order lock.
* `SectionsExclude`: two threads work on one mode's state at a time only for the
  reasons it names: a page's save without a lock, a watcher whose mode was switched between
  its two reads, a lock file that was not respected across processes.
* `OffRestoredOnlyIfMissed`: a stale copy switches the strategy on again only if OFF
  falls between the guard and the write of its save, which are not one step, or if the guard could
  not read the profile. Both do happen; that nothing else does is what the property says.
* `BothOnOnlyIfMissed`: a step leaves both strategies on only if it is a write of ON by a
  thread that missed what should have stopped it, a start of MACD that missed Enhanced, or the save of an old
  copy of MACD's state. A page that shows ON and takes another mode, and a reset of the mock state, do not
  look at MACD at all. So the exclusion rests on files that can be read, on checks that do not cross and on
  nobody saving late.
* `WakeLostOnlyIfRaced`: the watcher sleeps on a request only if the wake fell between
  the choice of the wait and the clearing of the event, a cycle failed before its wake, or the
  wake is still to come.
* `AnswerSettlesDeferral`: a deferral and a complete decision stand in the file together only
  after a cycle that failed between its saves. So the branch for a decision that comes after its deadline
  (`FAST_WORKER_SNAPSHOT_STALE`) is all but dead.
* `HurryEndsWithTick`: one completed tick ends the rounds without a wait.
* `OldOnlyAfterFailure`: what `read_quote_cache` calls usable is too old only for a slot
  that failed in, or was cut from, the last round, or when no round was stored of late.
* `WatchedIsExpected`: the watch of a session is what the account comes to once its working orders
  are filled, through halves, parts and retries. A lost reply, another session, a purchase on top of a holding, a
  balance read while orders of the symbol worked, and an order that lapses put it out of step, and no sync
  corrects what is watched. Each of these exceptions is needed: without it TLC finds the watch wrong.
* `HalfSoldOnce`: the first take-profit sells one half, over refusals and retries.

`KisTypeOK`, `GateTypeOK` and `GapTypeOK` bound more than types: tries of a query,
the sum of a broker object by the daily limit, retries of an order.

### Fairness

`MacdOrder!FairSpec`: weak fairness of the worker (a thread that ticks every five
seconds and whose calls return), of the clock, and of fills. New signals,
requests, crashes and outages are not fair: they need not happen.
`MacdRuntime!FairSpec`: weak fairness of each worker's loop, of each
handler that a page has begun and of the watchdog's loop; each is a thread that
runs until its function returns. No button need be pressed. A join that times
out is a choice, not a fairness assumption.

`CHECK_DEADLOCK FALSE` stands in the two configurations of `MacdRuntime`:
before the first *Start*, or after *Stop*, with no more buttons, the strategy really is at rest; and in
`MCServices` and `MCQuoteCache`, where the bounds (faults, tokens, updater threads) end every behaviour.

## 4. Proofs

TLAPS proves the following for every value of the constants that the named
assumptions of the modules allow (`ThreadsAssumption`, `AttemptsAssumption`,
`LotsAssumption`, ...).

| Theorem | Statement | Argument |
|---|---|---|
| `OrderCoordinator_proofs!TypeCorrect`, `Oversell`, `TakenOnce`, `PendingOwned` | the four invariants of the run | one inductive invariant `IInv`. `LockInv`: a thread is inside exactly when it owns the lock, and its record is PENDING then. `SellInv`: a sale about to be sent is at most what is held, true since no other thread can sell in between. `TakenInv`: a key that may be opened again, or whose order is still to be sent, was taken at most as often as it had faults |
| `MacdOrder_proofs!TypeCorrect` | `TypeOK` | `TypeInv` adds which job runs at which step, that a switch carries a signal, and that working sales are covered by shares (else `held` could leave `Nat`) |
| `MacdOrder_proofs!LedgerTruthful` | `LedgerNeverOverstates`, with late fills | `LedgerInv`: during a sale, the balance read before is at most what is left plus the sales not yet booked; during a purchase, the balance gained since is at most the purchases not yet booked. So booking the difference never exceeds what was traded |
| `MacdOrder_proofs!Exclusion` | `NeverBothHeld` if `LateFills = FALSE` | `ExclusionInv`: no order is working, and between the check of the opposite ETF and the order of the target the opposite one stays flat, because only the worker trades |
| `MacdOrder_proofs!OrdersBounded` | `OrdersPerSignalBounded`, with late fills | `CountInv`: every order of a signal either left a record under its key that still refuses it, or is one of the faults, or came before a crash. A signal has `MaxAttempts` times `Cardinality(Lots)` keys (`Tries`), and an attempt under way has a key without a record |
| `MacdOrder_proofs!NoReentry` | `NoReentryAfterExit` if `LateFills = FALSE` | `LastInv`: the direction an exit closed is the last direction, in the state file and in the copy of a tick, so a new signal is of the other one. It needs `PhantomInv`: a position of an ETF that is not the last direction stands only in the state file, and nothing of it is held, so its exit sells nothing |
| `MacdOrder_proofs!Refinement` | `ImplementsBook` if `LateFills = FALSE` and every liquidation is one of 15:00 (`LiquidatesAtClose`: none is asked for before, and none that failed is left over for the next day), for any number of days | `Init` maps to the book's, and each step to a purchase, a sale, a shutting, an opening or a stutter (`PurchaseRefines`, `SaleRefines`, `SaveRefines`). `DayInv`: the day is recorded as done only when nothing is held, and after 15:00 only a liquidation runs. Without `LiquidatesAtClose` it is false (section 5, 3) |
| `MacdOrder_proofs!DuplicatesAreUnknown` | `NoAddWhileHeld` if `LateFills = FALSE` and no step is a `PurchaseUnknown` (a lost reply or an unanswered confirmation) | `FreshInv`: a switch that is still to buy, or whose order failed, holds nothing of its target; refusals and failed queries keep it so |
| `MacdOrder_proofs!UntrackedIsForgotten` | `HeldIsTracked` if `LateFills = FALSE` and no step is a `PurchaseForgotten` (a `PurchaseUnknown`, a ledger row that fails, a crash) | `ShownInv`: between ticks the state file shows what is held, and during a tick its copy does, but for a purchase that is about to be confirmed. `OtherInv`: a switch sells the ETF that is not its target, so what it clears from the copy is what it sold |
| `MacdRuntime_proofs!TypeCorrect`, `BoughtOnce` | `TypeOK`, `HeldOnce` for any set of workers and pages | `OrderInv`: the thread between query and order owns the order lock, there is at most one, and nothing is held when it is about to buy |
| `KisToken_proofs!KisTyped`, `RenewsStale`, `RejectedTwiceRaced` | the three invariants of the token, for any threads and clients | `LockInv`: a thread past the lock holds it (`Holders`), so nobody renews the token it is about to renew, and a thread whose token was rejected is on its first try. `SecondTry`: a second try with which nobody raced finds memory and file empty, so it takes a new token, and the header it then sends holds the live one |
| `RealOrderGate_proofs!GateTyped`, `StopBars` | `GateTypeOK`, `StopBarsOrders` | `SumFits`: a purchase on its way fits what is left of its object's day. `StopInv`: who sends holds the order lock (`SenderHolds`), and once an order went out late, nobody of that process but the liquidation is about to send (`NoneFollows`), since the second look is under the lock |
| `RealOrderGate_proofs!LimitOfOneObject` | `DailyLimitHolds` if every purchase passes one broker object, which is not made anew, and every purchase taken is answered (`OneObject`) | `InSum`: what was bought is at most the object's sum, which `SumFits` keeps within the limit, and no other thread has a purchase on its way |
| `EnhancedState_proofs!StateTyped`, `BothOn`, `OffRestored` | types, `BothOnOnlyIfMissed`, `OffRestoredOnlyIfMissed`, with every operation, file that cannot be read and stale save at once | `SwitchInv`: a copy past the guard that says ON while the strategy is off is an explicit start's, or its thread missed the OFF (`CopyGuarded`); a start under way while MACD is on missed that (`StartLooked`), and so did a checked start of MACD while Enhanced is on (`MacdLooked`) |
| `EnhancedState_proofs!SectionsApart` | `SectionsExclude` for any threads, processes and modes | `LocksInv`: a thread past the process lock is its holder (`ProcessLock`); as long as every lock file was respected, the thread that works created the one there is (`LockFile`) |
| `EnhancedState_proofs!FastTyped`, `AnswerSettles`, `WakeLost`, `HurryEnds` | `FastTypeOK`, and the three invariants of `FastWorker` for any number of threads that run cycles | `AnswerSettlesDeferral` is inductive. `WatcherInv` says of the other two what holds from the choice of the wait on: a request that was not seen then has an excuse, and a tick that was completed left no request; a step that is not the watcher's keeps it because a new request comes with a wake to come (`RequestKept`) |
| `QuoteCache_proofs!QuoteTyped`, `OldAfterFailure` | `QuoteTypeOK`, `OldOnlyAfterFailure` for any slots and updaters | a price of a round under way is no older than the round (`GotInRound`), and one in the cache no older than the stamp and a round (`StampedInRound`) |
| `GapTrader_proofs!GapTyped`, `WatchedExpected`, `SoldOnce` | the three invariants for any symbols, sessions and limits, with orders that fill late or never | `GapInv`: besides the two properties, the account sells no more than it holds (`Covered`), a balance about to be registered is what the account comes to unless the session is out of step (`SeenIsExpected`), an order of the first half is one of a position whose half is not sold (`OrderIsFirst`), a half sold is on record (`HalfOnRecord`), and a symbol not watched carries no history (`NoneUnwatched`) |

Each step lemma has one case per action. `TypeOK` alone is not inductive in
`MacdOrder`, and but for `AnswerSettlesDeferral` none of the safety properties is inductive anywhere.

The longer invariants of `MacdOrder` (`CountInv`, `PhantomInv`, `LastInv`, `DayInv`, `FreshInv`,
`ShownInv`, `OtherInv`) were model-checked on small constants before they were proved, those with a
condition on the steps with that condition on `Next`.

Three theorems are about properties that a run finds violated (section 5). Each names the steps
without which the property holds, so what the run shows is the only way, not one of many.
Their conditions are on steps (`[][~ PurchaseUnknown]_vars`), not on states, and leave in all
other failures.

`LotsAssumption` says that `Lots` is a finite set, without which a count of keys means nothing.

Only model-checked: the liveness properties, `DayEndsFlat` and `TicksGoOn`, since
liveness under fairness and `ENABLED` are outside what TLAPS supports here. Every other property
of a passing run is a theorem. Out of the prover's reach in general: what a recursive definition
computes for every input, and modules that use RECURSIVE operators; none is used here.

## 5. Where the code and its documents disagree

1. **Duplicate purchase after an unanswered confirmation**
   (`order_duplicate`, `NoAddWhileHeld`). `switch_to_direction` retries a purchase
   whose fill could not be confirmed; the attempt's number is part of the key
   and `execute_buy` does not look at the ETF's own balance, so the order is sent
   again. The checklist: "Same flag held → 0 duplicate orders". `DuplicatesAreUnknown`: nothing
   but a lost reply or an unanswered confirmation of a purchase leads here.
2. **A holding without a position** (`order_untracked`, `HeldIsTracked`). If no
   attempt was confirmed, the next tick finds the target on the account, consumes
   the signal as "already holding target" and records no position. No stop loss
   and no profit lock look at it; 15:00 sells it. The other way round, the same branch
   (lines 1658-1665) leaves a position of the opposite ETF that a crash brought back, and a price exit of
   that finds nothing to sell (`SellFindsNothing`). `UntrackedIsForgotten`: beside such a
   purchase only a ledger row that fails or a crash leaves a holding untracked.
3. **A manual liquidation cancels the one of 15:00** (`order_manual`,
   `DayEndsFlat`). Both record the same done date; what a later signal bought is
   still held after 15:00. It needs no button, as the proof of `Refinement` for several days
   brought out: a liquidation of 15:00 that fails until the session ends leaves its request in the
   state file, the rollover keeps it with the position (`macd_hynix_order_manager.py:2184`), the
   first tick of the next day carries it out and records that day as done.
4. **Stop is overwritten** (`runtime_stop`, `StopHolds`). A tick or a leaving
   worker writes the copy it loaded before *Stop* back to the state file; *Stop* has
   answered ok and the strategy is on again, to be restarted by the watchdog.

5. **The daily limit is one per broker object** (`gate_daily`, `DailyLimitHolds`).
   `_daily_ordered_amount` begins at nought in every object and leaves out orders
   whose reply was lost. `config.yaml` calls it the largest amount ordered in a day.
   `LimitOfOneObject`: through one object, with every reply, the limit holds.
6. **An old price with a fresh stamp** (`quote_stale`, `UsableIsFresh`). All last good
   quotes share one stamp, which any stored round renews. A symbol whose quotes fail
   keeps its last price, "ok" and with the age of the stamp, for as long as another symbol
   is quoted; the worker's age gate for orders looks at that age.

Seen while modelling `FastWorker`, without a run of their own, since no document promises the
contrary in so many words: a decision of the fast worker settles a later deferral at once, though it
may be yesterday's (`hynix_switch_engine.py:6930`); a cycle that defers again renews the 15 seconds, so a
deferral renewed each time is never overdue for a cycle; the error record is never removed, so from
the first one on every cycle that wakes the watcher also ticks itself; while the strategy is off, the window
is over or quotes fail, an open request makes the watcher go round without a pause; and the watcher's full tick is
never run, since its condition asks for a strategy that is off, at which the method has returned.

## 6. Order of work, and what could follow

The modules were written in the order of what they protect: the coordinator, the
MACD order path with its abstract book, its threads, then the services around them.
What could follow, most useful first: the pairing of
entries and exits in the ledgers; the minute bars' store (`runtime_store.py`); the budget slots of the older pages.

## 7. Not modelled

* Numbers: prices, returns, sizes, scores, statistical models. Where a decision
  depends on them the model allows every outcome.
* The fields that only the page shows, log lines and messages.
* The broker's side beyond the outcomes of a call: rejections for lack of cash
  are refusals, trading halts are outages.
* Writes of the state file that tear: `save_state` replaces the file.
* More than 50 processed signal ids (`[-50:]`): a day has fewer signals in the model.
* Pattern of the histogram, stop loss, profit lock: real-valued series and
  thresholds. `MacdOrder` allows a signal or an exit at any bar.
* In `OrderCoordinator` an accepted sale leaves the holding at once. The code sends limit orders there too and
  marks one FILLED once the balance could be read again, whatever that shows; with a sale that rests at the broker, the next reader still sees
  its shares, and then only the broker's refusal keeps the account from selling them again. So
  `NoOversell` is about what the lock does for orders that fill when they are accepted.
* Of `KisToken`: the throttle per endpoint; two modes (they share nothing). Of `RealOrderGate`: the checks of
  configuration and hours before the limits, which only refuse. Of `EnhancedState`: the content of the state.
* Of `FastWorker`: what a tick or a cycle decides and orders; the flag `_wake_fast_worker_after_cycle`, which
  repeats a wake; the page's saves without the state lock (they are in `EnhancedState`).
* Of the gap-up programme: `run_once` and the approval queue, which no page or script
  calls; the loss limits; the older pages.
* Decision engines, screening, models, collectors, storage, pages that only draw, scripts and
  backtests: numeric or input and output, without control that several actors share. They are
  most of the repository's lines.
* In `MacdOrder`, threads other than the worker; in `MacdRuntime`, faults of the
  broker. Each module is the other's environment at its simplest.
