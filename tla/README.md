# TLA+ models of the bot

freqtrade is a trading bot: a main thread runs an endless loop that manages
orders on an exchange, and RPC threads (Telegram, REST) send it commands. What
makes it hard to get right is not a formula but order: an order fills while it
is being cancelled, a command arrives in the middle of an iteration, the process
dies between the exchange's answer and the commit, a websocket's task ends while
the main thread counts on it. These modules model those parts, check them with
TLC and prove what holds for every instance with TLAPS.

    tlc -workers 2 -config Worker.cfg Worker       # a run
    tlapm ThreadsProofs.tla                        # the proofs of a module

`PROJECT.json` lists the runs with their properties, the lines of code every
definition stands for, a mutation of the code that breaks each property, the
hazards and the theorems.

## 1. Inventory

| component | code | state | operations | modelled in |
|---|---|---|---|---|
| worker, life cycle | `worker.py`, `freqtradebot.py` (`__init__`, `startup`, `cleanup`) | `FreqtradeBot.state`, the instance, the previous state | `run`, `_worker`, `_throttle`, `_reconfigure`, `exit` | `Worker` |
| RPC core | `rpc/rpc.py` | none of its own | commands on state, trades, locks, blacklist; answers to a consumer | `Worker`, `EntrySlots`, `TradeOrders`, `PairLocks`, `PairLists`, `ProducerConsumer` |
| opening trades | `freqtradebot.py` (`process`, `enter_positions`, `create_trade`), `rpc/rpc.py` (`_rpc_force_entry`) | open rows of the trades table, `_exit_lock` | enter, force entry | `EntrySlots`, `Slots` |
| order handling | `freqtradebot.py` | orders at the exchange, order rows, `is_open`, `amount`, commit points | manage, cancel, replace, exit, stoploss on exchange, adjust, recover, force exit, cancel, delete, reload, restart | `TradeOrders` |
| trade and order rows | `persistence/trade_model.py` | rows, amount, prices, profit | `update_order`, `update_trade`, `close`, `recalc_trade_from_orders`, `delete` | `TradeOrders` (amounts), `StopLoss` (average price) |
| stoploss price | `trade_model.py`, `strategy/interface.py`, `optimize/backtesting.py` | `stop_loss`, `initial_stop_loss` | `adjust_stop_loss`, `ft_stoploss_adjust`, `ft_stoploss_reached`, restart | `StopLoss` |
| pair locks, protections | `persistence/pairlock*.py`, `plugins/protectionmanager.py`, `plugins/protections/` | locks in the database or in a list | lock, unlock, query, protect | `PairLocks` (database), `Backtest` (list) |
| pair lists | `plugins/pairlistmanager.py`, `plugins/pairlist/` | whitelist, blacklist, caches of the handlers | refresh, filter, `/blacklist` | `PairLists` |
| candles | `exchange/exchange_ws.py`, `exchange/exchange.py` (candle cache) | watched and scheduled pairs, candles | schedule, watch, expire, refresh | `CandleStream` |
| exchange adapter | `exchange/exchange.py`, `exchange/common.py` | caches, the exchange's own orders | create, fetch, cancel | `TradeOrders` (answers) |
| producer/consumer | `rpc/external_message_consumer.py`, `rpc/api_server/`, `data/dataprovider.py` | message streams, external frames | publish, request, answer, merge | `ProducerConsumer` |
| backtesting | `optimize/backtesting.py` | simulated trades, slots, order ids | candle loop | `Backtest`, `StopLoss` |
| FreqAI | `freqai/` | training queue, models in memory and on disk, drawer | train, save, purge, load, restart | `FreqAI` |
| wallets, stake | `wallets.py` | free, used, total per currency | `update`, `get_trade_stake_amount` | what an exit is compared with, in `TradeOrders` |
| the rest | front ends, exchange subclasses, hyperopt, data, configuration, migrations, leverage, plotting, REST client, fork scripts | | | section 7 |

**How they interact.** The main thread and the RPC threads share the
`FreqtradeBot` object, the database and `_exit_lock`. `state` is read and
written without a lock. The main thread takes `_exit_lock` four times per
iteration (`manage_open_orders`, `exit_positions`,
`process_open_trade_positions`, and once per pair in `enter_positions`) and
gives it up in between; the commands that place or cancel orders take it around
their work, but not always around the reads that precede it. Database sessions
are per thread (per request for REST), a command starts with a rollback, and
rows are shared through commits. The exchange runs on its own. Three more
threads share Python objects with the main thread without a lock: the event
loop of the websocket (sets of pairs, collected candles), the training thread of
FreqAI (dictionaries of the drawer), the API server (message stream, blacklist).

**What is correct behaviour.** A started bot never iterates uninitialised,
notices stop and reload; the number of open trades respects the limit; a trade's
amount is what its finished orders traded; no order is open at the exchange that
the bot does not watch; a trade is deleted only when empty and closed only when
sold; a sold trade is closed; a position has a stoploss when configured; a
stoploss moves one way and sells where the market was; a crash loses no row
of a finished order; a locked pair is not entered; nothing is traded that is
blacklisted or that no pairlist names; the strategy sees every finished candle
and no open one; a consumer catches up with its producer; a restart finds the
models it left.

## 2. The modules

### Worker

`state` is `FreqtradeBot.state`, `old` the local of `Worker.run`, `seen` the
local of `_worker`, `wpc` the main thread's place: `top` (head of `_worker`),
`startup`, `dispatch` (about to call `process` through `_throttle`), `process`,
`stopped`, `cleanup` and `create` (`_reconfigure`), `init` (in `__init__`, RPC
already up), `exited`. `rpcUp` says that the RPC modules of the current instance
serve commands, `cpc` where a thread is in `_rpc_pause`. A step of the main
thread lies between two accesses to `state`. `started` and `late` are history.

`/start` and `/stop` test before they assign: when the test is stale by the time
of the assignment, the assignment changes nothing, so one step does for both.
`/pause` tests and assigns twice; its accesses are steps of their own.
Telegram and REST handlers still running while `cleanup` takes RPC down can only
reach the old object and are dropped.

`InitialState` is the configured state; `None` in the code means STOPPED.
Definitions that a module shares with another one of the same proof module carry
its name: `WorkerSpec`, `WorkerNext`, `WorkerTypeOK` here, `StreamSpec` and so on
in `CandleStream`.

### Slots, EntrySlots

`Slots` is what `max_open_trades` promises: trades are taken and given back one
at a time, and taken only while there are fewer than the limit. `EntrySlots` and
`Backtest`, which count in very different ways, implement it.

`EntrySlots` has several trades, each only a row. `open` are the open rows;
`lock` is `_exit_lock`; `mpc`, `todo`, `cur` follow `process` into
`enter_positions`; `cpc`, `req`, `snap` follow `_rpc_force_entry`, whose local
`trade` (`snap`) is read before the lock is taken. Signals, pair locks, stake,
`confirm_trade_entry` and exchange errors are reasons why an attempt is skipped
(`MainSkip`, `FeFail`). The three sections of `process` before the entries are
one critical section in which trades may end: that the lock is given up between
them changes nothing for the free slots, which are looked at afterwards. Force
exit, cancel and delete end a trade under the lock, reloading a trade without. A
force entry that adds to a trade which was closed since it was looked up writes
`is_open = True` on an object whose attribute is `True` already: its session has
it as open, so nothing is written. `KeepsSlots` maps `held` to the open trades
and `Limit` to `max_open_trades` plus the number of RPC threads.

### TradeOrders

One spot trade of one pair, its order rows and the orders at the exchange.

| variable | code |
|---|---|
| `xo` | the orders as the exchange has them |
| `db`, `stored` | the session's rows and trade, and what of it is committed |
| `pc`, `holder` | section of `process`, holder of `_exit_lock` |
| `todo`, `live` | loop variables of `manage_open_orders`, `startup_update_open_orders`, `handle_stoploss_on_exchange`, `_rpc_cancel_open_order` |
| `cancels`, `job`, `sent`, `refind` | how far a handler is: orders it cancels first, the order it will place, the order created and not yet recorded, orders `handle_insufficient_funds` fetches |

A handler such as `execute_trade_exit` makes several requests, and the exchange
moves in between, so it is several steps: `CancelStop` for each stoploss order,
`JobReady` or `JobRefused` (`_safe_exit_amount`, `handle_similar_open_order`),
`CancelOrder` for each open order, `Place` / `PlaceUncovered` / `PlaceFails`, and
`RecordEntry` / `RecordExit` / `RecordStop`. Nothing else can run in the bot
meanwhile: the thread holds the lock (`Quiet` in the guards of the sections).
The same steps serve exits by signal, by command, by emergency, by replacement
and by position adjustment; `job.kind` says which, and decides what follows
(`replace_order_failed` for `reentry` and `reexit`, an emergency exit after too
many canceled exits). When the exchange refuses an order for want of coins,
`Refind` fetches the open orders one by one, `RefindError` catches what goes wrong
with the stoploss orders of a fill found that way, and `RefindDone` ends the
handler.

`update_trade_state` (`Apply`) commits twice: the row of the order
(`Order.update_orders`, `trade_model.py:336`), then, after `handle_order_fee` and
`update_trade`, the trade. Nobody else sees the state in between, since the
thread holds the lock, and the exchange's steps commute with the computation; so
`Apply` is one step, and dying in between is an action of its own,
`CrashInUpdate`: it leaves the row as the exchange has it, in `stored`, beside the
old trade. It has a disjunct for each caller: an order that is fetched, one that
is cancelled, one that was just sent, and one that is given up at startup.
`CrashInRecovery` is the same for `handle_onexchange_order`, which commits order
by order. A row of which nothing came (`CanceledEmpty`) is committed too, and the
trade left alone. `Dies` is what all crashes have in common.

`AssignFees` is `update_trades_without_assigned_fees` for open trades: at the head
of an iteration the last finished entry is fetched and the trade updated from it
again. Whether fees are known is not part of the model, so it may happen at any
such point; it has to (`FeesDue`) before the iteration goes on when no entry got
beyond its row, which is what repairs an entry whose update a crash cut short.
The exchange is assumed to name a fee then; the fees of closed trades are left
out.

`Recover` and `RecoverFails` are `handle_onexchange_order`, which `exit_positions`
calls when the wallet holds less than the trade claims (`CoinsMissing`): the
exchange's list of orders (`Listed`) becomes rows, the trade is updated from
each, a stoploss order found that way is taken for an exit, and a trade whose
orders are all unfilled goes. `RpcReload` is the same handler called by
`/reload_trade`, without `_exit_lock`.

`Answers` switches what the exchange may do besides what it is told:

- `raced`: the order fills completely before the cancellation reaches it
  (partial fills are always possible);
- `slow`: the cancellation's result still says open;
- `forgotten`: a canceled order cannot be fetched any more and the adapter makes
  up a result with nothing filled;
- `unknown`: an order is not found at startup;
- `expired`: a new order comes back expired, partly filled or not at all;
- `error`: requests fail;
- `lost`: the answer to a create request is lost, the order lives on.

Left out: prices, profit and fees (an order that pays fees in the base currency
yields a little less than `filled`), the 2% tolerances on wallet amounts that
exist because of such fees, short trades and leverage, the stoploss status
`triggered`, a new order answered as `canceled` or `rejected`, `close_rate`.
Database sessions: one session is shared by the threads, so rows that are
changed and not committed are visible to a command, which in the code would see
them only after a commit; a command that fails drops what is uncommitted.
Commands during startup are left out. At the bound `MaxOrders` every further
request to create an order fails.

### StopLoss

The stop price of one trade, long or short, leveraged or not, live or in a
backtest. `trade` has the fields of `LocalTrade` that matter to the stop,
`strategy` the settings, `stoploss` the value of the strategy that is loaded
(another one after `Restart`), `candle` what the code looks at: a candle of a
backtest, the current rate live. Prices are whole ticks and ratios whole tenths,
rounded as `price_to_precision` rounds, so that rounding is part of what is
checked. `Adjust` is `adjust_stop_loss`, `StoplossAdjust` is
`ft_stoploss_adjust` with what precedes it, `CheckExit` the decision to sell and
the close rate `_get_close_rate_for_stoploss` gives. `custom_stoploss` returns
anything. `exit.stop`, `exit.armed` and `trade.refreshed` are history.

### PairLocks

The rows of `pairlocks` in a live bot. `Exit` commits a trade as closed, and
only then `handle_protections` sets the automatic lock (`SetAutoLock`), asks the
protections of the pair (`StopPair`) and the global ones (`StopGlobal`); the
process may die in between. `Exit` is an exit order, or a stoploss that
`handle_stoploss_on_exchange` finds filled. `StopFound` is a stoploss found filled
by `cancel_stoploss_on_exchange`, at startup or by `handle_insufficient_funds`:
`order_close_notify` skips `handle_protections`, since its side is not the exit
side. `Enter` looks at locks twice, with the clock and with
the time of the signal. The strategy, the commands and expiry change rows at any
time. Which protection triggers, and until when, is a choice here; `Backtest` has
two of them in full. `exits` and `verdicts` are history.

### Backtest

`backtest_loop` and the generator around it: for every main candle, detail candle
and pair, manage open orders, enter, exit; with `bt_open_open_trade_count`, the
trade ids, `pairs_with_open_trades`, the cached detail candles and the list of
locks that `CooldownPeriod` and `StoplossGuard` add to. Rates are left out:
whether an order fills in a candle is a choice. `open` is a set, since the code
only appends to `bt_trades_open` and so keeps it in the order of the ids; a loop
over a copy of the list is the set `todo` of ids it has still to visit, of which
the smallest is next. `queue` gives each pair that is still to come in the detail
candle its place in `new_pairlist`: pairs with open trades come first, in the
order of their oldest trade (`Place`). One step per decision of the loop; the
steps are sequential, the difficulty is in the paths (an entry replaced,
rejected or timed out, a partial exit, a reversal with a second pass in the same
candle, positions closed after the last one).

### CandleStream

One pair. The main thread's `refresh_latest_ohlcv` is split where it reads what
the event loop writes (`MainRequest`, `MainBuild`, `MainTakeWs`, `MainRest`,
`MainAnalyze`); the loop's task is split where it awaits (`LoopSchedule`,
`LoopData`, `LoopUnwatch`, `LoopFinally`, `LoopStopped`). A candle is a number, a
row is received or made up (`filled`). `gap` is history.

### ProducerConsumer

A producer's message stream (`stream`: who iterates sees what is published from
then on), its channel, its answers, the connection in both directions, and a
consumer's initial requests, request stream and frame. A frame is the set of its
candles, so merging, holes and the threshold from which a whole frame is asked
for (`Full`) are visible. The connection breaks, losing what is on its way, and
the producer restarts (as a process, or a new bot after `/reload_config`), without
an analysed frame and with an empty `active` list at first. A list is refreshed,
and sent if it differs from the one before (`FirstList`, where that is the
configured list, and `AnnounceList`), and then assigned (`AssignList`), which is
what answers read; 0 is the empty list, which the consumer ignores and which
leaves a request for all frames without an answer.

### PairLists

A chain of one generator and filters, each kind with the cache it keeps. The
lists are sets; what matters is which list object is passed on, since three
places change lists in place: filters, the blacklist check, and the extension by
pairs of open trades in `_refresh_active_whitelist`. `cur.slot` names the cache
that holds the object the main thread is working on. The check against the
blacklist visits one entry per step, between which commands add and delete
entries; `checked` is history: the entries present throughout.

### FreqAI

`SaveSteps` lists what `save_data` and the calls around it do, in order: files
into the folder, the fields of the drawer in memory, the drawer on disk
(truncated, then written). Every element is a step of the training thread, and
between two of them the main thread does a step of `load_data`, or the process
dies. `folders` is the disk, `mem` the dictionaries in memory; a training is a
number that stands for its timestamp and its name.

## 3. Runs, bounds, fairness

| run | states | question |
|---|---|---|
| `Worker` | 2.7 thousand | do stop, start, pause and reload take effect, and never on a raw instance |
| `EntrySlots` | 1.36 million | who can exceed `max_open_trades` and open a pair twice |
| `TradeOrders_safety` | 294 thousand | nothing forgotten, empty, unsold or miscounted when fills race with everything |
| `TradeOrders_recovery` | 1.27 million | rows truthful and committed through a crash anywhere, lost answers, recovery, adjustment and replacement |
| `TradeOrders_live` | 86 thousand | sold trades close, positions get a stoploss, with every fault of the exchange |
| `StopLoss` | 974 thousand | does the stop tighten only, and sell inside the candle |
| `PairLocks` | 1.70 million | is a pair entered on a signal older than a handled exit, or while a protection stops it |
| `Backtest` | 6.27 million | slots, orders, locks and repeated signals over all paths of the loop |
| `CandleStream` | 272 thousand | are open candles used, made up ones kept, finished ones missed |
| `ProducerConsumer` | 705 thousand | holes, missed lists, catching up |
| `PairLists` | 1.35 million | what gets into the whitelist |
| `FreqAI` | 1.63 million | models named and present, not mixed, pairs taking turns |

**Bounds.** *Worker* needs none. *EntrySlots*: two pairs, two clients, limit 2,
five trades ever; two clients are the least that can exceed the limit together
and open a pair twice without the main thread, and five trades are one more than
`Slots` allows to be open, so the bound is the code's and not the model's; the
theorems cover all sizes. *TradeOrders*: a behaviour has three or four orders,
enough for an entry, a stoploss, an exit with its replacement or emergency exit,
or for an order that is lost, its repetition and what recovery does with both.
Entries of 2 or 3 units let an order be unfilled, partly filled and filled;
`MinAmount` 2 of 3 makes both kinds of unexitable remainder happen, 1 switches
that off. One crash, at any point: a restart forgets everything
but `stored`, and a second crash starts from what the first one left; the
theorems that allow crashes allow any number. `Spare` is 0, the
wallet of a bot that has nothing else of the coin; `TradeOrders_live` has no
failing requests and no commands, so three orders are enough: an entry, a stoploss
or exit that sells everything or a part, and the one that follows. The features are spread over the runs because their product is beyond
TLC.

*StopLoss*: three prices of which one is below and one above the entry by more
than a trailing offset, leverage 1 and 2, two strategies' stoplosses (a restart
with a looser and with a tighter one), two fills (an average, and a partial
exit); the theorem has no bound. *PairLocks*: one pair with global locks, two
rows, locks of less and more than a candle, four candles: a closing, a lock that
covers the next, its end and an entry. *Backtest*: one slot for two pairs, so
that the slot is always contended, two main candles of two detail candles so
that both kinds of step happen twice, and two entries per trade.
*CandleStream*: four candles, REST answers of three candles without a reserve (so
that a late answer is a hole the code did not ask for), one failure: a pair is
requested, expires or fails, and is requested again; `OtherPairs` lets the other
pairs change the shared sets. *ProducerConsumer*: a first frame as long as
a full request (so no frame is shorter than the
`FULL_DATAFRAME_THRESHOLD` of the code), two candles after it, one lost
connection or restart; two lists besides the empty one, one of them configured,
and one change of the list while the producer runs.
*PairLists*: two pairs of which one is configured, chains of up to two handlers:
properties relate a handler's cache to what follows it. *FreqAI*: two pairs, two
models kept, three trainings, so that the oldest folder of a pair is purged; one
failure and one crash at every point.

**Deadlock** is not checked, except in *StopLoss* and *PairLists*, which never
stop: a bot that has exited, a trade that is closed with the order bound used
up, a backtest at its end, a lock that nobody wants, or a bound on time or
trainings are places where the modelled system stops.

**Fairness.** `Worker!FairSpec`: the main thread takes steps for ever unless the
process exits: after every statement it has a next one, and no lock is involved.
`TradeOrders!FairSpec`: weak fairness of the main thread and of the handler that
holds the lock, which without `error` always gets an answer. A crash needs no
fairness and startup is part of the main thread. Nothing is assumed of the
exchange (orders need not fill), the strategy or the users; hence
`SoldTradeCloses` is about coins that are sold already, and `PositionGetsStop`
allows another order to block the coins for ever. `CandleStream!FairStreamSpec`: the
clock, the loop and the main thread go on, and a subscription delivers; a
failure is never fair. `ProducerConsumer!FairSpec`: both bots go on, messages of
a standing connection arrive, a consumer that is disconnected connects again.
The bound on failures makes the network quiet in the end; `CatchesUp` and
`LastCandleIsSeen` are about what is true from then on.

**Properties** in words:

- `Worker`: `ProcessOnlyStarted`, `AtMostOneIterationAfterStop` (one `process`
  decided before the stop may still begin), `ReloadIsServed`, `StopIsServed`
  (unless superseded by another assignment of the state).
- `EntrySlots`: `MainCommitsWithinLimit` (the second look at the slots, under the
  lock, is what makes it true), `KeepsSlots` (each RPC thread may be one trade
  too late), `MainNeverDuplicates`.
- `TradeOrders_safety`: `NoOrderForgotten`, `NoEmptyTrade`, `ClosedIsSold`,
  `AmountIsOwned`, `RemovedIsEmpty`. `TradeOrders_recovery`:
  `AmountIsNet`, `ClosedRowsAreFinal`, `CommittedWhenIdle`. `TradeOrders_live`:
  `SoldTradeCloses`, `PositionGetsStop`.
- `StopLoss`: `StopOnlyTightens`, `TrailingMeansMoved` (a restart trusts
  `is_stop_loss_trailing`), `StopSellsInCandle`.
- `PairLocks`: `NoEntryOnOldSignal` (after an exit that `handle_protections` is
  called for), `ProtectionHolds`. `Backtest`:
  `LocksAreRespected`, the same for its own locks, `KeepsSlots`,
  `OneOrderThatFits`, `OneTradeAtATime`.
- `CandleStream`: `NoLookahead`, `HolesAreExplained`, `LastCandleIsSeen`.
- `ProducerConsumer`: `NoHole`, `BehindIsOnTheWay`, `OldListIsReplaced`,
  `CatchesUp`.
- `PairLists`: `WhitelistIsListed`, `BlacklistIsRespected`.
- `FreqAI`: `RestartFindsModel`, `OneTraining`, `TakesTurns`.

Some properties hold only in the runs that check them, or with an exception in
their statement, and that is a statement about the code. With position
adjustment a closed trade may have an open entry (below), so `NoOrderForgotten`
is checked without; it is checked without lost answers too, since such an order
is unknown until `handle_onexchange_order` finds it, and without spare coins:
with `Spare = 1` an exit goes on after the stoploss it cancelled has filled and
closed the trade, and sells the spare coin. A crash within an update leaves the
amount behind the rows until a later order of the trade ends, so `AmountIsNet` says
nothing after a crash (section 4, number 12); and coins that were sold in parts
when it happened are not found again, since recovery closes a trade only on an
order that sold just as much as is left: `SoldTradeCloses` excepts that
(`SoldInParts`). A stoploss that is not found filled by its own section leaves the
pair unlocked (number 13). A candle that was dropped counts as
refreshed (`LastCandleIsSeen`). A list that a consumer asks for between the
refresh and the assignment is answered with the old one and not repeated, an
empty one is ignored (`OldListIsReplaced`); of a producer without pairs nothing is
to be had (`CatchesUp`). A load that overlaps a save may mix two trainings, and a
model read from disk may replace a newer one in memory (`OneTraining`). A folder
that nothing will name counts when old models are purged, so the folder the
drawer names may go before its pair has another: `RestartFindsModel` says how
many such folders that takes (`Unnamed`). They come from trainings that fail, and
from a crash after the files of a model are complete and before the drawer is
written; the second kind is why the premise counts folders and not failures.
`StopSellsInCandle` excludes the candle that opened a trade and armed its
offset. What was given up at startup as not found and is found later leaves the
amount stale until the order ends (`unknown` is not among the answers of
`TradeOrders_recovery`).

## 4. Where code and text disagree

Each configuration here is expected to fail: TLC ends it with a counterexample.

1. `Worker_init.cfg`: the state is assigned after RPC is up although the comment
   asks for the opposite; a command answered during the initial pairlist refresh
   is overwritten (`freqtradebot.py:115-120, 147`).
2. `EntrySlots_pair.cfg`: two open trades of one pair through a forced entry
   (`docs/configuration.md:166`, `rpc.py:1067`).
3. `TradeOrders_stray.cfg`: a stoploss hit closes the trade "found no open orders
   for it" while an adjustment's entry order is open (`trade_model.py:948`).
4. `TradeOrders_young.cfg`: orders "older than 5 days" are orders of any age
   (`freqtradebot.py:424`).
5. `TradeOrders_remaining.cfg`: replacing an exit that filled meanwhile asks for
   the whole trade again (`freqtradebot.py:1754, 2092`). On a spot exchange the
   request usually fails for want of coins, then the handler ends there.
6. `TradeOrders_empty.cfg`: an entry canceled while the bot was down leaves an
   open, empty trade (`freqtradebot.py:2318, 415`).
7. `TradeOrders_reload.cfg`: "When recalculating a trade, only coming out to 0
   can force a close" (`trade_model.py:930`), but the test before it compares the
   order's fill with the amount. Of an entry of two, one is sold by an exit that
   is then canceled; reloading the trade (`rpc.py:937`) sees that exit fill the
   one unit left and closes the trade, which still owns it.
8. `StopLoss_average.cfg`: "Stoploss is still calculated from the initial opening
   price, not averaged price" (`docs/strategy-callbacks.md:949`), but a fill
   recalculates it from the average (`trade_model.py:1276`).
9. `PairLists_avoid.cfg`: the blacklist is a "List of pairs the bot must
   absolutely avoid for trading" (`docs/configuration.md:225`). The pair of an
   open trade is added to the whitelist, "ensures that candle (OHLCV) data are
   downloaded for open trades as well" (`freqtradebot.py:338`), and entered again
   in the same iteration if that trade is deleted or closed first.
10. `PairLists_shuffle.cfg`: `ShuffleFilter` keeps the list it returns, the bot
    extends that list by pairs of open trades, and they stay in it until the
    candle ends when their trades are gone.
11. `PairLists_delete.cfg`: deleting an entry of the blacklist while
    `expand_pairlist` goes through it makes the loop skip the next entry.
12. `TradeOrders_cut.cfg`: `amount` is the "Amount in Asset / Base currency that
    is currently owned" (`docs/trade-object.md:21`). A crash between the commit of
    the row (`trade_model.py:336`) and that of the trade (`freqtradebot.py:2330`)
    leaves an amount without the order; the row is not open, so startup and
    `manage_open_orders` do not come back to it, and `exit_positions` misses no
    coins when the order was one that bought more.
13. `PairLocks_stop.cfg`: "Freqtrade locks pairs automatically for the current
    candle (until that candle is over) when a pair exits"
    (`docs/strategy-customization.md:1042`), but not when the stoploss is found
    filled elsewhere than in its own section (`freqtradebot.py:2381`).
14. `ProducerConsumer_start.cfg`: without `number_assets`, `ProducerPairList`
    promises "the reuse of all producer pairs" (`docs/includes/pairlists.md:261`). A consumer that asks
    while the producer starts is answered `[]`, ignores it
    (`external_message_consumer.py:311`), and is not told the list when it equals
    the configured one (`freqtradebot.py:342`).

Seen while modelling, without a run of their own:

- Entries: the documented limit of open trades is exceeded by force entries
  (`KeepsSlots` says by how many); `/pause` in the middle of the entry loop does
  not stop the remaining pairs; `/pause` and a failing `process` may overwrite a
  reload; adding to a trade closed meanwhile.
- Orders: a failed replacement deletes a trade whose canceled entry was partly
  filled (`freqtradebot.py:1641`); an emergency exit asks for the whole amount of
  an order that was partly filled (`freqtradebot.py:1616`); a force exit, and an
  exit whose cancelled stoploss filled, go on after the trade was closed by that
  fill; the branch of `handle_onexchange_order` that deletes a trade is not
  reached, since such trades have amount 0; a stoploss row that cannot be fetched
  stops the recovery before it begins; updating the fee of a closed trade calls
  `handle_protections` for it again.
- Locks: `unlock_pair` without a side releases only locks of both sides
  (`PairLocks!UnlockUnlocks` fails); a crash between the commit of a closed trade
  and its automatic lock loses the lock; a protection sets no lock when a longer
  one covers it, and deleting that one lifts both; the list compares the end of a
  lock with `>=`, the database with `>`.
- Backtesting: with detail candles trades open on the last row
  (`Backtest!NotOnLastRow` fails); the dry-run wallet ignores a pending
  adjustment order.
- Candles: `_pairs_last_refresh_time` is set to a candle that is dropped when it
  is the only one; `refresh_ohlcv_with_cache` overwrites what it has collected;
  `get_ohlcv` may raise `KeyError` when the pair is evicted; an exception that is
  not ccxt's leaves the pair in `_klines_scheduled` for good;
  `initial_candle_limit` is not used.
- Pair lists: `AgeFilter` does not look again at pairs that grow too old
  (`docs/includes/pairlists.md:400`); `StaticPairList` after another handler adds
  inactive pairs (`:70`); a wildcard that is no regular expression ends
  `RemotePairList` with a `ValueError`; two threads may blacklist a pair twice;
  no WHITELIST message when `ShuffleFilter` returns the object it returned before.
- FreqAI: an empty queue ends the training thread with `IndexError` while
  `scanning` stays set; a pair that leaves the whitelist is taken out of the
  queue and not put back when it returns; a truncated `pair_dictionary.json`
  prevents the start; folders of failed trainings count when old ones are purged; pairs with the same base share
  folders.

## 5. Proofs

TLAPS proves the following for every value of the constants that the named
assumptions allow: `InitialStateAssumption`; `SlotsAssumption` (a finite set of
RPC threads, a natural limit); `StopLossAssumption` (positive prices and
leverages, ratios below one); `TradeOrdersAssumption` (amounts and bounds are
natural, settings are Boolean, answers and commands among those the module
knows); `PairLocksAssumption` (a timeframe of at least one tick, `*` is no pair);
`CandleAssumption` (time for two candles, a reserve within the limit of the
exchange); `ProducerConsumerAssumption` (bounds and the threshold of a whole frame);
`PairListsAssumption` (finitely many pairs, handlers among those the
module has); `BacktestAssumption` (some pairs, positive limits and numbers of
candles, natural stop durations); `FreqAIAssumption` (finitely many pairs,
natural bounds, some trainings and models kept). A theorem with a further hypothesis states it in its `ASSUME`.

Every theorem follows from an inductive invariant, called `IInv` where a module
has one for all. TLC checked each of them on an instance of its module before it
was proved; several strengthenings below are answers to TLC's counterexamples to
induction. A proof has a lemma per action, under which the conjuncts the action
disturbs have a step each, and the theorem combines them with PTL.

Two modules hold the proofs of two components each, which share no variable:
*ThreadsProofs* those of `Worker` and `FreqAI`, whose subject is attributes that
two threads access without a lock, and *StreamsProofs* those of `CandleStream`
and `ProducerConsumer`, whose subject is a copy that messages keep up to date.

*ThreadsProofs*, `Worker`. `WorkerTypeCorrect`. `StartedBeforeProcess`:
`ProcessOnlyStarted` is not inductive, since the worker decides to skip `startup`
by looking at `old`. `StartedInv` adds what an active `old` says: the instance was
started, and on the way through a reload `old` is RELOAD_CONFIG, so that the next
active state starts the new one. `StopIsObeyed`: `LateInv` says that the count is
1 only while the state is still STOPPED and 0 whenever a decision to iterate is
pending.

*ThreadsProofs*, `FreqAI`. `TypeCorrect`, `RestartIsPossible`
(`RestartFindsModel`), `PredictionsUseOneTraining` (`OneTraining`) and
`NoPairIsPassedOver` (`TakesTurns`). `SaveInv` reads off `step` what is on disk
and in memory already; `MemInv`: the dictionaries of a pair that is not being
announced (`InSave`) are of one training, or their files are still to be read, or
the pair is `stale`; `LoadInv`: a load that overlapped no save has read what
belongs to the training it began with, which is preserved because the steps that
announce a training make the load of that pair `mixed`. `FolderInv` has what
memory names beside what the drawer names, since the next `save_drawer_to_disk`
turns one into the other; a purge keeps the newest folders, so it removes what is
named only if `NumKeep` later ones are not (`Above` and the lemmas on
cardinalities). `QueueInv`: the queue has no pair twice, and who was attempted
since the last attempt at a pair stands behind it.

*EntrySlotsProofs.* `TypeCorrect`, with `LockHeld`: the lock is held by the
thread that is inside a critical section and by no other. `MainWithinLimit`:
`PlacedHasSlot` (the slot found free is free until the commit) is preserved
because only the holder of the lock inserts trades (`OnlyHoldersInsert`).
`LimitExceededByClientsOnly`: `BoundInv` counts, besides the open trades, the
threads that passed the check and have not committed; passing the check needs a
free slot, and a commit turns one of the second into one of the first.
`ImplementsSlots`: the refinement. `OneAtATime` shows that every step changes
`held` by at most one trade, the bound before an insertion is `BoundInv`.
`MainOpensPairOnce`: `AheadIsFree`, no pair still on the main thread's list has a
trade of its own.

*StopLossProofs.* `TypeCorrect`, `StopTightens`, `TrailingSaysMoved`
(`TrailingMeansMoved`) and `StopIsSoldInCandle` (`StopSellsInCandle`). The
invariant is `IInv`: types; `StopIsFirstOrMoved`: a stop that was not refreshed
is where it was first, or is marked as trailing and protects strictly more, so that
no later tightening brings it back; and `InitialIsStoploss`: live, as long as nothing trailed,
`initial_stop_loss_pct` is the stoploss of the strategy that is loaded, so that a
restart resets the stop only if that stoploss has changed. Arithmetic is confined
to lemmas about the operators (`StopPriceType`, `AdjustFacts`: `adjust_stop_loss` without refresh
never loosens; `StoplossAdjustFacts`, `RecalculateFacts`, `FirstFillFacts`), and
the step lemmas (`EntryFillStep`, `PartialExitStep`, `CheckExitStep`,
`RestartStep`, ...) only combine them. For the price of a sold stop, `ExitInv` adds that the
candle is one (low, open, high in order); `ExitOrderFacts` goes through the cases
of `_get_close_rate_for_stoploss`, with `Product` for the comparison of prices in
ticks and in fractions of a tick.

*TradeOrdersProofs.* `TypesHold`, `RowsAreCommitted` (`CommittedWhenIdle`),
`ClosedRowsStayTrue` (`ClosedRowsAreFinal`), `AmountIsWhatOrdersTraded`
(`AmountIsNet`), `RemovesOnlyEmptyTrades` (`RemovedIsEmpty`),
`TradesHaveSomething` (`NoEmptyTrade`), `NoOrderIsForgotten`
(`NoOrderForgotten`), `ClosedTradesAreSold` (`ClosedIsSold`) and
`AmountIsWhatIsOwned` (`AmountIsOwned`). `IInv` has, besides the types:

- `OrdersFit`: the exchange numbers orders in sequence, and an open order is not
  filled completely;
- `Fits`, of the session's database and of the committed one alike, so that a
  crash, which replaces one by the other, and a rollback preserve it: a row has
  an order and claims no more than that order's amount, and, with
  `AnswersAreTrue`, a row that is not open is final (`FinalIn`) and, without
  crashes, an open trade holds the sum of its final rows if that is positive
  (`NetHeld`);
- `JobInv`, `CancelsInv`, `SentInv`: what the handler in progress may still do. A
  stoploss is only placed for a trade that holds coins, only orders with a row
  are cancelled and refound, and an order that was sent has no row yet, in
  neither database;
- `CommittedInv`: rows and state of the trade are committed at every point except
  between the placing of a stoploss and the end of `exit_positions`.

`AnswersAreTrue` excludes the answers `forgotten` and `unknown`: for these the
code itself records an order as ended with nothing filled, whatever it traded
(`cancel_order_with_result` makes up an order, `startup_update_open_orders` gives
up on one), so both properties then fail in the model as they do in the code. The
sums are folds over the set of orders: `SumIsInt` proves that the fold of a
finite set is defined and an integer. The rest is about which rows are summed,
not about arithmetic: a step that ends a row recalculates the trade, unless
nothing came of the order (`FitsRow`, `NetOfNothing`), and what the exchange does
meanwhile leaves the shares alone (`FitsFrame`). `ReloadedIs` proves that the
recursive function behind `handle_onexchange_order` is defined. No theorem bounds the orders of a trade,
the amounts or the crashes, but for those that exclude crashes. `AmountIsWhatOrdersTraded`
does because its property ends with the first crash, which may leave the rows
ahead of the amount (`CrashInUpdate`); those below say why they do.

Two theorems are about how a trade goes, and rest on `BackedInv`: a
trade has an amount only if an entry has bought something (`BoughtIn`), and only
then is there, from its first order on, an order that sells (`Backed`, of the
session and of what is committed); the handler at work sells only then, and the
order it has sent is the last of all (`HandlerBacked`). So `handle_cancel_enter`, which sees no
entry that bought, no open order but its own and nothing filled in that one,
removes a trade whose orders, all entries, traded nothing (`CancelBacked`), and a reload removes only
what the rows it has just refreshed show to be unfilled (`ReloadedTo`,
`RecoveredBacked`). `StaysBacked` is what each action is shown to leave:
`BackedInv`, the step of `RemovedIsEmpty`, and `NonEmptyInv`, the strengthening of
`NoEmptyTrade` to every state, the database and the session. Both theorems
assume `AnswersAreTrue` and that orders are not replaced: `replace_order_failed`
removes trades whose order is filled in part, so `RemovedIsEmpty` fails with
`Replace` (TLC: an entry too little filled to be exited is refused its
cancellation, and goes with the trade). `TradesHaveSomething` assumes
`OneEntryWatched` too, and TLC has a counterexample without each of its parts:
an entry of an adjustment cancels the first one and then fails; an entry that was
canceled during a crash is only marked at startup (section 4, number 6); a reload
marks it in the same way. That it assumes no replacement and true answers is for
the proof: TLC found no empty trade with `Replace` in four orders, nor with
`forgotten` in three.

The last three theorems compare the bot's books with the exchange, and assume
`OneSale`, the settings of `TradeOrders_safety`: one entry (no adjustment, no
replacement), no coins but the trade's, no crash, no `/delete` and no
`/reload_trade`, and an exchange that may be raced by fills, refuse or fail any
request and let new orders expire, but does none by half. Each of these
conditions is needed: relaxing any one of them in that run, TLC finds one of the
three properties violated (a spare coin, adjustment, replacement, a crash,
`slow`, `lost`, `forgotten`, `delete`, `reload`), except for `unknown`, which is only
answered at the startup after a crash. The amounts, the number of orders, the
timeouts and the stoploss settings are any.

None of the three properties is inductive: that an exit closes the trade
it belongs to, and leaves no other order behind, follows from there being no coins
left for another order, which depends on the whole history of orders. `SaleInv`
says so in two parts. `DataSale`: the coins that no open order blocks are never
negative (`FreeIn`, a sum over the orders at the exchange of what each bought,
sold and blocks); nothing came of an order the database does not have, except
for the one being recorded (`Unseen`); and of both databases (`SaleOf`), there is one
entry, one order at most is waited for besides the stoploss, a trade whose entry
bought something is open as long as its final rows leave something, and closed
otherwise. `HandlerSale`: what a handler may still do. An exit either has not
asked how much it may sell, or waits for no order, or wants everything and has
asked to cancel what it waits for, or found that filled in part (`ExitFits`): so
what it places cannot be granted next to another exit. From `FreeIn >= 0`
follows that an order which sells everything is the only one that sells, and
what remains are lemmas on sums over orders (`SumChange`, `SumOfPart`,
`SumMonotone`) and one lemma per action. At rest, `IdleFacts` reads the three
properties off: no handler has sent an order, so every order the database lacks is
finished (`NoOrderIsForgotten`); the final rows of a closed trade add up to nothing and
its open ones can only have sold (`ClosedTradesAreSold`); without open rows the
final ones are all there is (`AmountIsWhatIsOwned`).

*PairLocksProofs.* `TypesHold`, `OldSignalsAreLocked` (`NoEntryOnOldSignal`) and
`VerdictsAreKept` (`ProtectionHolds`). `ExitsHeld` and `VerdictsHeld` say that
what was decided and not lifted by hand is covered by an active row, its own or a
longer one (`lock_pair` of a protection sets none when one covers it), or, for an
exit, is the automatic lock that `handle_protections` is about to set. They are
preserved by expiry because a row is deactivated after its end only, and they
give the property because a lock's end is rounded up to a candle
(`NextDateFacts`) while a signal's time is the end of a finished one
(`Analyzed`, `LastClosedFacts`).

*StreamsProofs*, `CandleStream`. `StreamTypes`, `OpenCandleIsDropped` (`NoLookahead`) and
`HolesHaveReasons` (`HolesAreExplained`, an action property). The invariant is
`CacheOK`. `SocketInv`: the
websocket's candles have no hole, end at most at the open candle, and the task
that waits for the next one has seen the current or the last one. `CacheInv`:
the cache has no hole left (a missing candle was made up), nothing after
`refreshed`, and its end is at most a candle behind unless `gap`. `DecisionInv`
is what makes the interleaving work: what `_build_ohlcv_dl_jobs` found out before
the event loop went on still bounds what is there when the candles are taken, so
that `drop_hint` is right, and a REST answer overlaps the cache. `MinFacts` and
`MaxFacts` come from well-foundedness of the natural numbers.

*StreamsProofs*, `ProducerConsumer`. `TypesHold`, `CopyHasNoHole` (`NoHole`),
`HelpIsOnTheWay` (`BehindIsOnTheWay`) and `NewListIsOnTheWay`
(`OldListIsReplaced`). What is on its way counts, so the invariant is about the
queues. `QueueInv`: requests, messages and the copy itself are of their types, a
frame is a run of candles. `ChannelInv`: until the channel is subscribed nothing
was answered and the requests stand in the order sent, the one for the frame
last, so that its answer cannot be older than the broadcasts the consumer
missed. `FrameInv`: behind a frame that lacks the last candle comes one that has
it, in `down` or in `stream`; which holds because both are read in order and a
broadcast is published with the candle. `ListInv`: the last whitelist on its way
is the one that was refreshed last; with none on its way the consumer has it or it is
empty, unless the consumer will ask, or asked too early (`stale`), as everyone does
who asks a producer without its first list. The lemmas about queues (`AppendFacts`,
`TailFacts`, `ListAppended`, `ListTaken`) say what appending to and taking from
one does to "the last list in it".

*PairListsProofs.* `TypesHold`, `WhitelistComesFromHandlers`
(`WhitelistIsListed`, for chains without `ShuffleFilter`, which breaks it) and
`BlacklistedAreRemoved` (`BlacklistIsRespected`). `FindsArePassedOn`: without
`ShuffleFilter` the list on its way through the chain is not an object any
handler keeps, so that extending it in place changes no cache, and it contains
only what the handlers before found (`GivenBefore`), which goes for the lists in
the caches too. `CheckAdvances`: what `expand_pairlist` has passed is expanded,
which needs that entries are only appended meanwhile. Its hypothesis `DeleteInCheck = FALSE`
excludes the deletion of an entry during the check, which makes the loop skip one
(section 4, number 11).

*BacktestProofs.* `TypeCorrect`, `OrdersFit` (`OneOrderThatFits`), `SlotsKept`
(`KeepsSlots`, the refinement of `Slots`), `LocksRespected`
(`LocksAreRespected`) and `EnteredOnce` (`OneTradeAtATime`), for any pairs,
candles, details, slots, entries and protections. `StepIs` sorts the twelve
actions by what they do to the trades: nothing (`Untouched`), something with one
of them (`Visited`: it changes, goes, or is sold, with the locks that follow), or
one that is new. `OpenInv`: each open trade waits for its entry, sells no more
than it holds, or holds something without an order (`Fits`), and the counter is
the number of ids, which with distinct ids is the number of trades. `TodoInv`:
what a loop still visits is open and of the pair, except for the trade that
closed in this visit. `LocksInv`: for each trade that ended there is a lock that
lasts at least as long as its protection asked for, its own or the one that made
`lock_pair` unnecessary (`LockIs`, `ProtectionsIs`); the stoplosses within the
lookback of an earlier end are not added to by a later one (`NewLocks`).
`SinglesInv`: without position stacking a pair has at most one trade, and where
one ended in this main candle (`Ended`) the pair is either not visited again or
has a signal, or a trade, in the other direction (`AfterIt`); `MainCandle` and
`Multiples` have the arithmetic of candles and details. The last conjunct is the
reason for `pairs_with_open_trades` and the cached detail candles, and neither
alone suffices.

*Only model-checked*: liveness (`ReloadIsServed`, `StopIsServed`,
`SoldTradeCloses`, `PositionGetsStop`, `LastCandleIsSeen`, `CatchesUp`), which is
beyond the prover. Every invariant and every safety property of a step that a
passing run checks is also a theorem.

## 6. What is next

The modules are in place and their safety properties proved. What is left is
breadth: the exchange adapter's retries and caches, short trades and leverage in
`TradeOrders`, and the order of hyperopt's and the RPC front ends' own threads.

## 7. Not modelled, and why

- *Exchange subclasses, data download, configuration, migrations, plotting,
  templates, REST client, scripts of this fork*: data, options, files and output;
  no state that two actors share.
- *RPC front ends*: parsing and formatting. What the models use of them is that
  each command runs in a thread of its own with its own session.
- *Strategies*: user code. Every callback may return whatever its type allows;
  what the interface does around them is in `StopLoss`, `PairLocks` and
  `CandleStream`.
- *Hyperopt and the analyses around backtesting*: parameter search and reports.
- *Wallets, leverage, interest, profit, fees*: sums and quotients of real
  numbers. A model over small integers would restate the formulas.
- *FreqAI's features, training and predictions*: numeric libraries; only who
  writes what when is modelled.
- *The fees of closed trades* (`update_trades_without_assigned_fees` asks for them
  at every iteration and calls `handle_protections` again), and an exchange that
  never reports a fee.
- *Forced entries* do not look at locks and are not in `PairLocks`.
- *Frames shorter than `FULL_DATAFRAME_THRESHOLD`* are excluded by the bounds of
  `ProducerConsumer`.
- *The retry decorator*, precision, tiers and the matching of dry-run orders in
  the exchange adapter: retries are part of what an answer may be (`slow`,
  `error`), the rest is numeric.
- *MaxDrawdown and LowProfitPairs*: their verdict is a number; `PairLocks` lets a
  protection stop a pair whenever it likes, `Backtest` has the other two.
