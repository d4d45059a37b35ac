------------------------------ MODULE Backtest ------------------------------
(***************************************************************************)
(* The main loop of the backtester: for every candle, for every detail     *)
(* candle in it and for every pair, backtest_loop manages the orders of    *)
(* the pair's open trades, may enter, and exits; protections lock pairs    *)
(* when trades close.                                                      *)
(*                                                                         *)
(* Prices are left out: whether a rate lies within the candle, what the    *)
(* strategy asks for and what the stake allows are choices.  Time goes by  *)
(* detail candles.  An order fills completely or not at all; only the open *)
(* orders of a trade are kept, the filled ones are its amount and entries. *)
(***************************************************************************)
EXTENDS Integers, Sequences, FiniteSets, FiniteSetsExt, SequencesExt

CONSTANTS
  Pairs,
  MaxOpenTrades,
  Stacking,        \* position stacking: the values a run may have
  Protect,         \* enable_protections: the values a run may have
  CanShort,
  MaxEntries,      \* position adjustment: entries of a trade, 1 without
  Candles,         \* bound: main candles
  Details,         \* detail candles of a main candle
  Lookback,        \* lookback_period of the protections, in detail candles
  Cooldown,        \* CooldownPeriod: stop_duration
  GuardLimit,      \* StoplossGuard: trade_limit, ...
  GuardStop,       \* ... stop_duration ...
  PerSide          \* ... and only_per_side

ASSUME BacktestAssumption ==
  /\ Pairs # {}
  /\ {MaxOpenTrades, MaxEntries, Candles, Details, Lookback, GuardLimit} \subseteq Nat \ {0}
  /\ {Cooldown, GuardStop} \subseteq Nat
  /\ Stacking \cup Protect \cup {CanShort, PerSide} \subseteq BOOLEAN

VARIABLES
  stacking, protected,  \* the configuration
  now,         \* current_time_det
  queue,       \* pairs that follow in this detail candle, and their place in new_pairlist
  skip,        \* pairs_with_open_trades
  cached,      \* pairs in pair_detail_cache, and their pair_tradedir_cache
  open,        \* bt_trades_open, a list in the order of the ids
  count,       \* bt_open_open_trade_count
  closed,      \* bt_trades
  locks,       \* PairLocks.locks
  pc, pair,    \* where the loop is, and for which pair
  dir,         \* trade_dir
  second,      \* this is the second pass of backtest_loop
  exiting,     \* exiting_dir
  todo,        \* ids of the trades the current for loop still visits
  nextId       \* trade_id_counter

config == <<stacking, protected>>
clock  == <<now, queue, skip, cached>>
trades == <<open, count, closed, locks>>
pass   == <<pair, dir, second, exiting>>
vars   == <<config, clock, trades, pc, pass, todo, nextId>>

PairList == SetToSeq(Pairs)
Sides == IF CanShort THEN {"long", "short"} ELSE {"long"}
EndDate  == (Candles - 1) * Details     \* the date of the last row

Ids(T)    == {x.id : x \in T}
Trade(id) == CHOOSE x \in open : x.id = id
Oldest(T) == CHOOSE x \in T : \A y \in T : x.id <= y.id
OfPair(p) == {x \in open : x.pair = p}

\* Pairs that have open trades are processed first.
Place(p) ==
  IF OfPair(p) # {} THEN Oldest(OfPair(p)).id
  ELSE nextId + (CHOOSE i \in DOMAIN PairList : PairList[i] = p)

PairQueue == [p \in Pairs |-> Place(p)]

Init ==
  /\ stacking \in Stacking /\ protected \in Protect
  /\ now = 0 /\ skip = {} /\ cached = <<>>
  /\ open = {} /\ count = 0 /\ closed = {} /\ locks = {}
  /\ pc = "next" /\ pair = (CHOOSE p \in Pairs : TRUE) /\ dir = "none" /\ second = FALSE
  /\ exiting = "none" /\ todo = {} /\ nextId = 1
  /\ queue = PairQueue

(***************************************************************************)
(* Locks and protections.                                                  *)
(***************************************************************************)

\* timeframe_to_next_date
NextDate(t) == (t \div Details + 1) * Details

\* is_pair_locked; with "*" for the pair, is_global_lock.
Locked(L, p, t, s) == \E l \in L : l.pair \in {p, "*"} /\ l.until >= t /\ l.side \in {"*", s}

\* What the protection manager does with a lock it is asked for.
Lock(L, p, until, s) ==
  IF Locked(L, p, until, s) THEN L
  ELSE L \cup {[pair |-> p, until |-> NextDate(until), side |-> s]}

LastAt(C) == Max({c.at : c \in C})

\* StoplossGuard._stoploss_guard, for the trades of a pair; with "*", for all.
Guard(L, C, p, s, t) ==
  LET stops == {c \in C : c.stop /\ p \in {c.pair, "*"} /\ c.at > t - Lookback /\ (PerSide => c.side = s)}
  IN  IF Cardinality(stops) < GuardLimit THEN L
      ELSE Lock(L, p, LastAt(stops) + GuardStop, IF PerSide THEN s ELSE "*")

\* CooldownPeriod._cooldown_period
CooldownLock(L, C, p, t) ==
  LET recent == {c \in C : c.pair = p /\ c.at > t - Lookback}
  IN  IF recent = {} THEN L ELSE Lock(L, p, LastAt(recent) + Cooldown, "*")

\* Mutant: nothing stops the other pairs.
NoGlobalStop(L, C, x, t) == Guard(CooldownLock(L, C, x.pair, t), C, x.pair, x.side, t)

\* run_protections: stop_per_pair, then global_stop.
Protections(L, C, x, t) ==
  LET perPair == Guard(CooldownLock(L, C, x.pair, t), C, x.pair, x.side, t)
  IN  IF protected THEN Guard(perPair, C, "*", x.side, t) ELSE L

(***************************************************************************)
(* Trades and orders.                                                      *)
(***************************************************************************)

Order(kind, amount) == [kind |-> kind, amount |-> amount]
HasOrder(x, kind)   == \E o \in Range(x.orders) : o.kind = kind

Updated(x) == (open \ {Trade(x.id)}) \cup {x}

Keep(x) == open' = Updated(x) /\ UNCHANGED <<count, closed, locks>>

\* remove_bt_trade
RemoveTrade(x) ==
  /\ open' = open \ {Trade(x.id)} /\ count' = count - 1

\* Trade.close, close_bt_trade and the protections.
Close(x, t) ==
  /\ RemoveTrade(x)
  /\ closed' = closed \cup {[id |-> x.id, pair |-> x.pair, side |-> x.side,
                              stop |-> x.stop, from |-> x.from, at |-> t]}
  /\ locks' = Protections(locks, closed', x, t)

\* Mutant: the open orders stay.
Beside(x, o) == [x EXCEPT !.orders = Append(@, o)]

\* A new order; handle_similar_order has removed the others.
WithOrder(x, o) == [x EXCEPT !.orders = <<o>>]

\* close_bt_order and recalc_trade_from_orders
Filled(x, o) ==
  [x EXCEPT !.amount  = IF o.kind = "entry" THEN @ + o.amount ELSE @ - o.amount,
            !.entries = IF o.kind = "entry" THEN @ + 1 ELSE @,
            !.orders  = RemoveFirst(@, o)]

\* A new entry order may fill at once.
Entered(x, o) == {WithOrder(x, o), Filled(WithOrder(x, o), o)}

\* _enter_trade for a trade there is already: the stake, confirm_trade_entry or
\* a similar order may be in the way.
EnterMore(x, o) == {x} \cup Entered(x, o)

\* _exit_trade, where a similar order stays.
ExitTrade(x, o) == {WithOrder(x, o)} \cup (IF o \in Range(x.orders) THEN {x} ELSE {})

\* _process_exit_order, for an order that fills.
ExitFills(x, o, t) ==
  \/ o.amount = x.amount /\ Close(x, t)
  \/ /\ o.amount # x.amount
     /\ open' = Updated(Filled(x, o))
     /\ locks' = Protections(locks, closed, x, t) /\ UNCHANGED <<count, closed>>

(***************************************************************************)
(* The candles and pairs (time_pair_generator).                            *)
(***************************************************************************)

IsFirst == now % Details = 0

\* The next one in new_pairlist.
IsNext(p) == p \in DOMAIN queue /\ \A q \in DOMAIN queue : queue[p] <= queue[q]

Rest(p) == [q \in DOMAIN queue \ {p} |-> queue[q]]

NextTime ==
  /\ pc = "next" /\ DOMAIN queue = {}
  /\ IF now = Candles * Details - 1
     THEN pc' = "end" /\ UNCHANGED clock
     ELSE /\ now' = now + 1 /\ queue' = PairQueue /\ UNCHANGED pc
          /\ IF now' % Details = 0
             THEN skip' = {x.pair : x \in open} /\ cached' = <<>>
             ELSE UNCHANGED <<skip, cached>>
  /\ UNCHANGED <<config, trades, pass, todo, nextId>>

\* Mutant: the pairs with open trades are not remembered.
PassedNoDetails(p) == ~ IsFirst /\ p \notin DOMAIN cached

\* Rows a pair has none of, details that were not cached, and pairs whose trade
\* closed in this main candle.
Passed(p) ==
  \/ ~ IsFirst /\ p \notin DOMAIN cached
  \/ p \in skip /\ OfPair(p) = {}

PassPair(p) ==
  /\ pc = "next" /\ IsNext(p) /\ (IsFirst \/ Passed(p))
  /\ queue' = Rest(p)
  /\ UNCHANGED <<config, now, skip, cached, trades, pc, pass, todo, nextId>>

BeginPass(p) ==
  /\ pc' = "manage" /\ todo' = Ids(OfPair(p))
  /\ exiting' = IF stacking \/ OfPair(p) = {} THEN "none" ELSE Oldest(OfPair(p)).side

\* The signal of the row, or the cached one unless it has expired
\* (ignore_expired_candle).  The pair's details are cached if anything may happen.
VisitPair(p) ==
  /\ pc = "next" /\ IsNext(p) /\ ~ Passed(p)
  /\ dir' \in IF IsFirst THEN Sides \cup {"none"} ELSE {cached[p], "none"}
  /\ cached' = IF IsFirst /\ (dir' # "none" \/ OfPair(p) # {})
               THEN [q \in DOMAIN cached \cup {p} |-> IF q = p THEN dir' ELSE cached[q]]
               ELSE cached
  /\ skip' = IF OfPair(p) # {} THEN skip \cup {p} ELSE skip
  /\ pair' = p /\ second' = FALSE /\ BeginPass(p) /\ queue' = Rest(p)
  /\ UNCHANGED <<config, now, trades, nextId>>

(***************************************************************************)
(* backtest_loop.                                                          *)
(***************************************************************************)

\* The trade that the loop is at.
Current == Min(todo)
IsOpen  == \E x \in open : x.id = Current

\* The loop goes on with the next trade, or with what comes after the trades.
Go(here, after) ==
  /\ todo' = todo \ {Current}
  /\ pc' = IF todo' = {} THEN after ELSE here

\* 1. manage_open_orders.  A timeout or adjust_order_price ends an order, and
\* the trade with it if nothing was ever bought; a replacement may fail.
ManageOrders ==
  /\ pc = "manage"
  /\ IF todo = {} THEN pc' = "enter" /\ UNCHANGED <<trades, todo>>
     ELSE LET x == Trade(Current)
              without(o) == [x EXCEPT !.orders = RemoveFirst(@, o)]
          IN
          /\ Go("manage", "enter")
          /\ \/ Keep(x)
             \/ \E o \in Range(x.orders) :
                  \E y \in {without(o)} \cup (IF o.kind = "entry" THEN EnterMore(without(o), o)
                                             ELSE ExitTrade(without(o), o)) :
                    IF o.kind = "entry" /\ y.orders = <<>> /\ y.entries = 0
                    THEN RemoveTrade(x) /\ UNCHANGED <<closed, locks>>
                    ELSE Keep(y)
  /\ UNCHANGED <<config, clock, pass, nextId>>

\* Mutant: one trade too many.
SlotForOneMore == count <= MaxOpenTrades

\* trade_slot_available
SlotAvailable == count < MaxOpenTrades

MayEnter ==
  /\ now # EndDate /\ dir # "none"
  /\ stacking \/ OfPair(pair) = {}
  /\ ~ Locked(locks, pair, now, dir) /\ SlotAvailable

\* 2. A new trade.
NewTrade ==
  [id |-> nextId, pair |-> pair, side |-> dir, amount |-> 0, entries |-> 0,
   orders |-> <<>>, stop |-> FALSE, from |-> now]

EnterTrade ==
  /\ pc = "enter" /\ MayEnter
  /\ \E x \in Entered(NewTrade, Order("entry", 1)) :
       open' = open \cup {x} /\ todo' = Ids(OfPair(pair)) \cup {nextId}
  /\ count' = count + 1 /\ nextId' = nextId + 1 /\ pc' = "fill"
  /\ UNCHANGED <<config, clock, closed, locks, pass>>

\* Nothing allows it, or the stake or confirm_trade_entry refuses.
EnterNothing ==
  /\ pc = "enter" /\ todo' = Ids(OfPair(pair)) /\ pc' = IF todo' = {} THEN "done" ELSE "fill"
  /\ UNCHANGED <<config, clock, trades, pass, nextId>>

\* 3. The entry order may fill.
FillEntry ==
  /\ pc = "fill" /\ pc' = "adjust"
  /\ LET x == Trade(Current) IN
     \/ Keep(x)
     \/ \E o \in Range(x.orders) : o.kind = "entry" /\ Keep(Filled(x, o))
  /\ UNCHANGED <<config, clock, pass, todo, nextId>>

\* 4. _check_adjust_trade_for_candle: more is bought, or a part is sold, all of
\* it perhaps.  The order for that may fill at once.
AdjustTrade ==
  /\ pc = "adjust" /\ pc' = "exit"
  /\ LET x == Trade(Current) IN
     \/ Keep(x)
     \/ /\ x.amount > 0 /\ x.entries < MaxEntries
        /\ \E y \in EnterMore(x, Order("entry", 1)) : Keep(y)
     \/ /\ MaxEntries > 1
        /\ \E a \in 1 .. x.amount : \E y \in ExitTrade(x, Order("exit", a)) :
             LET z == [y EXCEPT !.stop = FALSE] IN Keep(z) \/ ExitFills(z, Order("exit", a), now)
  /\ UNCHANGED <<config, clock, pass, todo, nextId>>

\* _check_trade_exit: a signal, the stoploss or the ROI places an exit order.
PlaceExit ==
  /\ pc = "exit" /\ pc' = "exits"
  /\ UNCHANGED <<config, clock, pass, todo, nextId>>
  /\ IF ~ IsOpen THEN UNCHANGED trades
     ELSE LET x == Trade(Current) IN
          \/ Keep(x)
          \/ /\ x.amount > 0
             /\ \E y \in ExitTrade(x, Order("exit", x.amount)), stop \in BOOLEAN :
                  Keep([y EXCEPT !.stop = stop])

\* 5. The exit order may fill.
FillExit ==
  /\ pc = "exits" /\ Go("fill", "done")
  /\ IF ~ IsOpen THEN UNCHANGED trades
     ELSE LET x == Trade(Current) IN
          \/ Keep(x)
          \/ \E o \in Range(x.orders) : o.kind = "exit" /\ ExitFills(x, o, now)
  /\ UNCHANGED <<config, clock, pass, nextId>>

\* A position that was closed may be entered in the other direction at once.
EndPass ==
  /\ pc = "done"
  /\ IF /\ CanShort /\ ~ second /\ dir # "none"
        /\ exiting \notin {"none", dir} /\ OfPair(pair) = {}
     THEN second' = TRUE /\ BeginPass(pair) /\ UNCHANGED <<pair, dir>>
     ELSE pc' = "next" /\ UNCHANGED <<pass, todo>>
  /\ UNCHANGED <<config, clock, trades, nextId>>

\* handle_left_open, at the open price of the last row.  The pairs come in the
\* order of a dictionary.
LeftOpen(p) ==
  /\ pc = "end" /\ OfPair(p) # {}
  /\ LET x == Oldest(OfPair(p)) IN
     IF x.amount = 0 THEN RemoveTrade(x) /\ UNCHANGED <<closed, locks>>
     ELSE \E y \in ExitTrade(x, Order("exit", x.amount)) :
            ExitFills([y EXCEPT !.stop = FALSE], y.orders[Len(y.orders)], EndDate)
  /\ UNCHANGED <<config, clock, pc, pass, todo, nextId>>

Next ==
  \/ NextTime
  \/ \E p \in Pairs : PassPair(p)
  \/ \E p \in Pairs : VisitPair(p)
  \/ ManageOrders
  \/ EnterTrade
  \/ EnterNothing
  \/ FillEntry
  \/ AdjustTrade
  \/ PlaceExit
  \/ FillExit
  \/ EndPass
  \/ \E p \in Pairs : LeftOpen(p)

Spec == Init /\ [][Next]_vars

(***************************************************************************)
(* Properties.                                                             *)
(***************************************************************************)

TradeType ==
  [id : Nat, pair : Pairs, side : Sides, amount : 0 .. MaxEntries, entries : 0 .. MaxEntries,
   orders : Seq([kind : {"entry", "exit"}, amount : 1 .. MaxEntries]), stop : BOOLEAN, from : Nat]

TypeOK ==
  /\ {stacking, protected, second} \subseteq BOOLEAN
  /\ now \in 0 .. Candles * Details - 1 /\ count \in Nat /\ nextId \in Nat
  /\ skip \cup DOMAIN queue \cup DOMAIN cached \cup {pair} \subseteq Pairs
  /\ open \subseteq TradeType /\ {dir, exiting} \subseteq Sides \cup {"none"}
  /\ pc \in {"next", "manage", "enter", "fill", "adjust", "exit", "exits", "done", "end"}

\* A trade has one open order at most ("there can't be multiple open entry
\* orders at any given time", check_order_replace), no exit order sells more than
\* there is, and a trade that holds nothing is waiting for an entry: otherwise it
\* would keep its slot for the rest of the backtest.
OneOrderThatFits ==
  \A x \in open :
    /\ Len(x.orders) <= 1
    /\ \A o \in Range(x.orders) : o.kind = "exit" => o.amount <= x.amount
    /\ x.amount = 0 => HasOrder(x, "entry")

\* bt_open_open_trade_count stands for the list of open trades: with it, the
\* backtester implements the promise of max_open_trades.
Open == INSTANCE Slots WITH Limit <- MaxOpenTrades, held <- Ids(open)

KeepsSlots == Open!Spec

\* No trade begins within the cooldown of its pair, nor after stoplosses within
\* the guard's stop duration, however trades of several pairs end, partial exits
\* and locks that are there already come in between.
LocksAreRespected ==
  [][protected /\ nextId' # nextId =>
       \A c \in closed :
         /\ c.pair = pair => now > c.at + Cooldown
         /\ LET stops == {d \in closed : /\ d.stop /\ d.at \in c.at - Lookback + 1 .. c.at
                                         /\ PerSide => c.side = dir /\ d.side = dir}
            IN  c \in stops /\ Cardinality(stops) >= GuardLimit => now > c.at + GuardStop]_vars

\* Without stacking, a pair is not entered while it has a trade, nor again in the
\* main candle its trade ended in, except in the other direction.  A trade that
\* begins and ends within one detail candle is not noticed (time_pair_generator).
OneTradeAtATime ==
  [][~ stacking /\ nextId' # nextId =>
       /\ OfPair(pair) = {}
       /\ \A c \in closed :
            c.pair = pair /\ c.at \div Details = now \div Details /\ c.from < c.at =>
              c.side # dir]_vars

\* "don't open on the last row" (backtest_loop)
NotOnLastRow == [][nextId' # nextId => now < EndDate]_vars
=============================================================================
