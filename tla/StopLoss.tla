------------------------------ MODULE StopLoss ------------------------------
(***************************************************************************)
(* The stop price of one trade, live or in a backtest: where it is set,    *)
(* what moves it (fills, trailing, custom_stoploss, a restart with another *)
(* stoploss), when it is hit and at which price a backtest then sells.     *)
(*                                                                         *)
(* Prices are whole ticks and the price precision is one tick.  A ratio is *)
(* a number of Den-ths.  An entry buys two units, a partial exit sells     *)
(* one; fees and funding are zero.  What custom_stoploss returns, the      *)
(* candles and the fills are choices.                                      *)
(***************************************************************************)
EXTENDS Integers

CONSTANTS
  Prices,          \* ticks a candle, an order or a fill may have
  Den,             \* ratios are k / Den
  Leverages,
  Stoplosses,      \* values `stoploss` of the strategy may have, one per start
  Customs,         \* what custom_stoploss may return, besides None
  UseCustom, AfterFill,             \* values the settings of a run may have: ...
  Trailing, OnlyOffset,             \* ... after_fill: custom_stoploss takes it
  Positives,       \* trailing_stop_positive, 0 for None
  Offset,          \* trailing_stop_positive_offset
  MaxFills         \* bound: filled orders of the trade

ASSUME StopLossAssumption ==
  /\ Prices \subseteq Nat \ {0} /\ Leverages \subseteq Nat \ {0}
  /\ Den \in Nat \ {0}
  /\ Stoplosses \cup Customs \subseteq 1..(Den - 1)
  /\ Positives \subseteq 0..(Den - 1) /\ Offset \in 0..(Den - 1)
  /\ UseCustom \cup AfterFill \cup Trailing \cup OnlyOffset \subseteq BOOLEAN
  /\ MaxFills \in Nat

VARIABLES
  backtest,    \* a backtest, or a live bot
  strategy,    \* custom, after_fill, trailing, positive and only: the settings
  stoploss,    \* `stoploss` of the strategy that is loaded
  candle,      \* the candle; live, the current rate in every field
  trade,
  exit,        \* the exit order placed last, pending while the trade is open
  checked      \* _check_trade_exit has run for this candle

vars == <<backtest, strategy, stoploss, candle, trade, exit, checked>>

None == -1
Sign(short) == IF short THEN -1 ELSE 1

Candles == {c \in [low : Prices, open : Prices, high : Prices] :
              c.low <= c.open /\ c.open <= c.high}
Flat(p) == [low |-> p, open |-> p, high |-> p]

\* What _validate_trailing_stoploss lets through.
Valid(s) == s.trailing => /\ s.only => s.positive # 0
                          /\ s.positive > 0 /\ Offset > 0 => Offset > s.positive

Strategies == {s \in [custom : UseCustom, after_fill : AfterFill, trailing : Trailing,
                      only : OnlyOffset, positive : Positives] : Valid(s)}

\* An exit order: its price is price / unit, candle is the one that led to it,
\* stop and new are history: the stop and whether the trade opened in candle.
NoExit == [type |-> "none", price |-> 0, unit |-> 1, candle |-> Flat(0),
           stop |-> 0, short |-> FALSE, new |-> FALSE, armed |-> FALSE]

\* No trade: the fields of a LocalTrade before anything was set.  num / den is
\* the exact average of the entries, refreshed is history: the stop was last set
\* with allow_refresh.
NoTrade == [active |-> FALSE, short |-> FALSE, leverage |-> 1, open_rate |-> 0,
            num |-> 0, den |-> 1, amount |-> 0, entries |-> 0, fills |-> 0,
            new |-> FALSE, stop_loss |-> 0, stop_loss_pct |-> None,
            initial_stop_loss |-> 0, initial_stop_loss_pct |-> None,
            is_stop_loss_trailing |-> FALSE, refreshed |-> FALSE]

Init ==
  /\ backtest \in BOOLEAN
  /\ strategy \in Strategies
  /\ stoploss \in Stoplosses
  /\ candle \in IF backtest THEN Candles ELSE {Flat(p) : p \in Prices}
  /\ trade = NoTrade
  /\ exit = NoExit
  /\ checked = FALSE

-----------------------------------------------------------------------------
(* LocalTrade *)

\* Rounded away from the loss: up for longs, down for shorts.
StopPrice(t, price, k) ==
  LET unit == Den * t.leverage
  IN IF t.short THEN (price * (unit + k)) \div unit
                ELSE (price * (unit - k) + unit - 1) \div unit

Tighter(t, new) == IF t.short THEN new < t.stop_loss ELSE new > t.stop_loss

SetStop(t, new, k) == [t EXCEPT !.stop_loss = new, !.stop_loss_pct = k]

FirstStop(t, new, k) ==
  [SetStop(t, new, k) EXCEPT !.initial_stop_loss = new,
                             !.initial_stop_loss_pct = k, !.refreshed = FALSE]

MovesStop(t, new, refresh) == refresh \/ Tighter(t, new)

\* adjust_stop_loss
Adjust(t, price, k, refresh) ==
  LET new == StopPrice(t, price, k)
  IN IF t.initial_stop_loss_pct = None THEN FirstStop(t, new, k)
     ELSE IF ~MovesStop(t, new, refresh) THEN t
     ELSE [SetStop(t, new, k) EXCEPT
             !.is_stop_loss_trailing = @ \/ ~refresh, !.refreshed = @ \/ refresh]

\* Rounding the average half up, as the precision of an order price.
Average(t) == (2 * t.num + t.den) \div (2 * t.den)

\* recalc_trade_from_orders, the part that concerns the stop
Recalculate(t) ==
  IF t.amount = 0 THEN t
  ELSE Adjust([t EXCEPT !.open_rate = Average(t)], Average(t), t.stop_loss_pct, FALSE)

Bought(t, p) ==
  [t EXCEPT !.num = @ * t.amount + 2 * p * t.den, !.den = @ * (t.amount + 2),
            !.amount = @ + 2, !.entries = @ + 1, !.fills = @ + 1]

Sold(t) == [t EXCEPT !.amount = @ - 1, !.fills = @ + 1]

\* Mutant: the percentage is reset after the stop was set.
FirstFillUnset(t) ==
  LET u == Adjust(t, t.open_rate, t.stop_loss_pct, FALSE)
  IN IF t.entries = 1
       THEN [u EXCEPT !.initial_stop_loss_pct = None, !.is_stop_loss_trailing = FALSE]
       ELSE u

\* Mutant: the first fill leaves is_stop_loss_trailing alone.
FirstFillStaysTrailing(t) ==
  IF t.entries = 1
    THEN Adjust([t EXCEPT !.initial_stop_loss_pct = None],
                t.open_rate, t.stop_loss_pct, FALSE)
    ELSE Adjust(t, t.open_rate, t.stop_loss_pct, FALSE)

\* close_bt_order for an entry
FirstFill(t) ==
  IF t.entries = 1
    THEN Adjust([t EXCEPT !.initial_stop_loss_pct = None,
                          !.is_stop_loss_trailing = FALSE],
                t.open_rate, t.stop_loss_pct, FALSE)
    ELSE Adjust(t, t.open_rate, t.stop_loss_pct, FALSE)

-----------------------------------------------------------------------------
(* ft_stoploss_adjust of the strategy *)

Profit(t, rate) == Sign(t.short) * (rate - t.open_rate) * t.leverage * Den
AtOffset(t)  == Offset * t.open_rate

\* The value the trailing stop uses; 0 if it is not to be updated.
TrailingValue(t, bound, value) ==
  IF strategy.only /\ Profit(t, bound) < AtOffset(t) THEN 0
  ELSE IF strategy.positive # 0 /\ Profit(t, bound) > AtOffset(t)
    THEN strategy.positive
  ELSE value

\* c is the candle, or flat at the rate where the code passes neither low nor
\* high; answer is what custom_stoploss returns, 0 for None.
StoplossAdjust(t, c, answer, after_fill) ==
  LET ahead   == IF t.short THEN t.stop_loss > c.high ELSE t.stop_loss < c.low
      bound   == IF t.short THEN c.low ELSE c.high
      custom  == strategy.custom /\ answer # 0
      t1      == IF custom THEN Adjust(t, bound, answer, after_fill) ELSE t
      value   == TrailingValue(t1, bound, IF custom THEN answer ELSE stoploss)
  IN IF ~ahead \/ (after_fill /\ ~strategy.after_fill) THEN t
     ELSE IF strategy.trailing /\ value # 0 THEN Adjust(t1, bound, value, FALSE)
     ELSE t1

Answers == IF strategy.custom THEN Customs \cup {0} ELSE {0}

-----------------------------------------------------------------------------
(* Exits *)

\* Where the trade is liquidated, 0 for no liquidation.
Liquidation(t) == IF t.leverage = 1 /\ ~t.short THEN 0
                  ELSE IF t.short THEN t.open_rate + t.open_rate \div t.leverage
                  ELSE t.open_rate - t.open_rate \div t.leverage

Hit(t, price, c) == IF t.short THEN price <= c.high ELSE price >= c.low

\* ft_stoploss_reached after it has adjusted the stop
ExitType(t, c) ==
  IF Hit(t, t.stop_loss, c)
    THEN IF t.is_stop_loss_trailing THEN "trailing_stop_loss" ELSE "stop_loss"
  ELSE IF Liquidation(t) # 0 /\ Hit(t, Liquidation(t), c) THEN "liquidation"
  ELSE "none"

\* The opening candle triggers the trailing stop, which was armed at the offset.
Armed(t, type) ==
  /\ type = "trailing_stop_loss" /\ t.new
  /\ ~strategy.custom /\ strategy.trailing /\ strategy.only /\ strategy.positive # 0

\* Mutant: every stop order is filled at the stop.
NeverSkipped(t, stop, c) == FALSE

\* The candle never reached the stop from the right side.
Skipped(t, stop, c) == IF t.short THEN stop < c.low ELSE stop > c.high

\* _get_close_rate_for_stoploss, in units of Den * leverage to the tick
CloseRate(t, type, c) ==
  LET unit == Den * t.leverage
      stop == IF type = "liquidation" THEN Liquidation(t) ELSE t.stop_loss
      rate == IF Armed(t, type)
                THEN c.open * (unit + Sign(t.short) * (Offset * t.leverage - strategy.positive))
                ELSE c.open * (unit - Sign(t.short) * t.stop_loss_pct)
      worst == IF t.short THEN IF rate < c.high * unit THEN rate ELSE c.high * unit
                          ELSE IF rate > c.low * unit THEN rate ELSE c.low * unit
  IN IF Skipped(t, stop, c) THEN c.open * unit
     ELSE IF type = "trailing_stop_loss" /\ t.new THEN worst
     ELSE stop * unit

\* Live the order asks for the current rate.
ExitOrder(t, type, c) ==
  [type |-> type,
   price |-> IF backtest THEN CloseRate(t, type, c) ELSE c.open * Den * t.leverage,
   unit |-> Den * t.leverage, candle |-> c, stop |-> t.stop_loss,
   short |-> t.short, new |-> t.new, armed |-> Armed(t, type)]

InCandle(e, c) == c.low * e.unit <= e.price /\ e.price <= c.high * e.unit

-----------------------------------------------------------------------------
(* What happens to the trade *)

\* execute_entry, _enter_trade: a new trade; its stop comes from the rate asked for.
Enter(p, short, lev) ==
  /\ ~trade.active
  /\ LET t == [NoTrade EXCEPT !.active = TRUE, !.short = short, !.leverage = lev,
                              !.open_rate = p, !.new = TRUE]
     IN trade' = Adjust(t, p, stoploss, FALSE)
  /\ exit' = NoExit
  /\ UNCHANGED <<backtest, strategy, stoploss, candle, checked>>

\* An entry fills at p.  now: in the candle that placed it, so that _enter_trade
\* ends with another recalc_trade_from_orders.
BacktestEntryFill(p, answer, now) ==
  /\ backtest /\ ~checked
  /\ candle.low <= p /\ p <= candle.high
  /\ LET filled   == FirstFill(Recalculate(Bought(trade, p)))
         adjusted == StoplossAdjust(filled, Flat(p), answer, TRUE)
     IN trade' = IF now THEN Recalculate(adjusted) ELSE adjusted

\* update_trade, then _update_trade_after_fill, which asks custom_stoploss at the
\* rate of that moment.
LiveFill(filled, answer) ==
  LET t == Recalculate(filled)
  IN trade' = IF strategy.custom THEN StoplossAdjust(t, candle, answer, TRUE) ELSE t

LiveEntryFill(p, answer) == ~backtest /\ LiveFill(Bought(trade, p), answer)

EntryFill ==
  /\ trade.active /\ trade.fills < MaxFills
  /\ \E p \in Prices, answer \in Answers, now \in BOOLEAN :
       BacktestEntryFill(p, answer, now) \/ LiveEntryFill(p, answer)
  /\ UNCHANGED <<backtest, strategy, stoploss, candle, exit, checked>>

\* A part of the position is sold.  A backtest asks custom_stoploss first, and
\* recalculates the trade last.
PartialExitFill ==
  /\ trade.amount > 1 /\ trade.fills < MaxFills
  /\ \E answer \in Answers :
       \/ /\ backtest /\ ~checked
          /\ \E p \in {q \in Prices : candle.low <= q /\ q <= candle.high} :
               trade' = Recalculate(Sold(StoplossAdjust(trade, Flat(p), answer, TRUE)))
       \/ ~backtest /\ LiveFill(Sold(trade), answer)
  /\ UNCHANGED <<backtest, strategy, stoploss, candle, exit, checked>>

\* The trade ends with exit order e, or e waits for a later candle.
Settle(t, e) ==
  /\ exit' = e
  /\ trade' = IF e # NoExit /\ InCandle(e, candle) THEN NoTrade ELSE t

\* should_exit and what follows: an exit at the open by signal or ROI, the stop,
\* or no order (nothing hit, or confirm_trade_exit declines).
CheckExit ==
  /\ trade.amount > 0
  /\ backtest => ~checked
  /\ checked' = backtest
  /\ \E answer \in Answers :
       LET t    == StoplossAdjust(trade, candle, answer, FALSE)
           type == ExitType(t, candle)
       IN \/ Settle(t, exit)
          \/ Settle(t, [ExitOrder(t, "exit_signal", candle) EXCEPT
                          !.price = candle.open * Den * t.leverage])
          \/ type # "none" /\ Settle(t, ExitOrder(t, type, candle))
  /\ UNCHANGED <<backtest, strategy, stoploss, candle>>

\* A pending exit order times out.
CancelExit ==
  /\ trade.active /\ exit # NoExit
  /\ exit' = NoExit
  /\ UNCHANGED <<backtest, strategy, stoploss, candle, trade, checked>>

\* The entry order is cancelled before it filled.
CancelEntry ==
  /\ trade.active /\ trade.fills = 0
  /\ trade' = NoTrade
  /\ UNCHANGED <<backtest, strategy, stoploss, candle, exit, checked>>

\* The next candle, or another rate.  backtest_loop checks every position first.
NextCandle ==
  /\ backtest /\ trade.amount > 0 => checked
  /\ candle' \in IF backtest THEN Candles ELSE {Flat(p) : p \in Prices}
  /\ trade' = [trade EXCEPT !.new = FALSE]
  /\ checked' = FALSE
  /\ UNCHANGED <<backtest, strategy, stoploss, exit>>

\* Mutant: trades that trailed are reset too.
KeepsStopUnlessChanged(t, desired) == t.initial_stop_loss_pct = desired

\* stoploss_reinitialization leaves this trade alone.
KeepsStop(t, desired) == t.is_stop_loss_trailing \/ t.initial_stop_loss_pct = desired

\* The bot starts again, perhaps with another stoploss.
Restart ==
  /\ ~backtest
  /\ \E desired \in Stoplosses :
       /\ stoploss' = desired
       /\ trade' = IF ~trade.active \/ KeepsStop(trade, desired) THEN trade
                   ELSE Adjust([trade EXCEPT !.stop_loss = 0,
                                             !.initial_stop_loss_pct = None],
                               trade.open_rate, desired, FALSE)
  /\ UNCHANGED <<backtest, strategy, candle, exit, checked>>

Open == \E p \in Prices, short \in BOOLEAN, lev \in Leverages : Enter(p, short, lev)

Next == \/ Open
        \/ EntryFill
        \/ PartialExitFill
        \/ CheckExit
        \/ CancelExit
        \/ CancelEntry
        \/ NextCandle
        \/ Restart

Spec == Init /\ [][Next]_vars

-----------------------------------------------------------------------------
(* Properties *)

Ratios == 1..(Den - 1)

Fields ==
  [active : BOOLEAN, short : BOOLEAN, leverage : Nat \ {0}, open_rate : Int,
   num : Int, den : Nat \ {0}, amount : Nat, entries : Nat, fills : Nat,
   new : BOOLEAN, stop_loss : Int, stop_loss_pct : Ratios \cup {None},
   initial_stop_loss : Int, initial_stop_loss_pct : Ratios \cup {None},
   is_stop_loss_trailing : BOOLEAN, refreshed : BOOLEAN]

\* The stop of an open trade is set, with its percentages.
Trades == {t \in Fields :
             /\ t.active => t.stop_loss_pct # None /\ t.initial_stop_loss_pct # None
             /\ t.amount > 0 => t.active}

TypeOK ==
  /\ backtest \in BOOLEAN /\ checked \in BOOLEAN
  /\ strategy \in Strategies /\ stoploss \in Stoplosses
  /\ candle \in [low : Prices, open : Prices, high : Prices]
  /\ trade \in Trades

\* is_stop_loss_trailing, which names the reason of an exit and keeps a restart
\* from resetting the stop, says whether the stop has moved since it was first
\* set, whatever fills, trailing and restarts came in between; only a stop that
\* custom_stoploss moved after a fill is outside this.
TrailingMeansMoved ==
  trade.active /\ ~trade.refreshed =>
    (trade.is_stop_loss_trailing <=> trade.stop_loss # trade.initial_stop_loss)

\* The order that sells a stopped position asks for a price the candle had, so
\* that it fills in the candle that hit the stop.  The candle that opened the
\* trade and armed a trailing offset is another matter.
StopSellsInCandle == exit # NoExit /\ ~exit.armed => InCandle(exit, exit.candle)

\* A fill of a trade at which custom_stoploss may move the stop either way.
Refreshing == strategy.custom /\ strategy.after_fill /\ trade'.fills # trade.fills

\* The first fill in a backtest, and a restart as long as nothing trailed.
Resetting == \/ trade.entries = 0
             \/ stoploss' # stoploss /\ ~trade.is_stop_loss_trailing

\* While a trade is open its stop moves to the side that protects more, over every
\* order of fills, averages, trailing, custom values and restarts.
StopOnlyTightens ==
  [][trade.active /\ trade'.active /\ ~Refreshing /\ ~Resetting =>
       IF trade.short THEN trade'.stop_loss <= trade.stop_loss
                      ELSE trade'.stop_loss >= trade.stop_loss]_vars

\* "Stoploss is still calculated from the initial opening price, not averaged
\* price": another fill leaves the stop where it is.
StopFromOpening ==
  [][trade.active /\ trade.entries > 0 /\ ~strategy.custom /\ trade'.fills > trade.fills =>
       trade'.stop_loss = trade.stop_loss]_vars
=============================================================================
