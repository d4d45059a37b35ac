--------------------------- MODULE StopLossProofs ---------------------------
(***************************************************************************)
(* For every set of prices, leverages, ratios and settings: the fields of  *)
(* a trade stay typed, the stop of an open trade is set, and it only moves *)
(* to the side that protects more.                                         *)
(***************************************************************************)
EXTENDS StopLoss, TLAPS

\* u differs from t at most in what adjust_stop_loss writes.
Same(t, u) ==
  /\ u.active = t.active /\ u.short = t.short /\ u.leverage = t.leverage
  /\ u.amount = t.amount /\ u.entries = t.entries /\ u.fills = t.fills

Tightened(t, u) == IF t.short THEN u.stop_loss <= t.stop_loss
                              ELSE u.stop_loss >= t.stop_loss

\* A stop that was set keeps its first percentage, and has trailed once it did.
Keeps(t, u) ==
  /\ u.initial_stop_loss_pct = t.initial_stop_loss_pct
  /\ t.is_stop_loss_trailing => u.is_stop_loss_trailing

\* A stop that was not refreshed is where it was first, or has trailed and
\* protects more than the first.
Moved(t) ==
  \/ t.refreshed
  \/ ~t.is_stop_loss_trailing /\ t.stop_loss = t.initial_stop_loss
  \/ /\ t.is_stop_loss_trailing
     /\ IF t.short THEN t.stop_loss < t.initial_stop_loss
                   ELSE t.stop_loss > t.initial_stop_loss

-----------------------------------------------------------------------------
\* The unit of a price ratio is positive.
LEMMA UnitPositive ==
  ASSUME NEW t \in Fields
  PROVE  Den * t.leverage \in Nat \ {0}
<1>1. Den \in Nat /\ Den > 0 BY StopLossAssumption
<1>2. t.leverage \in Nat /\ t.leverage > 0 BY DEF Fields
<1>3. \A a, b \in Nat : a > 0 /\ b > 0 => a * b \in Nat /\ a * b > 0 BY SMT
<1> QED BY <1>1, <1>2, <1>3

\* A stop price is a whole number of ticks.
LEMMA StopPriceType ==
  ASSUME NEW t \in Fields, NEW price \in Int, NEW k \in Int
  PROVE  StopPrice(t, price, k) \in Int
<1> DEFINE unit == Den * t.leverage
<1>1. unit \in Nat \ {0} BY UnitPositive
<1> HIDE DEF unit
<1>2. price * (unit + k) \in Int /\ price * (unit - k) + unit - 1 \in Int BY <1>1
<1>3. \A a \in Int : a \div unit \in Int BY <1>1
<1>4. (price * (unit + k)) \div unit \in Int
  BY <1>2, <1>3
<1>5. (price * (unit - k) + unit - 1) \div unit \in Int
  BY <1>2, <1>3
<1> QED BY <1>4, <1>5 DEF StopPrice, unit

\* adjust_stop_loss types its result, leaves the stop set, and moves a stop that
\* was set only to the side that protects more unless it may refresh it.
LEMMA AdjustFacts ==
  ASSUME NEW t \in Fields, NEW price \in Int, NEW k \in Ratios, NEW refresh \in BOOLEAN
  PROVE  /\ Adjust(t, price, k, refresh) \in Fields
         /\ Same(t, Adjust(t, price, k, refresh))
         /\ Adjust(t, price, k, refresh).initial_stop_loss_pct # None
         /\ t.stop_loss_pct # None \/ t.initial_stop_loss_pct = None
              => Adjust(t, price, k, refresh).stop_loss_pct # None
         /\ t.initial_stop_loss_pct # None => Keeps(t, Adjust(t, price, k, refresh))
         /\ t.initial_stop_loss_pct = None =>
              /\ Adjust(t, price, k, refresh).initial_stop_loss_pct = k
              /\ Adjust(t, price, k, refresh).is_stop_loss_trailing = t.is_stop_loss_trailing
              /\ ~t.is_stop_loss_trailing => Moved(Adjust(t, price, k, refresh))
         /\ t.initial_stop_loss_pct # None /\ Moved(t) => Moved(Adjust(t, price, k, refresh))
         /\ t.initial_stop_loss_pct # None /\ ~refresh
              => Tightened(t, Adjust(t, price, k, refresh))
<1> DEFINE new == StopPrice(t, price, k)
           u   == Adjust(t, price, k, refresh)
<1>1. k \in Int /\ k # None BY StopLossAssumption DEF Ratios, None
<1>2. new \in Int BY <1>1, StopPriceType
<1> HIDE DEF new
<1>3. u = IF t.initial_stop_loss_pct = None THEN FirstStop(t, new, k)
          ELSE IF ~MovesStop(t, new, refresh) THEN t
          ELSE [SetStop(t, new, k) EXCEPT
                  !.is_stop_loss_trailing = @ \/ ~refresh, !.refreshed = @ \/ refresh]
  BY DEF Adjust, new
<1> HIDE DEF u
<1>4. CASE t.initial_stop_loss_pct = None
  <2>1. u = FirstStop(t, new, k) BY <1>3, <1>4
  <2>2. /\ u \in Fields /\ Same(t, u) /\ u.stop_loss_pct = k /\ u.initial_stop_loss_pct = k
        /\ u.is_stop_loss_trailing = t.is_stop_loss_trailing
        /\ u.stop_loss = u.initial_stop_loss
    BY <1>2, <2>1 DEF FirstStop, SetStop, Fields, Same
  <2>3. ~t.is_stop_loss_trailing => Moved(u) BY <2>2 DEF Moved
  <2> QED BY <1>1, <1>4, <2>2, <2>3 DEF u
<1>5. CASE t.initial_stop_loss_pct # None /\ ~MovesStop(t, new, refresh)
  <2>1. u = t BY <1>3, <1>5
  <2> QED BY <2>1, <1>5 DEF Same, Keeps, Tightened, Fields, u
<1>6. CASE t.initial_stop_loss_pct # None /\ MovesStop(t, new, refresh)
  <2>1. u = [SetStop(t, new, k) EXCEPT
               !.is_stop_loss_trailing = @ \/ ~refresh, !.refreshed = @ \/ refresh]
    BY <1>3, <1>6
  <2>2. /\ u \in Fields /\ Same(t, u) /\ u.stop_loss = new /\ u.stop_loss_pct = k
        /\ Keeps(t, u)
    BY <1>1, <1>2, <2>1 DEF SetStop, Fields, Same, Keeps
  <2>3. ~refresh => Tightened(t, u)
    BY <1>2, <1>6, <2>2 DEF MovesStop, Tighter, Tightened, Fields
  <2>4. Moved(t) => Moved(u)
    <3>1. CASE refresh
      <4>1. u.refreshed BY <2>1, <3>1 DEF SetStop, Fields
      <4> QED BY <4>1 DEF Moved
    <3>2. CASE ~refresh
      <4>1. /\ u.is_stop_loss_trailing /\ u.refreshed = t.refreshed /\ u.short = t.short
            /\ u.initial_stop_loss = t.initial_stop_loss
        BY <2>1, <3>2 DEF SetStop, Fields
      <4>2. IF t.short THEN new < t.stop_loss ELSE new > t.stop_loss
        BY <1>6, <3>2 DEF MovesStop, Tighter
      <4>3. t.stop_loss \in Int /\ t.initial_stop_loss \in Int BY DEF Fields
      <4> QED BY <1>2, <2>2, <4>1, <4>2, <4>3 DEF Moved
    <3> QED BY <3>1, <3>2
  <2> QED BY <1>1, <1>6, <2>2, <2>3, <2>4 DEF u, Keeps
<1> QED BY <1>4, <1>5, <1>6

-----------------------------------------------------------------------------
\* A stop moves twice to the protecting side.
LEMMA TightenedTwice ==
  ASSUME NEW t \in Fields, NEW u \in Fields, NEW v \in Fields,
         Same(t, u), Tightened(t, u), Tightened(u, v)
  PROVE  Tightened(t, v)
BY DEF Fields, Same, Tightened

\* The trailing stop uses a ratio, or none.
LEMMA TrailingValueType ==
  ASSUME NEW t, NEW bound, NEW value \in Ratios, strategy \in Strategies
  PROVE  TrailingValue(t, bound, value) \in Ratios \cup {0}
<1>1. strategy.positive \in 0..(Den - 1) BY StopLossAssumption DEF Strategies
<1>2. strategy.positive # 0 => strategy.positive \in Ratios
  BY <1>1, StopLossAssumption DEF Ratios
<1>3. \/ TrailingValue(t, bound, value) = 0
      \/ TrailingValue(t, bound, value) = value
      \/ strategy.positive # 0 /\ TrailingValue(t, bound, value) = strategy.positive
  BY Zenon DEF TrailingValue
<1>4. TrailingValue(t, bound, value) = value =>
        TrailingValue(t, bound, value) \in Ratios \cup {0}
  OBVIOUS
<1> QED BY Zenon, <1>2, <1>3, <1>4

\* What a candle gives to the stop is a price.
LEMMA BoundType ==
  ASSUME NEW c \in [low : Prices, open : Prices, high : Prices]
  PROVE  c.low \in Int /\ c.high \in Int /\ c.open \in Int
<1>1. c.low \in Prices /\ c.high \in Prices /\ c.open \in Prices OBVIOUS
<1>2. Prices \subseteq Int BY StopLossAssumption
<1> QED BY <1>1, <1>2

\* ft_stoploss_adjust keeps an open trade typed; only custom_stoploss after a
\* fill may move its stop to the other side.
LEMMA StoplossAdjustFacts ==
  ASSUME TypeOK, NEW t \in Trades, t.active,
         NEW c \in [low : Prices, open : Prices, high : Prices],
         NEW answer \in Answers, NEW after_fill \in BOOLEAN
  PROVE  LET u == StoplossAdjust(t, c, answer, after_fill)
         IN /\ u \in Trades /\ Same(t, u) /\ Keeps(t, u)
            /\ Moved(t) => Moved(u)
            /\ ~(strategy.custom /\ strategy.after_fill /\ after_fill) => Tightened(t, u)
<1> DEFINE ahead  == IF t.short THEN t.stop_loss > c.high ELSE t.stop_loss < c.low
           bound  == IF t.short THEN c.low ELSE c.high
           custom == strategy.custom /\ answer # 0
           t1     == IF custom THEN Adjust(t, bound, answer, after_fill) ELSE t
           base   == IF custom THEN answer ELSE stoploss
           value  == TrailingValue(t1, bound, base)
           v      == Adjust(t1, bound, value, FALSE)
           u      == StoplossAdjust(t, c, answer, after_fill)
<1>1. bound \in Int BY BoundType
<1>2. custom => answer \in Ratios
  BY StopLossAssumption DEF Answers, Ratios
<1>3. stoploss \in Ratios BY StopLossAssumption DEF TypeOK, Ratios
<1>4. strategy \in Strategies BY DEF TypeOK
<1>5. /\ t \in Fields /\ t.stop_loss_pct # None /\ t.initial_stop_loss_pct # None
      /\ Same(t, t) /\ Keeps(t, t) /\ Tightened(t, t)
  BY DEF Trades, Fields, Same, Keeps, Tightened
<1>6. base \in Ratios BY <1>2, <1>3
<1>7. value \in Ratios \cup {0} BY <1>4, <1>6, TrailingValueType
<1>8. u = IF ~ahead \/ (after_fill /\ ~strategy.after_fill) THEN t
          ELSE IF strategy.trailing /\ value # 0 THEN v ELSE t1
  BY DEF StoplossAdjust
<1> HIDE DEF u, value, base, ahead, bound
<1>9. /\ t1 \in Fields /\ Same(t, t1) /\ Keeps(t, t1)
      /\ t1.stop_loss_pct # None /\ t1.initial_stop_loss_pct # None
      /\ ~(strategy.custom /\ after_fill) => Tightened(t, t1)
      /\ Moved(t) => Moved(t1)
  <2>1. CASE custom
    BY <1>1, <1>2, <1>5, <2>1, AdjustFacts
  <2>2. CASE ~custom
    BY <1>5, <2>2
  <2> QED BY <2>1, <2>2
<1> HIDE DEF t1
<1>10. value # 0 =>
         /\ v \in Fields /\ Same(t1, v) /\ Keeps(t1, v) /\ Tightened(t1, v)
         /\ v.stop_loss_pct # None /\ v.initial_stop_loss_pct # None
         /\ Moved(t1) => Moved(v)
  BY <1>1, <1>7, <1>9, AdjustFacts
<1> HIDE DEF v
<1>11. value # 0 => Same(t, v) /\ Keeps(t, v) BY <1>9, <1>10 DEF Same, Keeps
<1>12. value # 0 /\ ~(strategy.custom /\ after_fill) => Tightened(t, v)
  BY <1>5, <1>9, <1>10, TightenedTwice
<1>13. /\ u \in Fields /\ Same(t, u) /\ Keeps(t, u)
       /\ u.stop_loss_pct # None /\ u.initial_stop_loss_pct # None
       /\ ~(strategy.custom /\ strategy.after_fill /\ after_fill) => Tightened(t, u)
       /\ Moved(t) => Moved(u)
  <2>1. CASE ~ahead \/ (after_fill /\ ~strategy.after_fill)
    BY <1>5, <1>8, <2>1
  <2>2. CASE ahead /\ ~(after_fill /\ ~strategy.after_fill)
              /\ strategy.trailing /\ value # 0
    BY <1>8, <1>9, <1>10, <1>11, <1>12, <2>2
  <2>3. CASE ahead /\ ~(after_fill /\ ~strategy.after_fill)
              /\ ~(strategy.trailing /\ value # 0)
    BY <1>8, <1>9, <2>3
  <2> QED BY <2>1, <2>2, <2>3
<1>14. u.amount > 0 => u.active BY <1>13 DEF Same
<1> QED BY <1>13, <1>14 DEF Trades, u

-----------------------------------------------------------------------------
\* recalc_trade_from_orders of an open trade only tightens its stop.
LEMMA RecalculateFacts ==
  ASSUME NEW t \in Trades, t.active
  PROVE  /\ Recalculate(t) \in Trades /\ Same(t, Recalculate(t))
         /\ Keeps(t, Recalculate(t)) /\ Tightened(t, Recalculate(t))
         /\ Moved(t) => Moved(Recalculate(t))
<1> DEFINE avg == Average(t)
           t0  == [t EXCEPT !.open_rate = avg]
           u   == Adjust(t0, avg, t.stop_loss_pct, FALSE)
<1>1. /\ t \in Fields /\ t.stop_loss_pct \in Ratios /\ t.initial_stop_loss_pct # None
      /\ Same(t, t) /\ Keeps(t, t) /\ Tightened(t, t)
  BY DEF Trades, Fields, Same, Keeps, Tightened
<1>2. avg \in Int
  <2>1. t.num \in Int /\ t.den \in Nat \ {0} BY <1>1 DEF Fields
  <2>2. 2 * t.num + t.den \in Int /\ 2 * t.den \in Nat \ {0} BY <2>1
  <2>3. \A a \in Int, b \in Nat \ {0} : a \div b \in Int BY SMT
  <2> QED BY <2>2, <2>3 DEF Average
<1> HIDE DEF avg
<1>3. /\ t0 \in Fields /\ Same(t, t0) /\ Keeps(t, t0) /\ t0.stop_loss = t.stop_loss
      /\ t0.stop_loss_pct # None /\ t0.initial_stop_loss_pct # None
      /\ Moved(t) => Moved(t0)
  <2>1. t0 \in Fields BY <1>1, <1>2 DEF Fields
  <2>2. /\ t0.stop_loss = t.stop_loss /\ t0.stop_loss_pct = t.stop_loss_pct
        /\ t0.initial_stop_loss_pct = t.initial_stop_loss_pct
    BY <1>1 DEF Fields
  <2>3. Same(t, t0) /\ Keeps(t, t0) BY <1>1 DEF Fields, Same, Keeps
  <2>4. t.stop_loss_pct # None BY DEF Trades
  <2>5. Moved(t) => Moved(t0) BY <1>1 DEF Fields, Moved
  <2> QED BY <1>1, <2>1, <2>2, <2>3, <2>4, <2>5
<1> HIDE DEF t0
<1>4. /\ u \in Fields /\ Same(t0, u) /\ Keeps(t0, u) /\ Tightened(t0, u)
      /\ Moved(t0) => Moved(u)
      /\ u.stop_loss_pct # None /\ u.initial_stop_loss_pct # None
  BY <1>1, <1>2, <1>3, AdjustFacts
<1> HIDE DEF u
<1>5. Same(t, u) /\ Keeps(t, u) /\ Tightened(t, u)
  BY <1>3, <1>4 DEF Same, Keeps, Tightened
<1>6. u \in Trades BY <1>1, <1>4, <1>5 DEF Trades, Same
<1>7. Recalculate(t) = IF t.amount = 0 THEN t ELSE u BY DEF Recalculate, avg, t0, u
<1> QED BY <1>1, <1>3, <1>4, <1>5, <1>6, <1>7

\* The fill of an entry types the trade; past the first entry it only tightens.
LEMMA FirstFillFacts ==
  ASSUME NEW t \in Trades, t.active
  PROVE  /\ FirstFill(t) \in Trades /\ Same(t, FirstFill(t))
         /\ t.entries # 1 => Tightened(t, FirstFill(t))
         /\ Moved(t) => Moved(FirstFill(t))
<1> DEFINE t0 == [t EXCEPT !.initial_stop_loss_pct = None, !.is_stop_loss_trailing = FALSE]
           u  == Adjust(t0, t.open_rate, t.stop_loss_pct, FALSE)
           v  == Adjust(t, t.open_rate, t.stop_loss_pct, FALSE)
<1>1. /\ t \in Fields /\ t.stop_loss_pct \in Ratios /\ t.initial_stop_loss_pct # None
      /\ t.stop_loss_pct # None /\ t.open_rate \in Int
  BY DEF Trades, Fields
<1>2. /\ t0 \in Fields /\ Same(t, t0) /\ t0.initial_stop_loss_pct = None
      /\ ~t0.is_stop_loss_trailing
  BY <1>1 DEF Fields, Same
<1>3. FirstFill(t) = IF t.entries = 1 THEN u ELSE v BY <1>1 DEF FirstFill, Fields
<1> HIDE DEF t0
<1>4. u \in Fields /\ Same(t0, u) /\ u.stop_loss_pct # None /\ u.initial_stop_loss_pct # None
      /\ Moved(u)
  BY <1>1, <1>2, AdjustFacts
<1>5. /\ v \in Fields /\ Same(t, v) /\ Tightened(t, v) /\ (Moved(t) => Moved(v))
      /\ v.stop_loss_pct # None /\ v.initial_stop_loss_pct # None
  BY <1>1, AdjustFacts
<1> HIDE DEF u, v
<1>6. Same(t, u) BY <1>2, <1>4 DEF Same
<1>7. u \in Trades /\ v \in Trades BY <1>4, <1>5, <1>6 DEF Trades, Same
<1> QED BY <1>3, <1>4, <1>5, <1>6, <1>7

\* Another entry leaves the stop alone until the trade is recalculated.
LEMMA BoughtFacts ==
  ASSUME NEW t \in Trades, t.active, NEW p \in Prices
  PROVE  /\ Bought(t, p) \in Trades /\ Bought(t, p).active
         /\ Keeps(t, Bought(t, p)) /\ (Moved(t) => Moved(Bought(t, p)))
         /\ Bought(t, p).short = t.short /\ Bought(t, p).stop_loss = t.stop_loss
         /\ Bought(t, p).entries = t.entries + 1 /\ Bought(t, p).fills = t.fills + 1
<1> DEFINE num == t.num * t.amount + 2 * p * t.den
           den == t.den * (t.amount + 2)
<1>1. p \in Int BY StopLossAssumption
<1>2. /\ t \in Fields /\ t.num \in Int /\ t.den \in Nat \ {0} /\ t.amount \in Nat
      /\ t.entries \in Nat /\ t.fills \in Nat
  BY DEF Trades, Fields
<1>3. num \in Int BY <1>1, <1>2
<1>4. den \in Nat \ {0}
  <2>1. \A a, b \in Nat : a > 0 /\ b > 0 => a * b \in Nat /\ a * b > 0 BY SMT
  <2>2. t.den \in Nat /\ t.den > 0 /\ t.amount + 2 \in Nat /\ t.amount + 2 > 0 BY <1>2
  <2>3. t.den * (t.amount + 2) \in Nat /\ t.den * (t.amount + 2) > 0 BY <2>1, <2>2
  <2> QED BY <2>3
<1>5. Bought(t, p) = [t EXCEPT !.num = num, !.den = den, !.amount = t.amount + 2,
                               !.entries = t.entries + 1, !.fills = t.fills + 1]
  BY <1>2 DEF Bought, Fields
<1> HIDE DEF num, den
<1>6. t.amount + 2 \in Nat /\ t.entries + 1 \in Nat /\ t.fills + 1 \in Nat BY <1>2
<1>7. Bought(t, p) \in Fields BY <1>2, <1>3, <1>4, <1>5, <1>6 DEF Fields
<1>8. /\ Bought(t, p).active = t.active
      /\ Bought(t, p).is_stop_loss_trailing = t.is_stop_loss_trailing
      /\ Bought(t, p).stop_loss_pct = t.stop_loss_pct
      /\ Bought(t, p).initial_stop_loss_pct = t.initial_stop_loss_pct
      /\ Bought(t, p).short = t.short /\ Bought(t, p).stop_loss = t.stop_loss
      /\ Bought(t, p).entries = t.entries + 1 /\ Bought(t, p).fills = t.fills + 1
      /\ Bought(t, p).initial_stop_loss = t.initial_stop_loss
      /\ Bought(t, p).refreshed = t.refreshed
  BY <1>2, <1>5 DEF Fields
<1> QED BY <1>7, <1>8 DEF Trades, Keeps, Moved

\* A part of the position that is sold leaves the stop alone.
LEMMA SoldFacts ==
  ASSUME NEW t \in Trades, t.amount > 1
  PROVE  /\ Sold(t) \in Trades /\ Sold(t).active /\ Sold(t).entries = t.entries
         /\ Sold(t).short = t.short /\ Sold(t).stop_loss = t.stop_loss
         /\ Sold(t).fills = t.fills + 1 /\ Keeps(t, Sold(t)) /\ (Moved(t) => Moved(Sold(t)))
<1>1. t \in Fields /\ t.amount \in Nat /\ t.fills \in Nat /\ t.active BY DEF Trades, Fields
<1>2. t.amount - 1 \in Nat /\ t.fills + 1 \in Nat BY <1>1
<1>3. Sold(t) \in Fields BY <1>1, <1>2 DEF Sold, Fields
<1>4. /\ Sold(t).stop_loss_pct = t.stop_loss_pct
      /\ Sold(t).initial_stop_loss_pct = t.initial_stop_loss_pct
      /\ Sold(t).active = t.active /\ Sold(t).entries = t.entries
      /\ Sold(t).short = t.short /\ Sold(t).stop_loss = t.stop_loss
      /\ Sold(t).fills = t.fills + 1 /\ Sold(t).is_stop_loss_trailing = t.is_stop_loss_trailing
      /\ Sold(t).initial_stop_loss = t.initial_stop_loss /\ Sold(t).refreshed = t.refreshed
  BY <1>1 DEF Sold, Fields
<1> QED BY <1>1, <1>3, <1>4 DEF Trades, Keeps, Moved

-----------------------------------------------------------------------------
\* A live trade that has not trailed carries the stoploss of the strategy, so a
\* restart resets the stop only if that stoploss changes.
InitialIsStoploss ==
  ~backtest /\ trade.active /\ ~trade.is_stop_loss_trailing =>
    trade.initial_stop_loss_pct = stoploss

\* Where the stop of an open trade is.
StopIsFirstOrMoved == trade.active => Moved(trade)

IInv == TypeOK /\ InitialIsStoploss /\ StopIsFirstOrMoved

\* One step of StopOnlyTightens.
OnlyTightens ==
  trade.active /\ trade'.active /\ ~Refreshing /\ ~Resetting => Tightened(trade, trade')

\* NoTrade is typed, and nothing of it is set.
LEMMA NoTradeType ==
  /\ NoTrade \in Trades /\ NoTrade \in Fields
  /\ NoTrade.active = FALSE /\ NoTrade.amount = 0
  /\ NoTrade.initial_stop_loss_pct = None /\ NoTrade.is_stop_loss_trailing = FALSE
<1>1. NoTrade \in Fields BY DEF NoTrade, Fields, None
<1>2. /\ NoTrade.active = FALSE /\ NoTrade.amount = 0
      /\ NoTrade.initial_stop_loss_pct = None /\ NoTrade.is_stop_loss_trailing = FALSE
  BY DEF NoTrade
<1> QED BY <1>1, <1>2 DEF Trades

\* The first state has no trade.
LEMMA InitIInv == ASSUME Init PROVE IInv
<1>1. candle \in [low : Prices, open : Prices, high : Prices]
  BY DEF Init, Candles, Flat
<1>2. trade \in Trades /\ trade.active = FALSE
  BY NoTradeType DEF Init
<1> QED BY <1>1, <1>2 DEF Init, IInv, TypeOK, InitialIsStoploss, StopIsFirstOrMoved

\* A step that leaves the settings and the stop of the trade alone.
LEMMA QuietStep ==
  ASSUME IInv, UNCHANGED <<backtest, strategy, stoploss>>,
         candle' \in [low : Prices, open : Prices, high : Prices], checked' \in BOOLEAN,
         trade' \in Trades,
         trade'.active => trade.active /\ Keeps(trade, trade') /\ Moved(trade'),
         OnlyTightens
  PROVE  IInv' /\ OnlyTightens
<1>1. TypeOK' BY DEF IInv, TypeOK
<1>2. InitialIsStoploss' BY DEF IInv, InitialIsStoploss, Keeps
<1>3. StopIsFirstOrMoved' BY DEF StopIsFirstOrMoved, Moved
<1> QED BY <1>1, <1>2, <1>3 DEF IInv

\* A new trade gets the stoploss of the strategy.
LEMMA EnterStep ==
  ASSUME IInv, NEW p \in Prices, NEW short \in BOOLEAN, NEW lev \in Leverages,
         Enter(p, short, lev)
  PROVE  IInv' /\ OnlyTightens
<1> DEFINE t == [NoTrade EXCEPT !.active = TRUE, !.short = short, !.leverage = lev,
                                !.open_rate = p, !.new = TRUE]
<1>1. p \in Int /\ lev \in Nat \ {0} /\ stoploss \in Ratios
  BY StopLossAssumption DEF IInv, TypeOK, Ratios
<1>2. /\ t \in Fields /\ t.initial_stop_loss_pct = None /\ t.active /\ t.amount = 0
      /\ t.is_stop_loss_trailing = FALSE
  BY <1>1, NoTradeType DEF Fields
<1>3. trade' = Adjust(t, p, stoploss, FALSE) /\ ~trade.active BY DEF Enter
<1> HIDE DEF t
<1>4. /\ trade' \in Fields /\ Same(t, trade')
      /\ trade'.stop_loss_pct # None /\ trade'.initial_stop_loss_pct = stoploss
      /\ trade'.initial_stop_loss_pct # None /\ Moved(trade')
  BY <1>1, <1>2, <1>3, AdjustFacts
<1>5. trade' \in Trades BY <1>2, <1>4 DEF Trades, Same
<1>6. TypeOK' BY <1>5 DEF Enter, IInv, TypeOK
<1>7. InitialIsStoploss' BY <1>4 DEF Enter, InitialIsStoploss
<1>8. StopIsFirstOrMoved' BY <1>4 DEF StopIsFirstOrMoved, Moved
<1> QED BY <1>3, <1>6, <1>7, <1>8 DEF IInv, OnlyTightens

\* Candles and single prices have the type of a candle.
LEMMA CandleTypes ==
  /\ \A p \in Prices : Flat(p) \in [low : Prices, open : Prices, high : Prices]
  /\ Candles \subseteq [low : Prices, open : Prices, high : Prices]
BY DEF Flat, Candles

\* An entry that fills: past the first entry of a backtest, and without a refresh,
\* the stop only tightens.
LEMMA BacktestEntryFillStep ==
  ASSUME IInv, trade.active, NEW p \in Prices, NEW answer \in Answers,
         NEW now \in BOOLEAN, BacktestEntryFill(p, answer, now)
  PROVE  /\ trade' \in Trades /\ trade'.active /\ backtest
         /\ Moved(trade') /\ OnlyTightens
<1> DEFINE t1 == Bought(trade, p)
           t2 == Recalculate(t1)
           t3 == FirstFill(t2)
           t4 == StoplossAdjust(t3, Flat(p), answer, TRUE)
           t5 == Recalculate(t4)
<1>0. trade \in Trades /\ TypeOK /\ trade.entries \in Nat /\ trade.fills \in Nat
  BY DEF IInv, TypeOK, Trades, Fields
<1>15. Moved(trade) BY DEF IInv, StopIsFirstOrMoved
<1>1. /\ t1 \in Trades /\ t1.active /\ t1.short = trade.short /\ Moved(t1)
      /\ t1.stop_loss = trade.stop_loss /\ t1.entries = trade.entries + 1
      /\ t1.fills = trade.fills + 1
  BY <1>0, <1>15, BoughtFacts
<1> HIDE DEF t1
<1>2. t2 \in Trades /\ Same(t1, t2) /\ Tightened(t1, t2) /\ Moved(t2)
  BY <1>1, RecalculateFacts
<1> HIDE DEF t2
<1>3. t2.active /\ t2.entries = trade.entries + 1 BY <1>1, <1>2 DEF Same
<1>4. /\ t3 \in Trades /\ Same(t2, t3) /\ Moved(t3)
      /\ trade.entries # 0 => Tightened(t2, t3)
  BY <1>0, <1>2, <1>3, FirstFillFacts
<1> HIDE DEF t3
<1>5. t3.active BY <1>3, <1>4 DEF Same
<1>6. Flat(p) \in [low : Prices, open : Prices, high : Prices] BY CandleTypes
<1>7. /\ t4 \in Trades /\ Same(t3, t4) /\ Moved(t4)
      /\ ~(strategy.custom /\ strategy.after_fill) => Tightened(t3, t4)
  BY <1>0, <1>4, <1>5, <1>6, StoplossAdjustFacts
<1> HIDE DEF t4
<1>8. t4.active BY <1>5, <1>7 DEF Same
<1>9. t5 \in Trades /\ Same(t4, t5) /\ Tightened(t4, t5) /\ Moved(t5)
  BY <1>7, <1>8, RecalculateFacts
<1> HIDE DEF t5
<1>10. backtest /\ trade' = IF now THEN t5 ELSE t4
  BY DEF BacktestEntryFill, t1, t2, t3, t4, t5
<1>11. trade' \in Trades /\ Same(t1, trade')
  BY <1>2, <1>4, <1>7, <1>9, <1>10 DEF Same
<1>12. trade.entries # 0 /\ ~(strategy.custom /\ strategy.after_fill)
         => Tightened(trade, trade')
  <2> SUFFICES ASSUME trade.entries # 0, ~(strategy.custom /\ strategy.after_fill)
               PROVE  Tightened(trade, trade')
    OBVIOUS
  <2>1. Tightened(t1, t2) /\ Tightened(t2, t3) /\ Tightened(t3, t4) /\ Tightened(t4, t5)
    BY <1>2, <1>4, <1>7, <1>9
  <2>2. Tightened(t4, trade') BY <1>7, <1>9, <1>10, <2>1 DEF Tightened, Trades, Fields
  <2>3. /\ t1.short = trade.short /\ t2.short = trade.short /\ t3.short = trade.short
        /\ t4.short = trade.short
    BY <1>1, <1>2, <1>4, <1>7 DEF Same
  <2>4. {trade.stop_loss, t1.stop_loss, t2.stop_loss, t3.stop_loss, t4.stop_loss,
         trade'.stop_loss} \subseteq Int
    BY <1>0, <1>1, <1>2, <1>4, <1>7, <1>11 DEF Trades, Fields
  <2> QED BY <1>1, <2>1, <2>2, <2>3, <2>4 DEF Tightened
<1>13. trade'.fills # trade.fills BY <1>0, <1>1, <1>11 DEF Same
<1>14. trade'.active /\ Moved(trade') BY <1>1, <1>7, <1>9, <1>10, <1>11 DEF Same
<1> QED BY <1>10, <1>11, <1>12, <1>13, <1>14 DEF OnlyTightens, Refreshing, Resetting

\* A fill of a live trade, entry or part of an exit.
LEMMA LiveFillStep ==
  ASSUME IInv, NEW t \in Trades, t.active, t.short = trade.short,
         t.stop_loss = trade.stop_loss, t.fills # trade.fills, Keeps(trade, t), Moved(t),
         NEW answer \in Answers, LiveFill(t, answer)
  PROVE  trade' \in Trades /\ trade'.active /\ Keeps(trade, trade') /\ Moved(trade')
         /\ OnlyTightens
<1> DEFINE t1 == Recalculate(t)
           t2 == StoplossAdjust(t1, candle, answer, TRUE)
<1>0. /\ trade \in Trades /\ TypeOK
      /\ candle \in [low : Prices, open : Prices, high : Prices]
  BY DEF IInv, TypeOK
<1>1. t1 \in Trades /\ Same(t, t1) /\ Keeps(t, t1) /\ Tightened(t, t1) /\ Moved(t1)
  BY RecalculateFacts
<1> HIDE DEF t1
<1>2. t1.active BY <1>1 DEF Same
<1>3. /\ t2 \in Trades /\ Same(t1, t2) /\ Keeps(t1, t2) /\ Moved(t2)
      /\ ~(strategy.custom /\ strategy.after_fill) => Tightened(t1, t2)
  BY <1>0, <1>1, <1>2, StoplossAdjustFacts
<1> HIDE DEF t2
<1>4. trade' = IF strategy.custom THEN t2 ELSE t1 BY DEF LiveFill, t1, t2
<1>5. trade' \in Trades /\ Same(t, trade') /\ Keeps(trade, trade')
  BY <1>1, <1>3, <1>4 DEF Same, Keeps
<1>6. ~(strategy.custom /\ strategy.after_fill) => Tightened(trade, trade')
  BY <1>0, <1>1, <1>3, <1>4 DEF Same, Tightened, Trades, Fields
<1>7. trade'.fills # trade.fills /\ trade'.active /\ Moved(trade')
  BY <1>1, <1>3, <1>4, <1>5 DEF Same
<1> QED BY <1>5, <1>6, <1>7 DEF OnlyTightens, Refreshing

\* EntryFill, in a backtest and live.
LEMMA EntryFillStep == ASSUME IInv, EntryFill PROVE IInv' /\ OnlyTightens
<1>1. PICK p \in Prices, answer \in Answers, now \in BOOLEAN :
        BacktestEntryFill(p, answer, now) \/ LiveEntryFill(p, answer)
  BY DEF EntryFill
<1>2. trade.active /\ UNCHANGED <<backtest, strategy, stoploss, candle, exit, checked>>
  BY DEF EntryFill
<1>3. CASE BacktestEntryFill(p, answer, now)
  <2>1. trade' \in Trades /\ backtest /\ Moved(trade') /\ OnlyTightens
    BY <1>2, <1>3, BacktestEntryFillStep
  <2>2. StopIsFirstOrMoved' BY <2>1 DEF StopIsFirstOrMoved, Moved
  <2> QED BY <1>2, <2>1, <2>2 DEF IInv, TypeOK, InitialIsStoploss
<1>4. CASE LiveEntryFill(p, answer)
  <2> DEFINE t == Bought(trade, p)
  <2>1. trade \in Trades /\ trade.fills \in Nat BY DEF IInv, TypeOK, Trades, Fields
  <2>2. /\ t \in Trades /\ t.active /\ t.short = trade.short
        /\ t.stop_loss = trade.stop_loss /\ t.fills # trade.fills /\ Keeps(trade, t) /\ Moved(t)
    BY <1>2, <2>1, BoughtFacts DEF IInv, StopIsFirstOrMoved
  <2>3. LiveFill(t, answer) BY <1>4 DEF LiveEntryFill
  <2> HIDE DEF t
  <2>4. trade' \in Trades /\ Keeps(trade, trade') /\ Moved(trade') /\ OnlyTightens
    BY <2>2, <2>3, LiveFillStep
  <2> QED BY <1>2, <2>4, QuietStep DEF IInv, TypeOK
<1> QED BY <1>1, <1>3, <1>4

\* PartialExitFill: in a backtest the stop may be refreshed first, and the trade
\* is recalculated last.
LEMMA PartialExitStep == ASSUME IInv, PartialExitFill PROVE IInv' /\ OnlyTightens
<1>1. PICK answer \in Answers :
        \/ /\ backtest
           /\ \E p \in Prices :
                trade' = Recalculate(Sold(StoplossAdjust(trade, Flat(p), answer, TRUE)))
        \/ LiveFill(Sold(trade), answer)
  BY DEF PartialExitFill
<1>2. trade.amount > 1 /\ UNCHANGED <<backtest, strategy, stoploss, candle, exit, checked>>
  BY DEF PartialExitFill
<1>3. /\ TypeOK /\ trade \in Trades /\ trade.fills \in Nat /\ trade.amount \in Nat
      /\ trade.active /\ Moved(trade)
  BY <1>2 DEF IInv, StopIsFirstOrMoved, TypeOK, Trades, Fields
<1>4. CASE \E p \in Prices :
             trade' = Recalculate(Sold(StoplossAdjust(trade, Flat(p), answer, TRUE)))
  <2>1. PICK p \in Prices :
          trade' = Recalculate(Sold(StoplossAdjust(trade, Flat(p), answer, TRUE)))
    BY <1>4
  <2> DEFINE t1 == StoplossAdjust(trade, Flat(p), answer, TRUE)
             t2 == Sold(t1)
  <2>2. Flat(p) \in [low : Prices, open : Prices, high : Prices] BY CandleTypes
  <2>3. /\ t1 \in Trades /\ Same(trade, t1) /\ Keeps(trade, t1) /\ Moved(t1)
        /\ ~(strategy.custom /\ strategy.after_fill) => Tightened(trade, t1)
    BY <1>3, <2>2, StoplossAdjustFacts
  <2> HIDE DEF t1
  <2>4. t1.amount > 1 BY <1>2, <2>3 DEF Same
  <2>5. /\ t2 \in Trades /\ t2.active /\ t2.short = t1.short
        /\ t2.stop_loss = t1.stop_loss /\ t2.fills = t1.fills + 1 /\ Keeps(t1, t2) /\ Moved(t2)
    BY <2>3, <2>4, SoldFacts
  <2>6. trade' = Recalculate(t2) BY <2>1 DEF t1, t2
  <2> HIDE DEF t2
  <2>7. /\ trade' \in Trades /\ Same(t2, trade') /\ Keeps(t2, trade')
        /\ Tightened(t2, trade') /\ Moved(trade')
    BY <2>5, <2>6, RecalculateFacts
  <2>8. Keeps(trade, trade') BY <2>3, <2>5, <2>7 DEF Keeps
  <2>9. ~(strategy.custom /\ strategy.after_fill) => Tightened(trade, trade')
    BY <1>3, <2>3, <2>5, <2>7 DEF Same, Tightened, Trades, Fields
  <2>10. trade'.fills # trade.fills BY <1>3, <2>3, <2>5, <2>7 DEF Same
  <2>11. OnlyTightens BY <2>9, <2>10 DEF OnlyTightens, Refreshing
  <2> QED BY <1>2, <1>3, <2>7, <2>8, <2>11, QuietStep DEF IInv, TypeOK
<1>5. CASE LiveFill(Sold(trade), answer)
  <2> DEFINE t == Sold(trade)
  <2>1. /\ t \in Trades /\ t.active /\ t.short = trade.short
        /\ t.stop_loss = trade.stop_loss /\ t.fills # trade.fills /\ Keeps(trade, t) /\ Moved(t)
    BY <1>2, <1>3, SoldFacts
  <2>2. LiveFill(t, answer) BY <1>5
  <2> HIDE DEF t
  <2>3. trade' \in Trades /\ Keeps(trade, trade') /\ Moved(trade') /\ OnlyTightens
    BY <2>1, <2>2, LiveFillStep
  <2> QED BY <1>2, <1>3, <2>3, QuietStep DEF IInv, TypeOK
<1> QED BY <1>1, <1>4, <1>5

\* CheckExit moves the stop without a fill, or ends the trade.
LEMMA CheckExitStep == ASSUME IInv, CheckExit PROVE IInv' /\ OnlyTightens
<1>1. PICK answer \in Answers :
        \E e : Settle(StoplossAdjust(trade, candle, answer, FALSE), e)
  BY Zenon DEF CheckExit
<1> DEFINE t == StoplossAdjust(trade, candle, answer, FALSE)
<1>2. trade' = NoTrade \/ trade' = t BY <1>1 DEF Settle
<1>3. /\ trade.amount > 0 /\ UNCHANGED <<backtest, strategy, stoploss, candle>>
      /\ checked' \in BOOLEAN
  BY DEF CheckExit, IInv, TypeOK
<1>4. /\ TypeOK /\ trade \in Trades /\ trade.active /\ Moved(trade)
      /\ candle \in [low : Prices, open : Prices, high : Prices]
  BY <1>3 DEF IInv, StopIsFirstOrMoved, TypeOK, Trades
<1>5. t \in Trades /\ Keeps(trade, t) /\ Tightened(trade, t) /\ Moved(t)
  BY <1>4, StoplossAdjustFacts
<1> HIDE DEF t
<1>6. trade' \in Trades /\ (trade'.active => Keeps(trade, trade') /\ Tightened(trade, trade') /\ Moved(trade'))
  BY <1>2, <1>5, NoTradeType
<1>7. OnlyTightens BY <1>6 DEF OnlyTightens
<1> QED BY <1>3, <1>4, <1>6, <1>7, QuietStep

\* An order that is cancelled, the next candle, and a step of nothing.
LEMMA OtherSteps ==
  ASSUME IInv, CancelExit \/ CancelEntry \/ NextCandle \/ UNCHANGED vars
  PROVE  IInv' /\ OnlyTightens
<1>1. /\ UNCHANGED <<backtest, strategy, stoploss>> /\ checked' \in BOOLEAN
      /\ candle' \in [low : Prices, open : Prices, high : Prices]
  BY CandleTypes DEF IInv, TypeOK, CancelExit, CancelEntry, NextCandle, vars
<1>2. trade \in Trades BY DEF IInv, TypeOK
<1>3. \/ trade' = trade
      \/ trade' = NoTrade
      \/ trade' = [trade EXCEPT !.new = FALSE]
  BY DEF CancelExit, CancelEntry, NextCandle, vars
<1>4. /\ trade' \in Trades
      /\ trade'.active => /\ trade.active /\ Keeps(trade, trade')
                          /\ Tightened(trade, trade') /\ Moved(trade')
  <2>1. CASE trade' = trade
    BY <1>2, <2>1 DEF Keeps, Tightened, Trades, Fields, IInv, StopIsFirstOrMoved, Moved
  <2>2. CASE trade' = NoTrade BY <2>2, NoTradeType
  <2>3. CASE trade' = [trade EXCEPT !.new = FALSE]
    <3>1. trade \in Fields BY <1>2 DEF Trades
    <3>2. trade' \in Fields BY <2>3, <3>1 DEF Fields
    <3>3. /\ trade'.active = trade.active /\ trade'.short = trade.short
          /\ trade'.amount = trade.amount /\ trade'.stop_loss = trade.stop_loss
          /\ trade'.stop_loss_pct = trade.stop_loss_pct
          /\ trade'.initial_stop_loss_pct = trade.initial_stop_loss_pct
          /\ trade'.is_stop_loss_trailing = trade.is_stop_loss_trailing
          /\ trade'.initial_stop_loss = trade.initial_stop_loss
          /\ trade'.refreshed = trade.refreshed
      BY <2>3, <3>1 DEF Fields
    <3>4. trade'.stop_loss \in Int /\ trade.stop_loss \in Int BY <3>1, <3>2 DEF Fields
    <3>5. trade'.active => Moved(trade') BY <3>3 DEF IInv, StopIsFirstOrMoved, Moved
    <3> QED BY <1>2, <3>2, <3>3, <3>4, <3>5 DEF Keeps, Tightened, Trades
  <2> QED BY <1>3, <2>1, <2>2, <2>3
<1>5. OnlyTightens BY <1>4 DEF OnlyTightens
<1> QED BY <1>1, <1>4, <1>5, QuietStep

\* A restart resets the stop only of a trade that has not trailed, and only if
\* the stoploss of the strategy has changed.
LEMMA RestartStep == ASSUME IInv, Restart PROVE IInv' /\ OnlyTightens
<1>1. PICK desired \in Stoplosses :
        /\ stoploss' = desired
        /\ trade' = IF ~trade.active \/ KeepsStop(trade, desired) THEN trade
                    ELSE Adjust([trade EXCEPT !.stop_loss = 0,
                                              !.initial_stop_loss_pct = None],
                                trade.open_rate, desired, FALSE)
  BY DEF Restart
<1>2. ~backtest /\ UNCHANGED <<backtest, strategy, candle, exit, checked>>
  BY DEF Restart
<1>3. TypeOK /\ trade \in Trades /\ trade \in Fields BY DEF IInv, TypeOK, Trades
<1>4. CASE ~trade.active \/ KeepsStop(trade, desired)
  <2>1. trade' = trade BY <1>1, <1>4
  <2>2. InitialIsStoploss' BY <1>1, <1>4, <2>1 DEF InitialIsStoploss, KeepsStop
  <2>3. TypeOK' BY <1>1, <1>2, <1>3, <2>1 DEF TypeOK
  <2>4. Tightened(trade, trade') BY <1>3, <2>1 DEF Tightened, Fields
  <2>5. StopIsFirstOrMoved' BY <2>1 DEF IInv, StopIsFirstOrMoved, Moved
  <2> QED BY <2>2, <2>3, <2>4, <2>5 DEF IInv, OnlyTightens
<1>5. CASE trade.active /\ ~KeepsStop(trade, desired)
  <2> DEFINE t == [trade EXCEPT !.stop_loss = 0, !.initial_stop_loss_pct = None]
  <2>1. trade' = Adjust(t, trade.open_rate, desired, FALSE) BY <1>1, <1>5
  <2>2. desired \in Ratios /\ trade.open_rate \in Int
    BY <1>3, StopLossAssumption DEF Ratios, Fields
  <2>3. /\ t \in Fields /\ t.initial_stop_loss_pct = None /\ Same(trade, t)
        /\ ~t.is_stop_loss_trailing
    <3>1. t \in Fields
      <4>1. [trade EXCEPT !.stop_loss = 0] \in Fields BY <1>3 DEF Fields
      <4>2. t = [[trade EXCEPT !.stop_loss = 0] EXCEPT !.initial_stop_loss_pct = None]
        BY <1>3 DEF Fields
      <4> QED BY <4>1, <4>2 DEF Fields
    <3>2. t.initial_stop_loss_pct = None BY <1>3 DEF Fields
    <3>3. Same(trade, t) BY <1>3 DEF Fields, Same
    <3>4. ~t.is_stop_loss_trailing BY <1>3, <1>5 DEF Fields, KeepsStop
    <3> QED BY <3>1, <3>2, <3>3, <3>4
  <2> HIDE DEF t
  <2>4. /\ trade' \in Fields /\ Same(t, trade')
        /\ trade'.stop_loss_pct # None /\ trade'.initial_stop_loss_pct # None
        /\ trade'.initial_stop_loss_pct = desired /\ Moved(trade')
    BY <2>1, <2>2, <2>3, AdjustFacts
  <2>5. trade' \in Trades BY <1>5, <2>3, <2>4 DEF Trades, Same
  <2>6. TypeOK' BY <1>1, <1>2, <1>3, <2>5 DEF TypeOK
  <2>7. InitialIsStoploss' BY <1>1, <2>4 DEF InitialIsStoploss
  <2>8. ~trade.is_stop_loss_trailing /\ trade.initial_stop_loss_pct # desired
    BY <1>5 DEF KeepsStop
  <2>9. Resetting BY <1>1, <1>2, <1>5, <2>8 DEF Resetting, IInv, InitialIsStoploss
  <2>10. StopIsFirstOrMoved' BY <2>4 DEF StopIsFirstOrMoved, Moved
  <2> QED BY <2>6, <2>7, <2>9, <2>10 DEF IInv, OnlyTightens
<1> QED BY <1>4, <1>5

\* Every step keeps the invariant and tightens the stop.
LEMMA NextStep == ASSUME IInv, [Next]_vars PROVE IInv' /\ OnlyTightens
<1>1. CASE Open
  BY <1>1, EnterStep DEF Open
<1>2. CASE EntryFill BY <1>2, EntryFillStep
<1>3. CASE PartialExitFill BY <1>3, PartialExitStep
<1>4. CASE CheckExit BY <1>4, CheckExitStep
<1>5. CASE CancelExit \/ CancelEntry \/ NextCandle \/ UNCHANGED vars
  BY <1>5, OtherSteps
<1>6. CASE Restart BY <1>6, RestartStep
<1> QED BY <1>1, <1>2, <1>3, <1>4, <1>5, <1>6 DEF Next

\* The fields of the trade stay typed, and the stop of an open trade is set.
THEOREM TypeCorrect == Spec => []TypeOK
<1>1. Init => IInv BY InitIInv
<1>2. IInv /\ [Next]_vars => IInv' BY NextStep
<1>3. IInv => TypeOK BY DEF IInv
<1> QED BY <1>1, <1>2, <1>3, PTL DEF Spec

\* is_stop_loss_trailing of a trade says whether its stop has moved since it was
\* first set, unless custom_stoploss refreshed it after a fill.
THEOREM TrailingSaysMoved == Spec => []TrailingMeansMoved
<1>1. Init => IInv BY InitIInv
<1>2. IInv /\ [Next]_vars => IInv' BY NextStep
<1>3. ASSUME IInv PROVE TrailingMeansMoved
  <2> SUFFICES ASSUME trade.active, ~trade.refreshed
               PROVE  trade.is_stop_loss_trailing <=> trade.stop_loss # trade.initial_stop_loss
    BY DEF TrailingMeansMoved
  <2>1. trade.stop_loss \in Int /\ trade.initial_stop_loss \in Int
    BY <1>3 DEF IInv, TypeOK, Trades, Fields
  <2>2. Moved(trade) BY <1>3 DEF IInv, StopIsFirstOrMoved
  <2> QED BY <2>1, <2>2 DEF Moved
<1> QED BY <1>1, <1>2, <1>3, PTL DEF Spec

\* The stop of an open trade moves only to the side that protects more, except at
\* the first fill, when custom_stoploss takes a fill, and when a trade that has
\* not trailed meets another stoploss at a restart.
THEOREM StopTightens == Spec => StopOnlyTightens
<1>1. Init => IInv BY InitIInv
<1>2. IInv /\ [Next]_vars => IInv' /\ OnlyTightens BY NextStep
<1>3. OnlyTightens =>
        [trade.active /\ trade'.active /\ ~Refreshing /\ ~Resetting =>
           IF trade.short THEN trade'.stop_loss <= trade.stop_loss
                          ELSE trade'.stop_loss >= trade.stop_loss]_vars
  BY DEF OnlyTightens, Tightened
<1> QED BY <1>1, <1>2, <1>3, PTL DEF Spec, StopOnlyTightens

-----------------------------------------------------------------------------
\* The candle is one, and the order that sells a stopped position fits its own.
ExitInv ==
  /\ candle.low <= candle.open /\ candle.open <= candle.high
  /\ StopSellsInCandle

\* The product with a number that is not negative keeps the order.
LEMMA Product ==
  ASSUME NEW a \in Int, NEW b \in Int, NEW n \in Nat, a <= b
  PROVE  a * n \in Int /\ b * n \in Int /\ a * n <= b * n
<1>1. \A x \in Int, y \in Nat : x * y \in Int BY SMT
<1>2. b - a \in Nat OBVIOUS
<1>3. \A x, y \in Nat : x * y >= 0 BY SMT
<1>4. (b - a) * n >= 0 BY <1>2, <1>3
<1>5. b * n = a * n + (b - a) * n BY SMT
<1> QED BY <1>1, <1>2, <1>4, <1>5

\* Where a position is liquidated is a whole number of ticks.
LEMMA LiquidationType ==
  ASSUME NEW t \in Fields
  PROVE  Liquidation(t) \in Int
<1>1. t.open_rate \in Int /\ t.leverage \in Nat \ {0} BY DEF Fields
<1>2. \A a \in Int, b \in Nat \ {0} : a \div b \in Int BY SMT
<1>3. t.open_rate \div t.leverage \in Int BY <1>1, <1>2
<1> QED BY <1>1, <1>3 DEF Liquidation

\* The stop that was hit was not beyond the candle, unless the candle opened
\* behind it; then the order asks for the open.
LEMMA CloseRateFacts ==
  ASSUME NEW t \in Fields, t.stop_loss_pct \in Ratios, NEW c \in [low : Prices, open : Prices, high : Prices],
         c.low <= c.open, c.open <= c.high,
         NEW type \in {"trailing_stop_loss", "stop_loss", "liquidation"}, ExitType(t, c) = type,
         ~Armed(t, type)
  PROVE  /\ c.low * (Den * t.leverage) <= CloseRate(t, type, c)
         /\ CloseRate(t, type, c) <= c.high * (Den * t.leverage)
<1> DEFINE unit  == Den * t.leverage
           stop  == IF type = "liquidation" THEN Liquidation(t) ELSE t.stop_loss
           rate  == c.open * (unit - Sign(t.short) * t.stop_loss_pct)
           worst == IF t.short THEN IF rate < c.high * unit THEN rate ELSE c.high * unit
                               ELSE IF rate > c.low * unit THEN rate ELSE c.low * unit
<1>1. unit \in Nat /\ unit > 0 BY UnitPositive
<1>2. c.low \in Nat /\ c.open \in Nat /\ c.high \in Nat
  BY StopLossAssumption
<1>3. stop \in Int BY LiquidationType DEF Fields
<1>4. t.stop_loss_pct \in Nat BY StopLossAssumption DEF Ratios
<1>5. CloseRate(t, type, c) = IF Skipped(t, stop, c) THEN c.open * unit
                              ELSE IF type = "trailing_stop_loss" /\ t.new THEN worst
                              ELSE stop * unit
  BY DEF CloseRate
<1>6. Hit(t, stop, c)
  <2>1. CASE type = "liquidation" BY <2>1 DEF ExitType
  <2>2. CASE type # "liquidation" BY <2>2 DEF ExitType
  <2> QED BY <2>1, <2>2
<1>7. rate \in Int /\ (IF t.short THEN c.open * unit <= rate ELSE rate <= c.open * unit)
  <2>1. \A x \in Int, y \in Int : x * y \in Int /\ x * y = y * x BY SMT
  <2>2. CASE t.short
    <3>1. unit - Sign(t.short) * t.stop_loss_pct = unit + t.stop_loss_pct
      BY <1>1, <1>4, <2>2 DEF Sign
    <3>2. unit <= unit + t.stop_loss_pct /\ unit + t.stop_loss_pct \in Int
      BY <1>1, <1>4
    <3>3. unit * c.open <= (unit + t.stop_loss_pct) * c.open
      BY <1>1, <1>2, <3>2, Product
    <3>4. rate = c.open * (unit + t.stop_loss_pct) BY <3>1
    <3> HIDE DEF rate, unit
    <3>5. rate \in Int /\ c.open * unit <= rate
      BY <1>1, <1>2, <2>1, <3>2, <3>3, <3>4
    <3> QED BY <2>2, <3>5
  <2>3. CASE ~t.short
    <3>1. unit - Sign(t.short) * t.stop_loss_pct = unit - t.stop_loss_pct
      BY <1>1, <1>4, <2>3 DEF Sign
    <3>2. unit - t.stop_loss_pct <= unit /\ unit - t.stop_loss_pct \in Int
      BY <1>1, <1>4
    <3>3. (unit - t.stop_loss_pct) * c.open <= unit * c.open
      BY <1>1, <1>2, <3>2, Product
    <3>4. rate = c.open * (unit - t.stop_loss_pct) BY <3>1
    <3> HIDE DEF rate, unit
    <3>5. rate \in Int /\ rate <= c.open * unit
      BY <1>1, <1>2, <2>1, <3>2, <3>3, <3>4
    <3> QED BY <2>3, <3>5
  <2> QED BY <2>2, <2>3
<1> HIDE DEF unit, stop, rate
<1>8. c.low * unit <= c.open * unit /\ c.open * unit <= c.high * unit
      /\ {c.low * unit, c.open * unit, c.high * unit} \subseteq Int
  BY <1>1, <1>2, Product
<1>9. c.low * unit <= worst /\ worst <= c.high * unit
  BY <1>7, <1>8
<1>10. ~Skipped(t, stop, c) => c.low * unit <= stop * unit /\ stop * unit <= c.high * unit
  <2> SUFFICES ASSUME ~Skipped(t, stop, c)
               PROVE  c.low * unit <= stop * unit /\ stop * unit <= c.high * unit
    OBVIOUS
  <2>1. c.low <= stop /\ stop <= c.high
    BY <1>2, <1>3, <1>6 DEF Skipped, Hit
  <2> QED BY <1>1, <1>2, <1>3, <2>1, Product
<1> HIDE DEF worst
<1>11. /\ c.low * unit <= CloseRate(t, type, c)
       /\ CloseRate(t, type, c) <= c.high * unit
  <2>1. CASE Skipped(t, stop, c) BY <1>5, <1>8, <2>1
  <2>2. CASE ~Skipped(t, stop, c) /\ type = "trailing_stop_loss" /\ t.new
    BY <1>5, <1>9, <2>2
  <2>3. CASE ~Skipped(t, stop, c) /\ ~(type = "trailing_stop_loss" /\ t.new)
    BY <1>5, <1>10, <2>3
  <2> QED BY <2>1, <2>2, <2>3
<1> QED BY <1>11 DEF unit

\* Every order CheckExit places asks for a price its candle had, but for the armed.
LEMMA ExitOrderFacts ==
  ASSUME NEW t \in Trades, t.active, NEW c \in [low : Prices, open : Prices, high : Prices],
         c.low <= c.open, c.open <= c.high, NEW type
  PROVE  /\ InCandle([ExitOrder(t, type, c) EXCEPT !.price = c.open * Den * t.leverage], c)
         /\ /\ type # "none" /\ ExitType(t, c) = type /\ ~Armed(t, type)
            => InCandle(ExitOrder(t, type, c), c)
<1>1. t \in Fields /\ t.stop_loss_pct \in Ratios BY DEF Trades, Fields
<1>2. Den * t.leverage \in Nat BY <1>1, UnitPositive
<1>3. c.low \in Nat /\ c.open \in Nat /\ c.high \in Nat BY StopLossAssumption
<1>4. c.open * Den * t.leverage = c.open * (Den * t.leverage)
  <2>1. Den \in Nat /\ t.leverage \in Nat BY <1>1, StopLossAssumption DEF Fields
  <2>2. \A x, y, z \in Nat : x * y * z = x * (y * z) BY SMT
  <2> QED BY <1>3, <2>1, <2>2
<1>5. /\ c.low * (Den * t.leverage) <= c.open * (Den * t.leverage)
      /\ c.open * (Den * t.leverage) <= c.high * (Den * t.leverage)
  BY <1>2, <1>3, Product
<1>6. /\ ExitOrder(t, type, c).unit = Den * t.leverage
      /\ ExitOrder(t, type, c).price =
           IF backtest THEN CloseRate(t, type, c) ELSE c.open * Den * t.leverage
      /\ LET e == [ExitOrder(t, type, c) EXCEPT !.price = c.open * Den * t.leverage]
         IN e.unit = Den * t.leverage /\ e.price = c.open * Den * t.leverage
  BY DEF ExitOrder
<1>7. ASSUME type # "none", ExitType(t, c) = type, ~Armed(t, type)
      PROVE  /\ c.low * (Den * t.leverage) <= CloseRate(t, type, c)
             /\ CloseRate(t, type, c) <= c.high * (Den * t.leverage)
  <2>1. type \in {"trailing_stop_loss", "stop_loss", "liquidation"}
    BY <1>7 DEF ExitType
  <2> QED BY <1>1, <1>7, <2>1, CloseRateFacts
<1> QED BY <1>4, <1>5, <1>6, <1>7 DEF InCandle

\* CheckExit is the step that places an order.
LEMMA CheckExitFits ==
  ASSUME IInv, ExitInv, CheckExit
  PROVE  StopSellsInCandle'
<1>1. PICK answer \in Answers :
        LET t    == StoplossAdjust(trade, candle, answer, FALSE)
            type == ExitType(t, candle)
        IN \/ Settle(t, exit)
           \/ Settle(t, [ExitOrder(t, "exit_signal", candle) EXCEPT
                           !.price = candle.open * Den * t.leverage])
           \/ type # "none" /\ Settle(t, ExitOrder(t, type, candle))
  BY Zenon DEF CheckExit
<1> DEFINE t    == StoplossAdjust(trade, candle, answer, FALSE)
           type == ExitType(t, candle)
<1>2. /\ TypeOK /\ trade \in Trades /\ trade.active
      /\ candle \in [low : Prices, open : Prices, high : Prices]
      /\ candle.low <= candle.open /\ candle.open <= candle.high
  BY DEF CheckExit, IInv, TypeOK, Trades, ExitInv
<1>3. t \in Trades /\ t.active
  <2>1. t \in Trades /\ Same(trade, t) BY <1>2, StoplossAdjustFacts
  <2> QED BY <1>2, <2>1 DEF Same
<1>4. \/ exit' = exit
      \/ exit' = [ExitOrder(t, "exit_signal", candle) EXCEPT !.price = candle.open * Den * t.leverage]
      \/ type # "none" /\ exit' = ExitOrder(t, type, candle)
  BY <1>1 DEF Settle
<1> HIDE DEF t
<1>5. CASE exit' = exit BY <1>5 DEF ExitInv, StopSellsInCandle, InCandle
<1>6. CASE exit' = [ExitOrder(t, "exit_signal", candle) EXCEPT !.price = candle.open * Den * t.leverage]
  <2>1. InCandle(exit', candle) BY <1>2, <1>3, <1>6, ExitOrderFacts
  <2>2. exit'.candle = candle BY <1>6 DEF ExitOrder
  <2> QED BY <2>1, <2>2 DEF StopSellsInCandle, InCandle
<1>7. CASE type # "none" /\ exit' = ExitOrder(t, type, candle)
  <2>1. exit'.candle = candle /\ exit'.armed = Armed(t, type) BY <1>7 DEF ExitOrder
  <2>2. ~exit'.armed => InCandle(exit', candle)
    BY <1>2, <1>3, <1>7, <2>1, ExitOrderFacts
  <2> QED BY <2>1, <2>2 DEF StopSellsInCandle, InCandle
<1> QED BY <1>4, <1>5, <1>6, <1>7

LEMMA ExitStep == ASSUME IInv, ExitInv, [Next]_vars PROVE ExitInv'
<1>1. candle'.low <= candle'.open /\ candle'.open <= candle'.high
  <2>1. CASE NextCandle
    <3>1. \A p \in Prices : p <= p BY StopLossAssumption
    <3> QED BY <2>1, <3>1 DEF NextCandle, Candles, Flat
  <2>2. CASE UNCHANGED candle BY <2>2 DEF ExitInv
  <2>3. ~NextCandle => UNCHANGED candle
    BY DEF Next, Open, Enter, EntryFill, PartialExitFill, CheckExit, CancelExit,
           CancelEntry, Restart, vars
  <2> QED BY <2>1, <2>2, <2>3
<1>2. StopSellsInCandle'
  <2>1. CASE CheckExit BY <2>1, CheckExitFits
  <2>2. CASE exit' = exit \/ exit' = NoExit
    BY <2>2 DEF ExitInv, StopSellsInCandle, InCandle
  <2>3. ~CheckExit => exit' = exit \/ exit' = NoExit
    BY DEF Next, Open, Enter, EntryFill, PartialExitFill, CancelExit,
           CancelEntry, NextCandle, Restart, vars
  <2> QED BY <2>1, <2>2, <2>3
<1> QED BY <1>1, <1>2 DEF ExitInv

\* The order that sells a stopped position (_get_close_rate_for_stoploss) asks
\* for a price of the candle that hit the stop, the armed trailing stop excepted.
THEOREM StopIsSoldInCandle == Spec => []StopSellsInCandle
<1>1. Init => IInv /\ ExitInv
  <2> SUFFICES ASSUME Init PROVE ExitInv
    BY InitIInv
  <2>1. \A p \in Prices : p <= p BY StopLossAssumption
  <2> QED BY <2>1 DEF Init, ExitInv, Candles, Flat, StopSellsInCandle
<1>2. IInv /\ ExitInv /\ [Next]_vars => IInv' /\ ExitInv' BY NextStep, ExitStep
<1>3. ExitInv => StopSellsInCandle BY DEF ExitInv
<1> QED BY <1>1, <1>2, <1>3, PTL DEF Spec
=============================================================================
