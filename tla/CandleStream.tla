---------------------------- MODULE CandleStream ----------------------------
(***************************************************************************)
(* How candles of one pair reach the strategy: the main thread refreshes   *)
(* the cache `_klines`, from the candles a websocket task has collected if *)
(* they are usable and with a REST request otherwise.  The websocket runs  *)
(* in an event loop of its own thread; the two threads share `watching`,   *)
(* `scheduled` and the collected candles without a lock.                   *)
(*                                                                         *)
(* A candle is its number; its prices are left out, except whether its row *)
(* was received or filled in.  Time goes by half candles: candle c begins  *)
(* at time 2c.                                                             *)
(***************************************************************************)
EXTENDS Integers, FiniteSets, FiniteSetsExt

CONSTANTS
  MaxTime,       \* bound: half candles
  Limit,         \* ohlcv_candle_limit: candles of a REST answer
  Reserve,       \* the 5 of `candle_limit - 5`
  Startup,       \* startup_candle_count
  Troubles,      \* bound: failing requests and connections, daily resets
  Unexpected,    \* the watch may end with an exception that is not ccxt's
  OtherPairs     \* further pairs change the watch set meanwhile

ASSUME CandleAssumption ==
  /\ MaxTime \in Nat \ {0, 1} /\ Limit \in Nat \ {0} /\ Reserve \in 0 .. Limit
  /\ Startup \in Nat /\ Troubles \in Nat
  /\ {Unexpected, OtherPairs} \subseteq BOOLEAN

Candles == 0 .. MaxTime \div 2
Never   == -1

VARIABLES
  now,          \* the clock
  watching,     \* the pair is in _klines_watching
  scheduled,    \* the pair is in _klines_scheduled
  task,         \* _continuously_async_watch_ohlcv, and how it ended
  posted,       \* coroutines handed to the loop: "schedule", "unwatch"
  ws,           \* the candles in the ccxt cache
  wsRefresh,    \* klines_last_refresh, or Never
  lastRequest,  \* klines_last_request, or Never
  klines,       \* the candles of the pair in _klines ...
  filled,       \* ... of which these were filled in
  refreshed,    \* _pairs_last_refresh_time, or Never
  mpc,          \* where the main thread is in refresh_latest_ohlcv
  candleTs,     \* candle_ts passed to get_ohlcv
  seen,         \* _last_candle_seen_per_pair, or Never
  troubles,     \* troubles so far
  gap           \* history: a candle passed in which the cache did not get the
                \* one before, or a refresh failed; and no REST answer came since

socket == <<watching, scheduled, task, posted, ws, wsRefresh>>
cache  == <<klines, filled, refreshed, gap>>
streamVars   == <<now, socket, lastRequest, cache, mpc, candleTs, seen, troubles>>

Tasks == {"none", "await", "leaving", "done", "failing", "failed"}

\* timeframe_to_prev_date
Cur == now \div 2

StreamInit ==
  /\ now = 2
  /\ watching = FALSE /\ scheduled = FALSE /\ task = "none" /\ posted = {}
  /\ ws = {} /\ wsRefresh = Never /\ lastRequest = Never
  /\ klines = {} /\ filled = {} /\ refreshed = Never /\ gap = FALSE
  /\ mpc = "idle" /\ candleTs = 0 /\ seen = Never /\ troubles = 0

\* Time goes on.  Every candle is pushed at least once while it is current,
\* unless the subscription was made too late for that.
Tick ==
  /\ now < MaxTime /\ now' = now + 1
  /\ task = "await" /\ ws # {} /\ now % 2 = 1 => Cur \in ws
  /\ gap' = (gap \/ (now % 2 = 1 /\ Cur - 1 \notin klines))
  /\ UNCHANGED <<socket, lastRequest, klines, filled, refreshed, mpc, candleTs, seen, troubles>>

Trouble == troubles < Troubles /\ troubles' = troubles + 1

(***************************************************************************)
(* The event loop of the websocket.                                        *)
(***************************************************************************)

\* _schedule_while_true.  The watch set may change while it is iterated over:
\* a RuntimeError ends the coroutine, nobody looks at its result.
LoopSchedule ==
  /\ "schedule" \in posted /\ posted' = posted \ {"schedule"}
  /\ \/ /\ IF watching /\ ~ scheduled
           THEN scheduled' = TRUE /\ task' = "await"
           ELSE UNCHANGED <<scheduled, task>>
        /\ UNCHANGED troubles
     \/ OtherPairs /\ Trouble /\ UNCHANGED <<scheduled, task>>
  /\ UNCHANGED <<now, watching, ws, wsRefresh, lastRequest, cache, mpc, candleTs, seen>>

\* watch_ohlcv returns with an update of the current candle, or the last one of
\* the candle before; then the loop asks whether the pair is still watched.
LoopData ==
  /\ task = "await"
  /\ ws' = ws \cup {Cur} \/ (Cur \notin ws /\ Cur - 1 \in ws /\ UNCHANGED ws)
  /\ wsRefresh' = now /\ <<ws', wsRefresh'>> # <<ws, wsRefresh>>
  /\ task' = IF watching THEN "await" ELSE "leaving"
  /\ UNCHANGED <<now, watching, scheduled, posted, lastRequest, cache, mpc, candleTs, seen, troubles>>

\* The connection fails, with an exception of ccxt or another one.
LoopDisconnect ==
  /\ task = "await" /\ Trouble
  /\ task' \in {"leaving"} \cup (IF Unexpected THEN {"failing"} ELSE {})
  /\ UNCHANGED <<now, watching, scheduled, posted, ws, wsRefresh, lastRequest, cache, mpc, candleTs, seen>>

\* `finally` of the task leaves the watch set, whoever added the pair.
LoopFinally ==
  /\ task \in {"leaving", "failing"}
  /\ task' = IF task = "leaving" THEN "done" ELSE "failed"
  /\ watching' = FALSE
  /\ UNCHANGED <<now, scheduled, posted, ws, wsRefresh, lastRequest, cache, mpc, candleTs, seen, troubles>>

\* _continuous_stopped, called by the loop some time after the task has ended;
\* an exception of the task is raised again by task.result().
LoopStopped ==
  /\ task \in {"done", "failed"} /\ task' = "none"
  /\ IF task = "failed" THEN UNCHANGED <<scheduled, posted, ws, wsRefresh>>
     ELSE /\ posted' = posted \cup {"unwatch"}
          /\ scheduled' = FALSE /\ ws' = {} /\ wsRefresh' = Never
  /\ UNCHANGED <<now, watching, lastRequest, cache, mpc, candleTs, seen, troubles>>

\* _unwatch_ohlcv ends whatever subscription there is.
LoopUnwatch ==
  /\ "unwatch" \in posted /\ posted' = posted \ {"unwatch"}
  /\ task' = IF task = "await" THEN "leaving" ELSE task
  /\ UNCHANGED <<now, watching, scheduled, ws, wsRefresh, lastRequest, cache, mpc, candleTs, seen, troubles>>

(***************************************************************************)
(* The main thread.                                                        *)
(***************************************************************************)

\* cleanup_expired, called by schedule_ohlcv of any pair: not requested within
\* the last candle and 20 seconds.
MainExpire ==
  /\ mpc = "idle" /\ watching
  /\ lastRequest # Never /\ now - lastRequest > 2
  /\ watching' = FALSE /\ ws' = {} /\ wsRefresh' = Never
  /\ UNCHANGED <<now, scheduled, task, posted, lastRequest, cache, mpc, candleTs, seen, troubles>>

\* ws_connection_reset, once a day: the main thread waits until the loop has
\* closed all connections and cleared ccxt's cache.
MainReset ==
  /\ mpc = "idle" /\ Trouble
  /\ ws' = {}
  /\ task' = IF task = "await" THEN "leaving" ELSE task
  /\ UNCHANGED <<now, watching, scheduled, posted, wsRefresh, lastRequest, cache, mpc, candleTs, seen>>

\* Mutant: an interval more.
LateToRefresh == refreshed + 2 < Cur

\* _now_is_time_to_refresh
TimeToRefresh == refreshed + 1 < Cur

\* refresh_latest_ohlcv for this pair: the pair is requested from the loop.
MainRequest ==
  /\ mpc = "idle" /\ (klines = {} \/ TimeToRefresh)
  /\ watching' = TRUE /\ lastRequest' = now /\ posted' = posted \cup {"schedule"}
  /\ mpc' = "build"
  /\ UNCHANGED <<now, scheduled, task, ws, wsRefresh, cache, candleTs, seen, troubles>>

\* The condition of _try_build_from_websocket: the candle before is there, or
\* alone, and the last update is not older than half of it.
Usable ==
  /\ ws # {} /\ wsRefresh # Never /\ wsRefresh >= 2 * Cur - 1
  /\ IF Cardinality(ws) > 1 THEN Max(ws) >= Cur - 1 ELSE Max(ws) < Cur

\* Mutant: the cache is used however old it is.
AlwaysOneCall == refreshed # Never

\* One REST answer reaches back to what the cache holds.
OneCallIsEnough == refreshed # Never /\ Cur - (Limit - Reserve) < refreshed

\* _build_coroutine
MainBuild ==
  /\ mpc = "build"
  /\ candleTs' = Cur
  /\ IF klines # {} /\ Usable
     THEN mpc' = "ws" /\ UNCHANGED <<klines, filled>>
     ELSE /\ mpc' = "rest"
          /\ IF OneCallIsEnough THEN UNCHANGED <<klines, filled>>
             ELSE klines' = {} /\ filled' = {}
  /\ UNCHANGED <<now, socket, lastRequest, refreshed, gap, seen, troubles>>

\* Mutant: the last candle is kept.
KeptLast(ticks, drop) == ticks

\* drop_incomplete
Dropped(ticks, drop) == IF drop THEN ticks \ {Max(ticks)} ELSE ticks

\* ticks[idx]: the last candle that is kept, or the only one.
LastRefreshed(ticks, drop) ==
  IF Cardinality(ticks) > 1 THEN Max(Dropped(ticks, drop)) ELSE Max(ticks)

\* clean_ohlcv_dataframe with fill_missing.
Fill(df) == IF df = {} THEN {} ELSE Min(df) .. Max(df)

\* df.tail(n)
LastRows(df, n) == {c \in df : Cardinality({d \in df : d >= c}) <= n}

\* _process_ohlcv_df.  A row that was filled in keeps its open price when the
\* candle is received later.
Process(ticks, drop) ==
  IF ticks = {} THEN UNCHANGED <<klines, filled, refreshed>>
  ELSE LET df   == klines \cup Dropped(ticks, drop)
           kept == IF klines = {} THEN Fill(df) ELSE LastRows(Fill(df), Limit + Startup)
       IN /\ refreshed' = LastRefreshed(ticks, drop)
          /\ klines' = kept
          /\ filled' = (filled \cup (Fill(df) \ df)) \cap kept

\* get_ohlcv: the candles may have changed since they were looked at, or be
\* gone together with klines_last_refresh (a KeyError).
MainTakeWs ==
  /\ mpc = "ws" /\ mpc' = "idle"
  /\ IF wsRefresh = Never THEN gap' = TRUE /\ UNCHANGED <<klines, filled, refreshed>>
     ELSE Process(ws, ws # {} /\ Max(ws) >= candleTs) /\ UNCHANGED gap
  /\ UNCHANGED <<now, socket, lastRequest, candleTs, seen, troubles>>

\* What the exchange answers to fetch_ohlcv.
RestAnswer == {c \in Candles : c <= Cur /\ c > Cur - Limit}

MainRest ==
  /\ mpc = "rest" /\ mpc' = "idle"
  /\ \/ Process(RestAnswer, TRUE) /\ gap' = FALSE /\ UNCHANGED troubles
     \/ Trouble /\ gap' = TRUE /\ UNCHANGED <<klines, filled, refreshed>>
  /\ UNCHANGED <<now, socket, lastRequest, candleTs, seen>>

\* analyze_pair, with process_only_new_candles.
MainAnalyze ==
  /\ mpc = "idle" /\ klines # {} /\ Max(klines) # seen
  /\ seen' = Max(klines)
  /\ UNCHANGED <<now, socket, lastRequest, cache, mpc, candleTs, troubles>>

(***************************************************************************)
(* Specification.                                                          *)
(***************************************************************************)

Loop ==
  \/ LoopSchedule
  \/ LoopData
  \/ LoopFinally
  \/ LoopStopped
  \/ LoopUnwatch

Main ==
  \/ MainRequest
  \/ MainBuild
  \/ MainTakeWs
  \/ MainRest
  \/ MainAnalyze

StreamNext == Tick \/ Loop \/ LoopDisconnect \/ Main \/ MainExpire \/ MainReset

StreamSpec == StreamInit /\ [][StreamNext]_streamVars

\* Both threads go on.  Nothing makes a connection fail.
FairStreamSpec ==
  /\ StreamSpec /\ WF_streamVars(Tick)
  /\ WF_streamVars(LoopSchedule) /\ WF_streamVars(LoopData) /\ WF_streamVars(LoopUnwatch)
  /\ WF_streamVars(LoopFinally \/ LoopStopped)
  /\ WF_streamVars(MainRequest \/ MainBuild \/ MainTakeWs \/ MainRest) /\ WF_streamVars(MainAnalyze)

(***************************************************************************)
(* Properties.                                                             *)
(***************************************************************************)

StreamTypeOK ==
  /\ now \in 0 .. MaxTime
  /\ watching \in BOOLEAN /\ scheduled \in BOOLEAN /\ gap \in BOOLEAN
  /\ task \in Tasks /\ posted \subseteq {"schedule", "unwatch"}
  /\ ws \subseteq Candles /\ klines \subseteq Candles /\ filled \subseteq klines
  /\ wsRefresh \in 0 .. MaxTime \cup {Never} /\ lastRequest \in 0 .. MaxTime \cup {Never}
  /\ refreshed \in Candles \cup {Never} /\ seen \in Candles \cup {Never}
  /\ mpc \in {"idle", "build", "ws", "rest"} /\ candleTs \in Candles
  /\ troubles \in 0 .. Troubles

\* The cache never holds the candle that is still open, although the websocket
\* may move on to the next candle between the decision to use its candles and
\* their copy (drop_hint of get_ohlcv).
NoLookahead == \A c \in klines : c < Cur

\* A row is made up only when the candles are taken from the websocket, after a
\* candle in which the cache did not get the one before; or when a REST answer is
\* later than the reserve of _build_coroutine allows for, or a candle that was
\* dropped counts as refreshed.  Any other REST answer leaves no hole (the eviction
\* in _build_coroutine).
HolesAreExplained ==
  [][\/ filled' \subseteq filled
     \/ gap /\ mpc = "ws"
     \/ mpc = "rest" /\ (Cur > candleTs + Reserve + 1 \/ refreshed \notin klines)]_streamVars

\* No hole at all: "Check if 1 call can get us updated candles without hole in
\* the data" (_build_coroutine) comes after the return with the websocket's.
NothingFilled == filled = {}

\* When time stops the strategy has seen the last finished candle, unless a
\* candle that was dropped counts as refreshed, or the websocket's candles were
\* updated less than one candle and a half ago.
LastCandleIsSeen ==
  <>[](seen = Cur - 1 \/ refreshed > seen \/ wsRefresh >= 2 * Cur - 1)
=============================================================================
