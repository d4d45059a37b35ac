--------------------------- MODULE StreamsProofs ---------------------------
(***************************************************************************)
(* What holds of the two copies of candle data that messages keep up to    *)
(* date, for any bounds: the cache of klines (CandleStream) and a          *)
(* consumer's frame and list (ProducerConsumer).                           *)
(***************************************************************************)
EXTENDS CandleStream, ProducerConsumer, WellFoundedInduction, SequenceTheorems, FiniteSetTheorems, TLAPS

(***************************************************************************)
(* CandleStream.                                                           *)
(***************************************************************************)

\* Candles without one missing between them.
Connected(S) == \A x, y \in S : \A z \in x .. y : z \in S

\* The candles of the websocket: nothing of the future, nothing missing, and
\* the clock says how old the last one may be.
SocketInv ==
  /\ Connected(ws) /\ \A c \in ws : c <= Cur
  /\ task = "await" /\ ws # {} => Cur \in ws \/ Cur - 1 \in ws
  /\ ~ scheduled => ws = {} /\ task = "none"
  /\ ws # {} /\ wsRefresh # Never => \E c \in ws : 2 * c + 3 >= wsRefresh

\* The cache: no candle is missing, since missing ones were filled in, the last
\* one was refreshed, and it is not old unless there is a gap.
CacheInv ==
  /\ Connected(klines) /\ \A c \in klines : c < Cur /\ c <= refreshed
  /\ ~ gap /\ klines # {} => Cur - 1 \in klines \/ Cur - 2 \in klines

\* What refresh_latest_ohlcv has decided, and still holds when the candles come.
DecisionInv ==
  /\ candleTs <= Cur /\ now >= 2
  /\ mpc = "build" /\ klines # {} => refreshed + 1 < Cur
  /\ mpc \in {"ws", "rest"} /\ klines # {} => refreshed + 1 < candleTs
  /\ mpc = "ws" => klines # {} /\ (ws = {} \/ \E c \in ws : c >= candleTs - 2)
  /\ mpc = "rest" /\ klines # {} => candleTs - (Limit - Reserve) < refreshed

CacheOK == StreamTypeOK /\ SocketInv /\ CacheInv /\ DecisionInv

(***************************************************************************)
(* Candles, and the clock.                                                 *)
(***************************************************************************)

LEMMA MinFacts ==
  ASSUME NEW S \in SUBSET Nat, S # {}
  PROVE  Min(S) \in S /\ \A y \in S : Min(S) <= y
<1>1. PICK x \in S : \A y \in S : ~ (<<y, x>> \in OpToRel(<, Nat))
  BY NatLessThanWellFounded, WFMin
<1>2. \A y \in S : ~ (y < x)
  BY <1>1 DEF OpToRel
<1>3. \A y \in S : x <= y
  BY <1>2
<1> QED
  BY <1>3, Zenon DEF Min

LEMMA MaxFacts ==
  ASSUME NEW n \in Nat, NEW S \in SUBSET (0 .. n), S # {}
  PROVE  Max(S) \in S /\ \A y \in S : y <= Max(S)
<1> DEFINE T == {n - x : x \in S}
<1>1. \A x \in S : n - x \in Nat /\ x \in Nat
  OBVIOUS
<1>2. T \in SUBSET Nat
  BY <1>1
<1>3. T # {}
  OBVIOUS
<1>4. Min(T) \in T /\ \A y \in T : Min(T) <= y
  BY <1>2, <1>3, MinFacts
<1>5. PICK x \in S : n - x = Min(T)
  BY <1>4
<1>6. \A y \in S : n - x <= n - y
  BY <1>4, <1>5
<1>7. \A y \in S : x >= y
  BY <1>1, <1>6
<1>8. Max(S) \in S /\ \A y \in S : Max(S) >= y
  BY <1>7, Zenon DEF Max
<1> QED
  BY <1>1, <1>8

LEMMA CandlesFacts ==
  ASSUME NEW S \in SUBSET Candles
  PROVE  /\ IsFiniteSet(S) /\ S \subseteq Nat
         /\ S # {} => /\ Max(S) \in S /\ \A y \in S : y <= Max(S)
                      /\ Min(S) \in S /\ \A y \in S : Min(S) <= y
<1> DEFINE n == MaxTime \div 2
<1>1. n \in Nat /\ Candles = 0 .. n
  BY CandleAssumption DEF Candles
<1> HIDE DEF n
<1>2. IsFiniteSet(0 .. n) /\ S \subseteq 0 .. n /\ S \subseteq Nat
  BY <1>1, FS_Interval
<1>3. IsFiniteSet(S)
  BY <1>2, FS_Subset
<1> QED
  BY <1>1, <1>2, <1>3, MaxFacts, MinFacts

\* Candles between two candles are candles.
LEMMA BetweenFacts ==
  ASSUME NEW a \in Candles, NEW b \in Candles, NEW c \in a .. b
  PROVE  c \in Candles
<1> DEFINE n == MaxTime \div 2
<1>1. n \in Nat /\ Candles = 0 .. n
  BY CandleAssumption DEF Candles
<1> HIDE DEF n
<1> QED
  BY <1>1

\* What candle it is.
LEMMA CurFacts ==
  ASSUME StreamTypeOK
  PROVE  /\ now \in Nat /\ now <= MaxTime /\ MaxTime \in Nat
         /\ Cur \in Candles /\ Cur \in Nat
         /\ 2 * Cur <= now /\ now <= 2 * Cur + 1
BY CandleAssumption DEF StreamTypeOK, Cur, Candles

(***************************************************************************)
(* Rows of the cache.                                                      *)
(***************************************************************************)

\* Filling in leaves nothing out, and adds nothing where nothing is missing.
LEMMA FillFacts ==
  ASSUME NEW df \in SUBSET Candles, df # {}
  PROVE  /\ df \subseteq Fill(df) /\ Fill(df) \subseteq Candles /\ Connected(Fill(df))
         /\ Connected(df) => Fill(df) = df
         /\ Max(df) \in df /\ \A c \in Fill(df) : c <= Max(df)
<1>1. /\ Max(df) \in df /\ \A y \in df : y <= Max(df)
      /\ Min(df) \in df /\ \A y \in df : Min(df) <= y
      /\ \A c \in df : c \in Nat
  BY CandlesFacts
<1>2. Fill(df) = Min(df) .. Max(df)
  BY DEF Fill
<1>3. df \subseteq Fill(df) /\ Connected(Fill(df)) /\ \A c \in Fill(df) : c <= Max(df)
  BY <1>1, <1>2 DEF Connected
<1>4. Fill(df) \subseteq Candles
  BY <1>1, <1>2, BetweenFacts
<1>5. Connected(df) => Fill(df) = df
  BY <1>1, <1>2, <1>3 DEF Connected
<1> QED
  BY <1>1, <1>3, <1>4, <1>5

\* The tail of candles without a hole has no hole, and ends with the same one.
LEMMA LastRowsFacts ==
  ASSUME NEW df \in SUBSET Candles, NEW n \in Nat \ {0}, Connected(df), df # {}
  PROVE  LastRows(df, n) \subseteq df /\ Connected(LastRows(df, n)) /\ Max(df) \in LastRows(df, n)
<1> DEFINE From(c) == {d \in df : d >= c}
<1>1. \A c \in df : IsFiniteSet(From(c)) /\ Cardinality(From(c)) \in Nat /\ c \in Nat
  <2>1. \A c \in df : From(c) \in SUBSET Candles
    OBVIOUS
  <2> HIDE DEF From
  <2> QED
    BY <2>1, CandlesFacts, FS_CardinalityType
<1>2. \A c, d \in df : c <= d => Cardinality(From(d)) <= Cardinality(From(c))
  <2> SUFFICES ASSUME NEW c \in df, NEW d \in df, c <= d
               PROVE  Cardinality(From(d)) <= Cardinality(From(c))
    OBVIOUS
  <2>1. \A e \in df : e \in Nat
    BY CandlesFacts
  <2>2. From(d) \subseteq From(c)
    BY <2>1
  <2> HIDE DEF From
  <2> QED
    BY <2>2, <1>1, FS_Subset
<1>3. LastRows(df, n) = {c \in df : Cardinality(From(c)) <= n}
  BY DEF LastRows
<1>4. Max(df) \in df /\ From(Max(df)) = {Max(df)}
  <2>1. Max(df) \in df /\ \A e \in df : e \in Nat /\ e <= Max(df)
    BY CandlesFacts
  <2> QED
    BY <2>1
<1>5. Cardinality(From(Max(df))) <= n
  <2> HIDE DEF From
  <2>1. Cardinality(From(Max(df))) = 1
    BY <1>4, FS_Singleton
  <2> QED
    BY <2>1
<1> HIDE DEF From
<1>6. Connected(LastRows(df, n))
  <2> SUFFICES ASSUME NEW x \in LastRows(df, n), NEW y \in LastRows(df, n), NEW z \in x .. y
               PROVE  z \in LastRows(df, n)
    BY DEF Connected
  <2>1. x \in df /\ y \in df /\ Cardinality(From(x)) <= n
    BY <1>3
  <2>2. z \in df /\ x <= z
    BY <2>1, <1>1 DEF Connected
  <2>3. Cardinality(From(z)) <= Cardinality(From(x))
    BY <2>1, <2>2, <1>2
  <2> QED
    BY <1>1, <1>3, <2>1, <2>2, <2>3
<1> QED
  BY <1>3, <1>4, <1>5, <1>6

\* What is left when the last candle is dropped, and what counts as refreshed.
LEMMA DroppedFacts ==
  ASSUME NEW ticks \in SUBSET Candles, ticks # {}, Connected(ticks), NEW drop \in BOOLEAN
  PROVE  /\ Dropped(ticks, drop) \subseteq ticks /\ Connected(Dropped(ticks, drop))
         /\ drop => \A c \in Dropped(ticks, drop) : c < Max(ticks)
         /\ ~ drop => Dropped(ticks, drop) = ticks
         /\ \A c \in ticks : c < Max(ticks) => c \in Dropped(ticks, drop)
         /\ LastRefreshed(ticks, drop) \in ticks
         /\ \A c \in Dropped(ticks, drop) : c <= LastRefreshed(ticks, drop)
         /\ Dropped(ticks, drop) # {} => LastRefreshed(ticks, drop) \in Dropped(ticks, drop)
                                         \/ ticks = {LastRefreshed(ticks, drop)}
<1> DEFINE D == Dropped(ticks, drop)
<1>1. Max(ticks) \in ticks /\ \A c \in ticks : c <= Max(ticks) /\ c \in Nat
  BY CandlesFacts
<1>2. D = IF drop THEN ticks \ {Max(ticks)} ELSE ticks
  BY DEF Dropped
<1>3. /\ D \subseteq ticks /\ (drop => \A c \in D : c < Max(ticks)) /\ (~ drop => D = ticks)
      /\ \A c \in ticks : c < Max(ticks) => c \in D
  BY <1>1, <1>2
<1>4. Connected(D)
  <2> SUFFICES ASSUME NEW x \in D, NEW y \in D, NEW z \in x .. y PROVE z \in D
    BY DEF Connected
  <2>1. x \in ticks /\ y \in ticks /\ y \in Nat /\ x \in Nat
    BY <1>1, <1>3
  <2>2. z \in ticks /\ z <= y /\ z \in Nat
    BY <2>1 DEF Connected
  <2>3. CASE drop
    BY <1>1, <1>2, <1>3, <2>1, <2>2, <2>3
  <2>4. CASE ~ drop
    BY <1>3, <2>2, <2>4
  <2> QED
    BY <2>3, <2>4
<1>5. IsFiniteSet(ticks)
  BY CandlesFacts
<1>6. D # {} => Max(D) \in D /\ \A c \in D : c <= Max(D)
  BY <1>3, CandlesFacts
<1>7. CASE Cardinality(ticks) > 1
  <2>1. D # {}
    <3> SUFFICES ASSUME D = {} PROVE FALSE
      OBVIOUS
    <3>1. ticks = {Max(ticks)}
      BY <1>1, <1>2
    <3> QED
      BY <3>1, <1>7, FS_Singleton
  <2> HIDE DEF D
  <2>2. LastRefreshed(ticks, drop) = Max(D)
    BY <1>7 DEF LastRefreshed, D
  <2> QED
    BY <1>3, <1>4, <1>6, <2>1, <2>2 DEF D
<1>8. CASE ~ (Cardinality(ticks) > 1)
  <2>1. LastRefreshed(ticks, drop) = Max(ticks)
    BY <1>8 DEF LastRefreshed
  <2>2. ticks = {Max(ticks)}
    <3>1. Cardinality(ticks) \in Nat /\ Cardinality(ticks) # 0
      BY <1>5, FS_CardinalityType, FS_EmptySet
    <3>2. Cardinality(ticks) = 1
      BY <1>8, <3>1
    <3>3. PICK x : ticks = {x}
      BY <1>5, <3>2, FS_Singleton
    <3> QED
      BY <1>1, <3>3
  <2> HIDE DEF D
  <2> QED
    BY <1>1, <1>3, <1>4, <2>1, <2>2 DEF D
<1> QED
  BY <1>7, <1>8

\* What _process_ohlcv_df makes of the cache, when the candles that came are of
\* the past but for one that is dropped.
LEMMA ProcessFacts ==
  ASSUME StreamTypeOK, CacheInv, NEW ticks \in SUBSET Candles, ticks # {}, Connected(ticks),
         NEW drop \in BOOLEAN, \A c \in Dropped(ticks, drop) : c < Cur,
         Process(ticks, drop)
  PROVE  /\ refreshed' = LastRefreshed(ticks, drop)
         /\ klines' \subseteq Candles /\ filled' \subseteq klines' /\ Connected(klines')
         /\ \A c \in klines' : c < Cur
         /\ \A c \in klines' : c <= refreshed' \/ \E d \in klines : c <= d
         /\ klines \cup Dropped(ticks, drop) # {} =>
              \E e \in klines' : \A d \in klines \cup Dropped(ticks, drop) : d <= e
         /\ klines \cup Dropped(ticks, drop) = {} => klines' = {}
         /\ Connected(klines \cup Dropped(ticks, drop)) => filled' \subseteq filled
<1> DEFINE D == Dropped(ticks, drop)
           df == klines \cup D
           kept == IF klines = {} THEN Fill(df) ELSE LastRows(Fill(df), Limit + Startup)
<1>1. /\ refreshed' = LastRefreshed(ticks, drop) /\ klines' = kept
      /\ filled' = (filled \cup (Fill(df) \ df)) \cap kept
  BY DEF Process
<1>2. D \subseteq ticks /\ \A c \in D : c <= LastRefreshed(ticks, drop)
  BY DroppedFacts
<1>3. df \in SUBSET Candles /\ \A c \in df : c < Cur
  BY <1>2 DEF StreamTypeOK, CacheInv
<1>4. Limit + Startup \in Nat \ {0} /\ Cur \in Nat
  BY CandleAssumption, CurFacts
<1> HIDE DEF D
<1>5. CASE df = {}
  <2>1. kept = {}
    BY <1>5 DEF Fill
  <2> QED
    BY <1>1, <1>5, <2>1 DEF Connected, D
<1>6. CASE df # {}
  <2> HIDE DEF df
  <2>1. /\ df \subseteq Fill(df) /\ Fill(df) \subseteq Candles /\ Connected(Fill(df))
        /\ Connected(df) => Fill(df) = df
        /\ Max(df) \in df /\ \A c \in Fill(df) : c <= Max(df)
    BY <1>3, <1>6, FillFacts
  <2>2. Max(Fill(df)) = Max(df) /\ \A c \in Fill(df) : c \in Nat
    <3>1. Max(Fill(df)) \in Fill(df) /\ \A c \in Fill(df) : c <= Max(Fill(df)) /\ c \in Nat
      BY <2>1, CandlesFacts
    <3> QED
      BY <2>1, <3>1
  <2>3. kept \subseteq Fill(df) /\ Connected(kept) /\ Max(df) \in kept
    BY <1>4, <1>6, <2>1, <2>2, LastRowsFacts
  <2> HIDE DEF kept
  <2>4. \A d \in df : d <= Max(df)
    BY <2>1
  <2>5. Max(df) < Cur
    BY <1>3, <2>1
  <2>6. \A c \in kept : c <= Max(df) /\ c < Cur
    BY <1>4, <2>1, <2>2, <2>3, <2>5
  <2>7. Max(df) <= LastRefreshed(ticks, drop) \/ Max(df) \in klines
    BY <1>2, <2>1 DEF df
  <2>8. LastRefreshed(ticks, drop) \in Nat
    BY DroppedFacts, CandlesFacts
  <2>9. \A c \in kept : c <= LastRefreshed(ticks, drop) \/ \E d \in klines : c <= d
    BY <2>2, <2>1, <2>3, <2>6, <2>7, <2>8
  <2>10. \E e \in kept : \A d \in df : d <= e
    BY <2>3, <2>4
  <2>11. Connected(df) => filled' \subseteq filled
    BY <1>1, <2>1
  <2>12. kept \subseteq Candles /\ filled' \subseteq kept
    BY <1>1, <2>1, <2>3
  <2> QED
    BY <1>1, <1>6, <2>3, <2>6, <2>9, <2>10, <2>11, <2>12 DEF df, D
<1> QED
  BY <1>5, <1>6

\* Two runs of candles that touch are one.
LEMMA TouchFacts ==
  ASSUME NEW A \in SUBSET Nat, NEW B \in SUBSET Nat, Connected(A), Connected(B),
         \E x \in A, y \in B : x <= y + 1 /\ y <= x + 1
  PROVE  Connected(A \cup B)
<1> SUFFICES ASSUME NEW x \in A \cup B, NEW y \in A \cup B, NEW z \in x .. y
             PROVE  z \in A \cup B
  BY DEF Connected
<1>1. PICK s \in A, t \in B : s <= t + 1 /\ t <= s + 1
  OBVIOUS
<1>2. x \in Nat /\ y \in Nat /\ z \in Nat /\ s \in Nat /\ t \in Nat /\ x <= z /\ z <= y
  OBVIOUS
<1>3. ASSUME NEW S \in {A, B}, NEW u \in S, NEW v \in S, u <= z, z <= v PROVE z \in A \cup B
  BY <1>2, <1>3 DEF Connected
<1>4. CASE x \in A /\ y \in B
  <2>1. z <= s \/ t <= z
    BY <1>1, <1>2
  <2> QED
    BY <1>1, <1>2, <1>3, <1>4, <2>1
<1>5. CASE x \in B /\ y \in A
  <2>1. z <= t \/ s <= z
    BY <1>1, <1>2
  <2> QED
    BY <1>1, <1>2, <1>3, <1>5, <2>1
<1>6. CASE (x \in A /\ y \in A) \/ (x \in B /\ y \in B)
  BY <1>2, <1>3, <1>6
<1> QED
  BY <1>4, <1>5, <1>6

(***************************************************************************)
(* Steps.                                                                  *)
(***************************************************************************)

LEMMA InitIInv == StreamInit => CacheOK
<1> SUFFICES ASSUME StreamInit PROVE CacheOK
  OBVIOUS
<1>1. Cur = 1 /\ MaxTime \div 2 >= 1 /\ MaxTime \div 2 \in Nat
  BY CandleAssumption DEF StreamInit, Cur
<1>2. StreamTypeOK
  <2>1. 0 \in Candles /\ 2 \in 0 .. MaxTime /\ 0 \in 0 .. Troubles
    BY <1>1, CandleAssumption DEF Candles
  <2> QED
    BY <2>1 DEF StreamInit, StreamTypeOK, Tasks
<1>3. SocketInv /\ CacheInv
  BY <1>1 DEF StreamInit, SocketInv, CacheInv, Connected
<1>4. DecisionInv
  BY <1>1 DEF StreamInit, DecisionInv
<1> QED
  BY <1>2, <1>3, <1>4 DEF CacheOK

LEMMA TickStep == ASSUME CacheOK, Tick PROVE CacheOK'
<1>1. StreamTypeOK /\ now \in Nat /\ Cur \in Nat /\ 2 * Cur <= now /\ now <= 2 * Cur + 1
  BY CurFacts DEF CacheOK
<1>2. StreamTypeOK'
  BY <1>1, CandleAssumption DEF Tick, StreamTypeOK, socket
<1>3. /\ now' = now + 1 /\ Cur' \in Nat
      /\ IF now % 2 = 1 THEN Cur' = Cur + 1 ELSE Cur' = Cur
  BY <1>1 DEF Tick, Cur
<1>4. SocketInv'
  <2>1. \A c \in ws : c \in Nat
    BY <1>1, CandlesFacts DEF StreamTypeOK
  <2> QED
    BY <1>1, <1>3, <2>1 DEF Tick, CacheOK, SocketInv, socket
<1>5. CacheInv'
  <2>1. \A c \in klines : c \in Nat
    BY <1>1, CandlesFacts DEF StreamTypeOK
  <2>2. ~ gap' => ~ gap /\ (now % 2 = 1 => Cur - 1 \in klines)
    BY <1>1 DEF Tick, StreamTypeOK
  <2> QED
    BY <1>1, <1>3, <2>1, <2>2 DEF Tick, CacheOK, CacheInv
<1>6. DecisionInv'
  <2>1. candleTs \in Nat /\ refreshed \in Nat \cup {-1}
    BY <1>1, CandlesFacts DEF StreamTypeOK, Never
  <2> QED
    BY <1>1, <1>3, <2>1 DEF Tick, CacheOK, DecisionInv, socket
<1> QED
  BY <1>2, <1>4, <1>5, <1>6 DEF CacheOK

\* The loop does not touch what the main thread has.
LEMMA LoopSteps ==
  ASSUME CacheOK, StreamTypeOK', SocketInv', UNCHANGED <<now, klines, filled, refreshed, gap, mpc, candleTs>>,
         \/ ws # {} /\ ws \subseteq ws'
         \/ ws' = {}
         \/ \E c \in ws' : c >= Cur
  PROVE  CacheOK'
<1>1. StreamTypeOK /\ Cur \in Nat /\ Cur' = Cur
  BY CurFacts DEF CacheOK, Cur
<1>2. CacheInv'
  BY <1>1 DEF CacheOK, CacheInv
<1>3. DecisionInv'
  <2>1. candleTs \in Nat /\ candleTs <= Cur /\ \A c \in ws' : c \in Nat
    BY CandlesFacts DEF CacheOK, StreamTypeOK, DecisionInv
  <2> QED
    BY <1>1, <2>1 DEF CacheOK, DecisionInv
<1> QED
  BY <1>2, <1>3 DEF CacheOK

LEMMA TroubleFacts == ASSUME StreamTypeOK, Trouble PROVE troubles' \in 0 .. Troubles
BY CandleAssumption DEF StreamTypeOK, Trouble

LEMMA LoopScheduleStep == ASSUME CacheOK, LoopSchedule PROVE CacheOK'
<1>1. StreamTypeOK'
  <2>1. troubles' \in 0 .. Troubles
    BY TroubleFacts DEF CacheOK, LoopSchedule, StreamTypeOK
  <2>2. scheduled' \in BOOLEAN /\ task' \in Tasks
    BY DEF CacheOK, LoopSchedule, StreamTypeOK, Tasks
  <2> QED
    BY <2>1, <2>2 DEF CacheOK, LoopSchedule, StreamTypeOK, cache
<1>2. SocketInv'
  BY DEF CacheOK, LoopSchedule, SocketInv, Cur, StreamTypeOK
<1> QED
  BY <1>1, <1>2, LoopSteps DEF LoopSchedule, cache

LEMMA LoopDataStep == ASSUME CacheOK, LoopData PROVE CacheOK'
<1>1. StreamTypeOK /\ now \in Nat /\ Cur \in Nat /\ Cur \in Candles /\ 2 * Cur <= now /\ now <= 2 * Cur + 1
      /\ Cur' = Cur
  BY CurFacts DEF CacheOK, LoopData, Cur
<1>2. StreamTypeOK'
  BY <1>1 DEF LoopData, StreamTypeOK, Tasks, cache
<1>3. /\ ws \subseteq ws' /\ ws' \subseteq ws \cup {Cur} /\ (Cur \in ws' \/ Cur - 1 \in ws')
      /\ ws = {} => Cur \in ws'
  BY DEF LoopData
<1>4. \A c \in ws : c \in Nat /\ c <= Cur
  BY <1>1, CandlesFacts DEF CacheOK, StreamTypeOK, SocketInv
<1>5. Connected(ws')
  <2>1. Connected(ws) /\ (ws = {} \/ Cur \in ws \/ Cur - 1 \in ws)
    BY DEF CacheOK, SocketInv, LoopData
  <2>2. CASE ws' = ws
    BY <2>1, <2>2
  <2>3. CASE ws' = ws \cup {Cur}
    <3> SUFFICES ASSUME NEW x \in ws', NEW y \in ws', NEW z \in x .. y PROVE z \in ws'
      BY DEF Connected
    <3>1. CASE z = Cur
      BY <2>3, <3>1
    <3>2. CASE z # Cur
      <4>1. x \in Nat /\ y \in Nat /\ x <= Cur /\ y <= Cur /\ z \in Nat /\ z <= Cur - 1 /\ x <= z /\ x \in ws
        BY <1>1, <1>4, <2>3, <3>2
      <4>2. Cur - 1 \in ws \/ Cur \in ws
        BY <2>1, <4>1
      <4>3. z \in x .. (Cur - 1) /\ z \in x .. Cur
        BY <1>1, <4>1
      <4> QED
        BY <1>3, <2>1, <4>1, <4>2, <4>3 DEF Connected
    <3> QED
      BY <3>1, <3>2
  <2> QED
    BY <2>2, <2>3 DEF LoopData
<1>6. SocketInv'
  <2>1. \A c \in ws' : c <= Cur'
    BY <1>1, <1>3, <1>4
  <2>2. \E c \in ws' : 2 * c + 3 >= wsRefresh'
    BY <1>1, <1>3 DEF LoopData
  <2>3. ~ scheduled' => ws' = {} /\ task' = "none"
    BY DEF LoopData, CacheOK, SocketInv
  <2> QED
    BY <1>1, <1>3, <1>5, <2>1, <2>2, <2>3 DEF SocketInv
<1> QED
  BY <1>1, <1>2, <1>3, <1>6, LoopSteps DEF LoopData, cache

\* Steps of the websocket that bring no candles.
LEMMA QuietSteps ==
  ASSUME CacheOK, LoopDisconnect \/ LoopFinally \/ LoopStopped \/ LoopUnwatch \/ MainExpire \/ MainReset
  PROVE  CacheOK'
<1>1. StreamTypeOK'
  BY TroubleFacts DEF CacheOK, LoopDisconnect, LoopFinally, LoopStopped, LoopUnwatch, MainExpire, MainReset,
     StreamTypeOK, Tasks, cache
<1>2. SocketInv'
  BY DEF CacheOK, LoopDisconnect, LoopFinally, LoopStopped, LoopUnwatch, MainExpire, MainReset,
     SocketInv, Connected, Cur, StreamTypeOK, Tasks
<1>3. ws' = ws \/ ws' = {}
  BY DEF LoopDisconnect, LoopFinally, LoopStopped, LoopUnwatch, MainExpire, MainReset
<1> QED
  BY <1>1, <1>2, <1>3, LoopSteps
  DEF LoopDisconnect, LoopFinally, LoopStopped, LoopUnwatch, MainExpire, MainReset, cache

LEMMA AnalyzeStep == ASSUME CacheOK, MainAnalyze PROVE CacheOK'
<1>1. Max(klines) \in Candles
  BY CandlesFacts DEF CacheOK, StreamTypeOK, MainAnalyze
<1>2. StreamTypeOK'
  BY <1>1 DEF CacheOK, StreamTypeOK, MainAnalyze, socket, cache
<1>3. SocketInv'
  BY DEF CacheOK, SocketInv, MainAnalyze, socket, cache, Cur
<1> QED
  BY <1>2, <1>3, LoopSteps DEF MainAnalyze, socket, cache

LEMMA RequestStep == ASSUME CacheOK, MainRequest PROVE CacheOK'
<1>1. StreamTypeOK'
  BY DEF CacheOK, StreamTypeOK, MainRequest, cache
<1>2. SocketInv' /\ CacheInv'
  BY DEF CacheOK, SocketInv, CacheInv, MainRequest, cache, Cur
<1>3. DecisionInv'
  BY DEF CacheOK, DecisionInv, MainRequest, TimeToRefresh, cache, Cur
<1> QED
  BY <1>1, <1>2, <1>3 DEF CacheOK

LEMMA BuildStep == ASSUME CacheOK, MainBuild PROVE CacheOK'
<1>1. StreamTypeOK /\ Cur \in Nat /\ Cur \in Candles /\ Cur' = Cur
  BY CurFacts DEF CacheOK, MainBuild, Cur
<1>2. StreamTypeOK'
  BY <1>1 DEF StreamTypeOK, MainBuild, socket
<1>3. SocketInv' /\ CacheInv'
  BY <1>1 DEF CacheOK, SocketInv, CacheInv, MainBuild, socket, Connected
<1>4. DecisionInv'
  <2>1. CASE klines # {} /\ Usable
    <3>1. /\ mpc' = "ws" /\ klines' = klines /\ candleTs' = Cur /\ ws' = ws /\ refreshed' = refreshed /\ now' = now
          /\ mpc = "build"
      BY <2>1 DEF MainBuild, socket
    <3>2. PICK c \in ws : 2 * c + 3 >= wsRefresh /\ wsRefresh >= 2 * Cur - 1
      BY <2>1 DEF CacheOK, SocketInv, Usable
    <3>3. c \in Nat /\ wsRefresh \in Nat \cup {-1}
      BY <1>1, CandlesFacts, CandleAssumption DEF StreamTypeOK, Never
    <3>4. c >= Cur - 2
      BY <1>1, <3>2, <3>3
    <3> QED
      BY <1>1, <2>1, <3>1, <3>4 DEF CacheOK, DecisionInv
  <2>2. CASE ~ (klines # {} /\ Usable)
    <3>1. /\ mpc' = "rest" /\ candleTs' = Cur /\ ws' = ws /\ refreshed' = refreshed /\ now' = now
          /\ klines' = {} \/ (klines' = klines /\ OneCallIsEnough)
          /\ mpc = "build"
      BY <2>2 DEF MainBuild, socket
    <3> QED
      BY <1>1, <3>1 DEF CacheOK, DecisionInv, OneCallIsEnough
  <2> QED
    BY <2>1, <2>2
<1> QED
  BY <1>2, <1>3, <1>4 DEF CacheOK

\* The websocket's candles are taken.  They reach back to the cache, as far as the
\* decision to take them was sound and nothing was cleared since.
LEMMA TakeWsFacts ==
  ASSUME CacheOK, MainTakeWs, ws # {}, wsRefresh # Never
  PROVE  /\ StreamTypeOK' /\ CacheInv'
         /\ ~ gap => filled' \subseteq filled
<1>1. /\ StreamTypeOK /\ CacheInv /\ Cur \in Nat /\ Cur' = Cur /\ candleTs \in Nat /\ candleTs <= Cur
      /\ klines # {} /\ refreshed + 1 < candleTs /\ refreshed \in Nat \cup {-1}
      /\ ws \in SUBSET Candles /\ Connected(ws) /\ \A c \in ws : c \in Nat /\ c <= Cur
      /\ \E c \in ws : c >= candleTs - 2
  BY CurFacts, CandlesFacts DEF CacheOK, MainTakeWs, DecisionInv, SocketInv, StreamTypeOK, Never, Cur
<1> DEFINE drop == ws # {} /\ Max(ws) >= candleTs
           D == Dropped(ws, drop)
<1>2. drop \in BOOLEAN /\ Process(ws, drop) /\ gap' = gap
  BY DEF MainTakeWs
<1>3. Max(ws) \in ws /\ \A c \in ws : c <= Max(ws)
  BY <1>1, CandlesFacts
<1>4. /\ drop <=> Max(ws) >= candleTs
      /\ D \subseteq ws /\ Connected(D)
      /\ drop => \A c \in D : c < Max(ws)
      /\ ~ drop => D = ws
      /\ \A c \in ws : c < Max(ws) => c \in D
      /\ LastRefreshed(ws, drop) \in ws
      /\ \A c \in D : c <= LastRefreshed(ws, drop)
      /\ D # {} => LastRefreshed(ws, drop) \in D \/ ws = {LastRefreshed(ws, drop)}
  <2>1. drop <=> Max(ws) >= candleTs
    OBVIOUS
  <2> HIDE DEF drop
  <2> QED
    BY <2>1, <1>1, <1>2, DroppedFacts
<1> HIDE DEF drop, D
<1>5. \A c \in D : c < Cur /\ c \in Nat
  BY <1>1, <1>3, <1>4
\* The last candle that stays, if any, is one of the last two before candleTs, or
\* later.
<1>6. LastRefreshed(ws, drop) >= candleTs - 2
  <2>1. Max(ws) >= candleTs - 2
    BY <1>1, <1>3
  <2>2. CASE D = {}
    <3>1. \A c \in ws : c = Max(ws)
      BY <1>1, <1>3, <1>4, <2>2
    <3> QED
      BY <1>4, <2>1, <3>1
  <2>3. CASE ~ drop /\ D # {}
    BY <1>1, <1>3, <1>4, <2>1, <2>3
  <2>4. CASE drop /\ D # {}
    <3>1. PICK c \in D : c \in ws /\ c < Max(ws)
      BY <1>4, <2>4
    <3>2. Max(ws) - 1 \in c .. Max(ws)
      BY <1>1, <1>3, <3>1
    <3>3. Max(ws) - 1 \in ws
      BY <1>1, <1>3, <3>1, <3>2 DEF Connected
    <3>4. Max(ws) - 1 \in D
      BY <1>1, <1>3, <1>4, <3>3
    <3>5. Max(ws) - 1 <= LastRefreshed(ws, drop) /\ Max(ws) >= candleTs
      BY <1>4, <2>4, <3>4
    <3>6. Max(ws) \in Nat /\ LastRefreshed(ws, drop) \in Nat
      BY <1>1, <1>3, <1>4
    <3> QED
      BY <1>1, <3>5, <3>6
  <2> QED
    BY <2>2, <2>3, <2>4
<1>7. /\ refreshed' = LastRefreshed(ws, drop)
      /\ klines' \subseteq Candles /\ filled' \subseteq klines' /\ Connected(klines')
      /\ \A c \in klines' : c < Cur
      /\ \A c \in klines' : c <= refreshed' \/ \E d \in klines : c <= d
      /\ \E e \in klines' : \A d \in klines \cup D : d <= e
      /\ Connected(klines \cup D) => filled' \subseteq filled
  BY <1>1, <1>2, <1>5, ProcessFacts DEF D
<1>8. \A c \in klines : c \in Nat /\ c <= candleTs - 2 /\ c < Cur
  <2>1. klines \in SUBSET Candles /\ \A c \in klines : c < Cur /\ c <= refreshed
    BY <1>1 DEF CacheInv, StreamTypeOK
  <2>2. \A c \in klines : c \in Nat
    BY <2>1, CandlesFacts
  <2> QED
    BY <1>1, <2>1, <2>2
<1>9. StreamTypeOK'
  BY <1>1, <1>4, <1>7 DEF MainTakeWs, StreamTypeOK, socket
<1>10. CacheInv'
  <2>1. \A c \in klines' : c <= refreshed'
    BY <1>1, <1>4, <1>6, <1>7, <1>8, CandlesFacts
  <2>2. ~ gap => Cur - 1 \in klines' \/ Cur - 2 \in klines'
    <3> SUFFICES ASSUME ~ gap PROVE Cur - 1 \in klines' \/ Cur - 2 \in klines'
      OBVIOUS
    <3>1. PICK d \in klines : d = Cur - 1 \/ d = Cur - 2
      BY <1>1 DEF CacheInv
    <3>2. PICK e \in klines' : d <= e
      BY <1>7
    <3>3. e \in Nat /\ d \in Nat /\ e < Cur
      BY <1>7, <1>8, CandlesFacts
    <3> QED
      BY <1>1, <3>1, <3>2, <3>3
  <2> QED
    BY <1>1, <1>2, <1>7, <2>1, <2>2 DEF CacheInv
<1>11. ASSUME ~ gap PROVE filled' \subseteq filled
  <2>1. CASE D = {}
    BY <1>1, <1>7, <2>1 DEF CacheInv
  <2>2. CASE D # {}
    <3>1. PICK d \in klines : d = Cur - 1 \/ d = Cur - 2
      BY <1>1, <1>11 DEF CacheInv
    \* A candle of the websocket at or before the end of the cache, but not before
    \* its beginning: the one two candles before candleTs is in both, or between.
    <3>2. PICK t \in D : t >= candleTs - 2
      <4>1. CASE LastRefreshed(ws, drop) \in D
        BY <1>6, <4>1
      <4>2. CASE ws = {LastRefreshed(ws, drop)}
        BY <1>4, <1>6, <2>2, <4>2
      <4> QED
        BY <1>4, <2>2, <4>1, <4>2
    <3>3. t \in Nat /\ t < Cur /\ d \in Nat /\ d <= candleTs - 2
      BY <1>5, <1>8, <3>2
    <3>4. d <= t + 1 /\ t <= d + 1
      BY <1>1, <3>1, <3>2, <3>3
    <3>5. klines \in SUBSET Nat /\ D \in SUBSET Nat /\ Connected(klines)
      BY <1>1, <1>5, <1>8 DEF CacheInv
    <3>6. Connected(klines \cup D)
      BY <1>4, <3>4, <3>5, TouchFacts
    <3> QED
      BY <1>7, <3>6
  <2> QED
    BY <2>1, <2>2
<1> QED
  BY <1>9, <1>10, <1>11

LEMMA TakeWsStep == ASSUME CacheOK, MainTakeWs PROVE CacheOK' /\ (~ gap => filled' \subseteq filled)
<1>1. StreamTypeOK' /\ CacheInv' /\ (~ gap => filled' \subseteq filled)
  <2>1. CASE wsRefresh = Never
    <3>1. gap' = TRUE /\ UNCHANGED <<klines, filled, refreshed, now>> /\ mpc' = "idle"
          /\ UNCHANGED <<socket, lastRequest, candleTs, seen, troubles>>
      BY <2>1 DEF MainTakeWs
    <3>2. StreamTypeOK'
      BY <3>1 DEF CacheOK, StreamTypeOK, socket
    <3> QED
      BY <3>1, <3>2 DEF CacheOK, CacheInv, Cur
  <2>2. CASE wsRefresh # Never /\ ws = {}
    BY <2>2 DEF CacheOK, MainTakeWs, Process, StreamTypeOK, CacheInv, socket, Cur
  <2>3. CASE wsRefresh # Never /\ ws # {}
    BY <2>3, TakeWsFacts
  <2> QED
    BY <2>1, <2>2, <2>3
<1>2. SocketInv' /\ DecisionInv'
  BY DEF CacheOK, MainTakeWs, SocketInv, DecisionInv, socket, Cur
<1> QED
  BY <1>1, <1>2 DEF CacheOK

\* What the exchange answers: a run of candles that ends with the open one.
LEMMA RestAnswerFacts ==
  ASSUME StreamTypeOK
  PROVE  /\ RestAnswer \in SUBSET Candles /\ Cur \in RestAnswer /\ Connected(RestAnswer)
         /\ Max(RestAnswer) = Cur
         /\ Dropped(RestAnswer, TRUE) = {c \in Candles : c < Cur /\ c > Cur - Limit}
         /\ Connected(Dropped(RestAnswer, TRUE))
<1>1. Cur \in Candles /\ Cur \in Nat /\ Limit \in Nat \ {0} /\ \A c \in Candles : c \in Nat
  BY CurFacts, CandleAssumption, CandlesFacts
<1>2. RestAnswer \in SUBSET Candles /\ Cur \in RestAnswer
  BY <1>1 DEF RestAnswer
<1>3. Connected(RestAnswer)
  <2> SUFFICES ASSUME NEW x \in RestAnswer, NEW y \in RestAnswer, NEW z \in x .. y
               PROVE  z \in RestAnswer
    BY DEF Connected
  <2>1. z \in Candles
    BY <1>2, BetweenFacts
  <2> QED
    BY <1>1, <2>1 DEF RestAnswer
<1>4. Max(RestAnswer) = Cur
  <2>1. Max(RestAnswer) \in RestAnswer /\ \A c \in RestAnswer : c <= Max(RestAnswer)
    <3>1. RestAnswer # {} /\ RestAnswer \in SUBSET Candles
      BY <1>2
    <3> QED
      BY <3>1, CandlesFacts
  <2>2. \A c \in RestAnswer : c \in Nat /\ c <= Cur
    BY <1>1 DEF RestAnswer
  <2>3. Max(RestAnswer) \in Nat /\ Max(RestAnswer) <= Cur /\ Cur <= Max(RestAnswer)
    BY <1>2, <2>1, <2>2
  <2> QED
    BY <1>1, <2>3
<1>5. Dropped(RestAnswer, TRUE) = {c \in Candles : c < Cur /\ c > Cur - Limit}
  <2>1. Dropped(RestAnswer, TRUE) = RestAnswer \ {Cur}
    BY <1>2, <1>4 DEF Dropped
  <2>2. \A c \in Candles : c \in RestAnswer \ {Cur} <=> c < Cur /\ c > Cur - Limit
    BY <1>1 DEF RestAnswer
  <2> QED
    BY <1>2, <2>1, <2>2
<1>6. Connected(Dropped(RestAnswer, TRUE))
  BY <1>2, <1>3, DroppedFacts
<1> QED
  BY <1>2, <1>3, <1>4, <1>5, <1>6

\* A REST answer in time, to a cache whose last candle was refreshed, leaves no
\* hole: OneCallIsEnough, or an empty cache.
LEMMA RestFacts ==
  ASSUME CacheOK, mpc = "rest", Process(RestAnswer, TRUE),
         gap' = FALSE, mpc' = "idle", UNCHANGED <<now, socket, lastRequest, candleTs, seen, troubles>>
  PROVE  /\ StreamTypeOK' /\ CacheInv'
         /\ Cur <= candleTs + Reserve + 1 /\ refreshed \in klines => filled' \subseteq filled
<1> DEFINE D == Dropped(RestAnswer, TRUE)
<1>1. /\ StreamTypeOK /\ CacheInv /\ Cur \in Nat /\ Cur >= 1 /\ Cur' = Cur
      /\ candleTs \in Nat /\ candleTs <= Cur /\ refreshed \in Nat \cup {-1}
      /\ klines # {} => refreshed + 1 < candleTs /\ candleTs - (Limit - Reserve) < refreshed
      /\ Limit \in Nat \ {0} /\ Reserve \in 0 .. Limit
      /\ klines \in SUBSET Candles /\ \A c \in Candles : c \in Nat
  BY CurFacts, CandlesFacts, CandleAssumption DEF CacheOK, DecisionInv, StreamTypeOK, Never, Cur
<1>2. /\ RestAnswer \in SUBSET Candles /\ Cur \in RestAnswer /\ Connected(RestAnswer)
      /\ Max(RestAnswer) = Cur
      /\ D = {c \in Candles : c < Cur /\ c > Cur - Limit}
      /\ Connected(D)
  BY <1>1, RestAnswerFacts
<1>3. /\ LastRefreshed(RestAnswer, TRUE) \in RestAnswer
      /\ \A c \in D : c <= LastRefreshed(RestAnswer, TRUE)
      /\ \A c \in RestAnswer : c < Cur => c \in D
  BY <1>2, DroppedFacts
<1> HIDE DEF D
<1>4. /\ refreshed' = LastRefreshed(RestAnswer, TRUE)
      /\ klines' \subseteq Candles /\ filled' \subseteq klines' /\ Connected(klines')
      /\ \A c \in klines' : c < Cur
      /\ \A c \in klines' : c <= refreshed' \/ \E d \in klines : c <= d
      /\ klines \cup D # {} => \E e \in klines' : \A d \in klines \cup D : d <= e
      /\ klines \cup D = {} => klines' = {}
      /\ Connected(klines \cup D) => filled' \subseteq filled
  <2>1. \A c \in D : c < Cur
    BY <1>2
  <2> QED
    BY <1>1, <1>2, <2>1, ProcessFacts DEF D
<1>5. \A c \in klines : c \in Nat /\ c < Cur /\ c <= refreshed
  BY <1>1 DEF CacheInv
\* One candle of the answer is open; with more of them the one before counts.
<1>6. CASE Limit = 1
  <2>1. D = {}
    <3> SUFFICES ASSUME NEW c \in Candles, c < Cur, c > Cur - 1 PROVE FALSE
      BY <1>2, <1>6
    <3>1. c \in Nat
      BY <1>1
    <3> QED
      BY <1>1, <3>1
  <2>2. klines = {}
    BY <1>1, <1>6
  <2> QED
    BY <1>1, <1>2, <1>3, <1>4, <2>1, <2>2 DEF CacheInv, StreamTypeOK, Connected, socket
<1>7. CASE Limit > 1
  <2>1. Cur - 1 \in D
    <3>1. Cur - 1 \in 0 .. Cur /\ Cur \in Candles /\ 0 \in Candles
      BY <1>1, <1>2, CandleAssumption DEF Candles
    <3>2. Cur - 1 \in Candles
      BY <3>1, BetweenFacts
    <3> QED
      BY <1>1, <1>2, <1>7, <3>2
  <2>2. refreshed' >= Cur - 1 /\ refreshed' \in Candles /\ refreshed' \in Nat
    BY <1>1, <1>2, <1>3, <1>4, <2>1
  <2>3. StreamTypeOK'
    BY <1>1, <1>4, <2>2 DEF StreamTypeOK, socket
  <2>4. CacheInv'
    <3>1. \A c \in klines' : c \in Nat /\ c < Cur /\ c <= refreshed'
      <4> SUFFICES ASSUME NEW c \in klines' PROVE c \in Nat /\ c < Cur /\ c <= refreshed'
        OBVIOUS
      <4>1. c \in Nat /\ c < Cur
        BY <1>1, <1>4
      <4> QED
        BY <1>1, <2>2, <4>1
    <3>2. PICK e \in klines' : Cur - 1 <= e
      BY <1>4, <2>1
    <3>3. e = Cur - 1
      BY <1>1, <3>1, <3>2
    <3> QED
      BY <1>1, <1>4, <3>1, <3>2, <3>3 DEF CacheInv
  <2>5. ASSUME Cur <= candleTs + Reserve + 1, refreshed \in klines PROVE filled' \subseteq filled
    <3>1. refreshed \in Nat /\ refreshed + 1 < Cur /\ refreshed + 1 > Cur - Limit
      BY <1>1, <1>5, <2>5
    <3>2. refreshed + 1 \in refreshed .. Cur /\ Cur \in Candles /\ refreshed \in Candles
      BY <1>1, <1>2, <2>5, <3>1
    <3>3. refreshed + 1 \in Candles
      BY <3>2, BetweenFacts
    <3>4. refreshed + 1 \in D
      BY <1>2, <3>1, <3>3
    <3>5. klines \in SUBSET Nat /\ D \in SUBSET Nat /\ Connected(klines)
      BY <1>1, <1>2 DEF CacheInv
    <3>6. Connected(klines \cup D)
      BY <1>2, <2>5, <3>1, <3>4, <3>5, TouchFacts
    <3> QED
      BY <1>4, <3>6
  <2> QED
    BY <2>3, <2>4, <2>5
<1> QED
  BY <1>1, <1>6, <1>7

LEMMA RestNothing ==
  ASSUME CacheOK, mpc = "rest", klines = {}, Process(RestAnswer, TRUE)
  PROVE  filled' \subseteq filled
<1>1. StreamTypeOK /\ CacheInv /\ Connected(Dropped(RestAnswer, TRUE)) /\ RestAnswer \in SUBSET Candles
      /\ RestAnswer # {} /\ Connected(RestAnswer)
      /\ \A c \in Dropped(RestAnswer, TRUE) : c < Cur
  BY RestAnswerFacts DEF CacheOK
<1>2. klines \cup Dropped(RestAnswer, TRUE) = Dropped(RestAnswer, TRUE)
  OBVIOUS
<1> QED
  BY <1>1, <1>2, ProcessFacts

LEMMA RestStep ==
  ASSUME CacheOK, MainRest
  PROVE  /\ CacheOK'
         /\ Cur <= candleTs + Reserve + 1 /\ refreshed \in klines => filled' \subseteq filled
         /\ klines = {} => filled' \subseteq filled
<1>1. CASE Process(RestAnswer, TRUE) /\ gap' = FALSE /\ UNCHANGED troubles
  <2>1. /\ StreamTypeOK' /\ CacheInv'
        /\ Cur <= candleTs + Reserve + 1 /\ refreshed \in klines => filled' \subseteq filled
        /\ klines = {} => filled' \subseteq filled
    BY <1>1, RestFacts, RestNothing DEF MainRest
  <2>2. SocketInv' /\ DecisionInv'
    BY DEF CacheOK, MainRest, SocketInv, DecisionInv, socket, Cur
  <2> QED
    BY <2>1, <2>2 DEF CacheOK
<1>2. CASE Trouble /\ gap' = TRUE /\ UNCHANGED <<klines, filled, refreshed>>
  <2>1. StreamTypeOK'
    BY <1>2, TroubleFacts DEF CacheOK, MainRest, StreamTypeOK, socket
  <2>2. SocketInv' /\ DecisionInv' /\ CacheInv'
    BY <1>2 DEF CacheOK, MainRest, SocketInv, DecisionInv, CacheInv, socket, Cur
  <2> QED
    BY <1>2, <2>1, <2>2 DEF CacheOK
<1> QED
  BY <1>1, <1>2 DEF MainRest

LEMMA NextStep == CacheOK /\ [StreamNext]_streamVars => CacheOK'
<1>1. ASSUME CacheOK, UNCHANGED streamVars PROVE CacheOK'
  BY <1>1 DEF streamVars, CacheOK, StreamTypeOK, SocketInv, CacheInv, DecisionInv, socket, cache, Cur
<1> QED
  BY <1>1, TickStep, LoopScheduleStep, LoopDataStep, QuietSteps, AnalyzeStep, RequestStep, BuildStep,
     TakeWsStep, RestStep
  DEF StreamNext, Loop, Main

LEMMA IInvHolds == StreamSpec => []CacheOK
BY InitIInv, NextStep, PTL DEF StreamSpec

(***************************************************************************)
(* Results.                                                                *)
(***************************************************************************)

\* What the websocket's loop and the main thread share keeps its type.
THEOREM StreamTypes == StreamSpec => []StreamTypeOK
<1>1. CacheOK => StreamTypeOK
  BY DEF CacheOK
<1> QED
  BY <1>1, IInvHolds, PTL

\* For any limit of the exchange and any interleaving of the two threads, the cache
\* of refresh_latest_ohlcv holds finished candles only.
THEOREM OpenCandleIsDropped == StreamSpec => []NoLookahead
<1>1. CacheOK => NoLookahead
  BY DEF CacheOK, CacheInv, NoLookahead
<1> QED
  BY <1>1, IInvHolds, PTL

\* For any limit and reserve, clean_ohlcv_dataframe makes up candles only where
\* HolesAreExplained says so.
THEOREM HolesHaveReasons == StreamSpec => HolesAreExplained
<1>1. CacheOK /\ [StreamNext]_streamVars =>
        [\/ filled' \subseteq filled
         \/ gap /\ mpc = "ws"
         \/ mpc = "rest" /\ (Cur > candleTs + Reserve + 1 \/ refreshed \notin klines)]_streamVars
  <2> SUFFICES ASSUME CacheOK, [StreamNext]_streamVars, ~ (filled' \subseteq filled)
               PROVE  \/ gap /\ mpc = "ws"
                      \/ mpc = "rest" /\ (Cur > candleTs + Reserve + 1 \/ refreshed \notin klines)
    OBVIOUS
  <2>1. MainTakeWs \/ MainRest
    BY DEF StreamNext, Loop, Main, streamVars, Tick, LoopSchedule, LoopData, LoopDisconnect, LoopFinally, LoopStopped,
       LoopUnwatch, MainExpire, MainReset, MainRequest, MainBuild, MainAnalyze, cache
  <2>2. CASE MainTakeWs
    BY <2>2, TakeWsStep DEF MainTakeWs
  <2>3. CASE MainRest
    <3>1. \A c \in Candles : c \in Nat
      BY CandlesFacts
    <3>2. Cur \in Nat /\ candleTs \in Nat /\ Reserve \in Nat
      BY <3>1, CurFacts, CandleAssumption DEF CacheOK, StreamTypeOK
    <3>3. Cur > candleTs + Reserve + 1 \/ Cur <= candleTs + Reserve + 1
      BY <3>2
    <3> QED
      BY <2>3, <3>3, RestStep DEF MainRest
  <2> QED
    BY <2>1, <2>2, <2>3
<1> QED
  BY <1>1, IInvHolds, PTL DEF StreamSpec, HolesAreExplained

(***************************************************************************)
(* ProducerConsumer.                                                       *)
(***************************************************************************)

\* Candles without a hole.
Runs == {a .. b : a \in 1 .. MaxCandle, b \in 0 .. MaxCandle}

Asks == {Ask(n) : n \in 1 .. All}
Requests == Range(Initial) \cup Asks
Messages == {List(v) : v \in Lists} \cup {Frame(df) : df \in Runs}

QueueInv ==
  /\ up \in Seq(Requests) /\ requests \in Seq(Asks)
  /\ stream \in Seq(Messages) /\ down \in Seq(Messages)
  /\ frame \in Runs

FrameRequests == {"analyzed_df", "analyzed_dfs"}

\* What a connection begins with, in the order the consumer sends it: until the
\* producer has subscribed the channel, nothing was answered; and the request for
\* the frame is behind the others.
ChannelInv ==
  /\ ~ connected => up = <<>> /\ down = <<>> /\ stream = <<>> /\ requests = <<>> /\ ~ subscribed
  /\ connected /\ spc = 0 => up = <<>> /\ ~ subscribed
  /\ connected /\ ~ subscribed =>
       /\ down = <<>>
       /\ spc > 0 => up # <<>> /\ up[1].type = "subscribe"
       /\ spc = 1 => Len(up) = 1
       /\ spc > 1 => Len(up) > 1 /\ up[2].type = "whitelist"
  /\ up # <<>> /\ spc > 2 => up[Len(up)].type \in FrameRequests

HasLast(msg) == msg.type = "analyzed_df" /\ plast \in msg.df

\* Frames are of the past; and behind one that lacks the last candle comes one
\* that has it.
FrameInv ==
  /\ frame \subseteq 1 .. plast
  /\ \A q \in {stream, down} : \A i \in DOMAIN q :
       q[i].type = "analyzed_df" => q[i].df \subseteq 1 .. plast
  /\ \A i \in DOMAIN stream : stream[i].type = "analyzed_df" =>
       \E j \in DOMAIN stream : j >= i /\ HasLast(stream[j])
  /\ \A i \in DOMAIN down : down[i].type = "analyzed_df" /\ down[i].df # {} =>
       \/ \E j \in DOMAIN down : j >= i /\ HasLast(down[j])
       \/ \E j \in DOMAIN stream : HasLast(stream[j])
  /\ analyzed => plast > 0

NoList(q) == \A i \in DOMAIN q : q[i].type # "whitelist"

LastListIs(q, v) ==
  \E i \in DOMAIN q : q[i] = List(v) /\ \A j \in DOMAIN q : j > i => q[j].type # "whitelist"

\* The last whitelist on its way is the one that was announced; when none is, the
\* consumer has that one or ignored it, or will ask, or asked too early.
ListInv ==
  /\ NoList(stream) \/ LastListIs(stream, announced)
  /\ connected /\ ~ stale /\ spc > 1 /\ NoList(up) /\ NoList(stream) =>
       LastListIs(down, announced) \/ (NoList(down) /\ announced \in {0, pairs})

IInv == TypeOK /\ QueueInv /\ ChannelInv /\ FrameInv /\ ListInv /\ BehindIsOnTheWay

(***************************************************************************)
(* Queues.                                                                 *)
(***************************************************************************)

LEMMA AppendFacts ==
  ASSUME NEW S, NEW q \in Seq(S), NEW m \in S
  PROVE  /\ Append(q, m) \in Seq(S) /\ Append(q, m) # <<>>
         /\ Len(q) \in Nat /\ DOMAIN q = 1 .. Len(q) /\ DOMAIN Append(q, m) = 1 .. Len(q) + 1
         /\ Len(Append(q, m)) = Len(q) + 1 /\ q = <<>> <=> Len(q) = 0
         /\ \A i \in 1 .. Len(q) : Append(q, m)[i] = q[i] /\ q[i] \in S
         /\ Append(q, m)[Len(q) + 1] = m
OBVIOUS

LEMMA TailFacts ==
  ASSUME NEW S, NEW q \in Seq(S), q # <<>>
  PROVE  /\ Head(q) \in S /\ Head(q) = q[1] /\ Tail(q) \in Seq(S)
         /\ Len(q) \in Nat \ {0} /\ DOMAIN q = 1 .. Len(q)
         /\ Len(Tail(q)) = Len(q) - 1 /\ DOMAIN Tail(q) = 1 .. Len(q) - 1
         /\ Tail(q) # <<>> <=> Len(q) > 1
         /\ \A i \in 1 .. Len(q) - 1 : Tail(q)[i] = q[i + 1]
         /\ \A i \in 1 .. Len(q) : q[i] \in S
<1>1. Head(q) \in S /\ Head(q) = q[1] /\ Len(q) \in Nat \ {0} /\ DOMAIN q = 1 .. Len(q)
  OBVIOUS
<1>2. Tail(q) \in Seq(S) /\ Len(Tail(q)) = Len(q) - 1
      /\ \A i \in 1 .. Len(Tail(q)) : Tail(q)[i] = q[i + 1]
  BY HeadTailProperties
<1>3. DOMAIN Tail(q) = 1 .. Len(Tail(q)) /\ (Tail(q) # <<>> <=> Len(Tail(q)) # 0)
  BY <1>2
<1> QED
  BY <1>1, <1>2, <1>3

LEMMA EmptyFacts ==
  ASSUME NEW S
  PROVE  <<>> \in Seq(S) /\ Len(<<>>) = 0 /\ DOMAIN <<>> = {}
OBVIOUS

(***************************************************************************)
(* Messages and requests.                                                  *)
(***************************************************************************)

LEMMA MessageFacts ==
  ASSUME NEW msg \in Messages
  PROVE  \/ /\ msg.type = "whitelist" /\ msg.list \in Lists /\ msg = List(msg.list)
         \/ /\ msg.type = "analyzed_df" /\ msg.df \in Runs
BY DEF Messages, List, Frame

LEMMA RequestFacts ==
  ASSUME NEW msg \in Requests
  PROVE  /\ msg.type \in {"subscribe", "whitelist"} \cup FrameRequests
         /\ msg.type = "analyzed_df" => msg.limit \in 1 .. All
<1>1. Range(Initial) = {[type |-> "subscribe"], [type |-> "whitelist"], [type |-> "analyzed_dfs"]}
  BY DEF Range, Initial
<1> QED
  BY <1>1 DEF Requests, Asks, Ask, FrameRequests

LEMMA InitialFacts ==
  /\ Initial[1] \in Requests /\ Initial[1].type = "subscribe"
  /\ Initial[2] \in Requests /\ Initial[2].type = "whitelist"
  /\ Initial[3] \in Requests /\ Initial[3].type = "analyzed_dfs"
<1>1. Range(Initial) = {Initial[1], Initial[2], Initial[3]}
  BY DEF Range, Initial
<1> QED
  BY <1>1 DEF Requests, Initial, Ask

(***************************************************************************)
(* Candles.                                                                *)
(***************************************************************************)

LEMMA RunFacts ==
  ASSUME NEW df \in Runs, df # {}
  PROVE  /\ Min(df) \in 1 .. MaxCandle /\ Max(df) \in 1 .. MaxCandle /\ Min(df) <= Max(df)
         /\ df = Min(df) .. Max(df)
<1>1. PICK a \in 1 .. MaxCandle, b \in 0 .. MaxCandle : df = a .. b
  BY DEF Runs
<1>2. MaxCandle \in Nat /\ a <= b
  BY <1>1, ProducerConsumerAssumption
<1>3. a \in df /\ b \in df /\ df \in SUBSET Nat /\ df \in SUBSET (0 .. MaxCandle)
      /\ \A y \in df : a <= y /\ y <= b
  BY <1>1, <1>2
<1>4. Min(df) \in df /\ \A y \in df : Min(df) <= y
  BY <1>3, MinFacts
<1>5. Max(df) \in df /\ \A y \in df : y <= Max(df)
  BY <1>2, <1>3, MaxFacts
<1>6. Min(df) = a /\ Max(df) = b
  BY <1>1, <1>2, <1>3, <1>4, <1>5
<1> QED
  BY <1>1, <1>2, <1>6

LEMMA RunIs ==
  ASSUME NEW a \in 1 .. MaxCandle, NEW b \in 0 .. MaxCandle
  PROVE  a .. b \in Runs
BY DEF Runs

\* The last candles of a frame, up to the last.
LEMMA TailOfFacts ==
  ASSUME NEW p \in 1 .. MaxCandle, NEW n \in 1 .. All
  PROVE  TailOf(1 .. p, n) \in Runs /\ p \in TailOf(1 .. p, n) /\ TailOf(1 .. p, n) \subseteq 1 .. p
<1>1. MaxCandle \in Nat /\ n \in Nat /\ n > 0
  BY ProducerConsumerAssumption DEF All
<1>2. 1 .. p \in Runs /\ p \in 1 .. p
  BY <1>1, RunIs
<1>3. Max(1 .. p) = p
  <2>1. 1 .. p \in SUBSET (0 .. p) /\ p \in 1 .. p /\ p \in Nat
    BY <1>2
  <2>2. Max(1 .. p) \in 1 .. p /\ \A y \in 1 .. p : y <= Max(1 .. p)
    BY <2>1, MaxFacts
  <2> QED
    BY <2>1, <2>2
<1>4. TailOf(1 .. p, n) = {c \in 1 .. p : c > p - n}
  BY <1>3 DEF TailOf
<1>5. CASE n >= p
  <2>1. \A c \in 1 .. p : c > p - n
    BY <1>1, <1>5
  <2>2. TailOf(1 .. p, n) = 1 .. p
    BY <1>4, <2>1
  <2> QED
    BY <1>2, <2>2
<1>6. CASE n < p
  <2>1. \A c : c \in 1 .. p /\ c > p - n <=> c \in (p - n + 1) .. p
    BY <1>1, <1>6
  <2>2. TailOf(1 .. p, n) = (p - n + 1) .. p
    BY <1>4, <2>1
  <2> QED
    BY <1>1, <1>6, <2>2, RunIs
<1> QED
  BY <1>1, <1>5, <1>6

\* A request is in the stream, or counted as lost.
LEMMA AskFacts ==
  ASSUME requests \in Seq(Asks), NEW n \in 1 .. All, Request(n), lost \in BOOLEAN
  PROVE  requests' \in Seq(Asks) /\ (requests' # <<>> \/ lost') /\ lost' \in BOOLEAN
         /\ (requests' = requests \/ spc = 4)
<1>1. Ask(n) \in Asks
  BY DEF Asks
<1>2. Append(requests, Ask(n)) \in Seq(Asks) /\ Append(requests, Ask(n)) # <<>>
  BY <1>1, AppendFacts
<1> QED
  BY <1>2 DEF Request

\* What the consumer makes of a frame: its copy stays without a hole, and when the
\* frame has the last candle it has too, or it asks.
LEMMA ConsumeFacts ==
  ASSUME TypeOK, QueueInv, NEW df \in Runs, ConsumeFrame(df)
  PROVE  /\ frame' \in Runs /\ requests' \in Seq(Asks) /\ lost' \in BOOLEAN
         /\ frame' \subseteq frame \cup df
         /\ \/ df = {} /\ UNCHANGED <<frame, requests, lost>>
            \/ df # {} /\ df \subseteq frame' /\ UNCHANGED <<requests, lost>>
            \/ df # {} /\ frame' = frame /\ (requests' # <<>> \/ lost')
         /\ requests' = requests \/ spc = 4
<1>1. MaxCandle \in Nat /\ Full \in Nat \ {0} /\ All \in 1 .. All /\ All = MaxCandle
      /\ lost \in BOOLEAN /\ frame \in Runs /\ requests \in Seq(Asks)
  BY ProducerConsumerAssumption DEF TypeOK, QueueInv, All
<1>2. df = {} => Cardinality(df) = 0
  BY FS_EmptySet
<1>3. CASE df = {} /\ UNCHANGED <<frame, requests, lost>>
  BY <1>1, <1>3
<1>4. CASE Cardinality(df) >= Full /\ frame' = df /\ UNCHANGED <<requests, lost>>
  BY <1>1, <1>2, <1>4
<1>5. CASE /\ Cardinality(df) \in 1 .. Full - 1 /\ frame = {}
           /\ Request(All) /\ UNCHANGED frame
  <2>1. df # {}
    BY <1>1, <1>2, <1>5
  <2> QED
    BY <1>1, <1>5, <2>1, AskFacts
<1>6. CASE /\ Cardinality(df) \in 1 .. Full - 1 /\ frame # {}
           /\ IF HoleBefore(df) THEN Request(Missing(df)) /\ UNCHANGED frame
              ELSE frame' = {c \in frame : c < Min(df)} \cup df /\ UNCHANGED <<requests, lost>>
  <2>1. df # {}
    BY <1>1, <1>2, <1>6
  <2>2. /\ Min(df) \in 1 .. MaxCandle /\ Max(df) \in 1 .. MaxCandle /\ Min(df) <= Max(df)
        /\ df = Min(df) .. Max(df)
    BY <2>1, RunFacts
  <2>3. /\ Min(frame) \in 1 .. MaxCandle /\ Max(frame) \in 1 .. MaxCandle /\ Min(frame) <= Max(frame)
        /\ frame = Min(frame) .. Max(frame)
    BY <1>1, <1>6, RunFacts
  <2>4. CASE HoleBefore(df)
    <3>1. Missing(df) \in 1 .. All
      BY <1>1, <2>2, <2>3, <2>4 DEF Missing, HoleBefore
    <3> QED
      BY <1>1, <1>6, <2>1, <2>4, <3>1, AskFacts
  <2>5. CASE ~ HoleBefore(df)
    <3>1. frame' = {c \in frame : c < Min(df)} \cup df /\ UNCHANGED <<requests, lost>>
      BY <1>6, <2>5
    <3>2. Min(df) <= Max(frame) + 1
      BY <2>2, <2>3, <2>5 DEF HoleBefore
    <3> DEFINE a == Min(df)
               b == Max(df)
               c == Min(frame)
               d == Max(frame)
    <3> HIDE DEF a, b, c, d
    <3>3. /\ a \in 1 .. MaxCandle /\ b \in 1 .. MaxCandle /\ a <= b /\ df = a .. b
          /\ c \in 1 .. MaxCandle /\ d \in 1 .. MaxCandle /\ c <= d /\ frame = c .. d
          /\ a <= d + 1 /\ frame' = {x \in c .. d : x < a} \cup (a .. b)
      BY <2>2, <2>3, <3>1, <3>2 DEF a, b, c, d
    <3>4. frame' \in Runs
      <4>1. CASE a <= c
        <5>1. \A x : x \in frame' <=> x \in a .. b
          BY <1>1, <3>3, <4>1
        <5>2. frame' = a .. b
          BY <3>3, <5>1
        <5> QED
          BY <1>1, <3>3, <5>2, RunIs
      <4>2. CASE a > c
        <5>1. \A x : x \in frame' <=> x \in c .. b
          BY <1>1, <3>3, <4>2
        <5>2. frame' = c .. b
          BY <3>3, <5>1
        <5>3. b \in 0 .. MaxCandle
          BY <1>1, <3>3
        <5>4. c .. b \in Runs
          BY <3>3, <5>3, RunIs
        <5> QED
          BY <5>2, <5>4
      <4> QED
        BY <1>1, <3>3, <4>1, <4>2
    <3> QED
      BY <1>1, <2>1, <3>1, <3>4
  <2> QED
    BY <2>4, <2>5
<1> QED
  BY <1>3, <1>4, <1>5, <1>6 DEF ConsumeFrame

(***************************************************************************)
(* Types.                                                                  *)
(***************************************************************************)

PlainInv ==
  /\ plast \in 0 .. MaxCandle
  /\ active \in Lists /\ announced \in Lists \cup {Unset} /\ pairs \in Lists
  /\ changes \in 0 .. Changes
  /\ analyzed \in BOOLEAN /\ subscribed \in BOOLEAN /\ connected \in BOOLEAN
  /\ stale \in BOOLEAN /\ lost \in BOOLEAN
  /\ spc \in 0 .. 4 /\ losses \in 0 .. Losses

LEMMA QueueTypes ==
  /\ \A q \in Seq(Requests) : \A i \in DOMAIN q :
       q[i] \in Range(Initial) \cup {Ask(n) : n \in 1 .. All}
  /\ \A q \in Seq(Messages) : \A i \in DOMAIN q :
       q[i] \in {List(v) : v \in Lists} \cup {Frame(a .. b) : a \in 1 .. MaxCandle, b \in 0 .. MaxCandle}
  /\ Seq(Asks) \subseteq Seq(Requests)
<1>1. \A df \in Runs : Frame(df) \in {Frame(a .. b) : a \in 1 .. MaxCandle, b \in 0 .. MaxCandle}
  BY DEF Runs
<1>2. \A S, q : q \in Seq(S) => \A i \in DOMAIN q : q[i] \in S
  OBVIOUS
<1>3. Seq(Asks) \subseteq Seq(Requests)
  <2>1. Asks \subseteq Requests
    BY DEF Requests
  <2> QED
    BY <2>1, SeqMonotonic
<1> QED
  BY <1>1, <1>2, <1>3 DEF Requests, Messages, Asks

LEMMA TypeParts ==
  /\ TypeOK => PlainInv
  /\ PlainInv /\ QueueInv => TypeOK
  /\ PlainInv' /\ QueueInv' => TypeOK'
<1>1. TypeOK => PlainInv
  BY DEF TypeOK, PlainInv
<1>2. PlainInv /\ QueueInv => TypeOK
  <2> SUFFICES ASSUME PlainInv, QueueInv PROVE TypeOK
    OBVIOUS
  <2>1. frame \subseteq 1 .. MaxCandle
    BY ProducerConsumerAssumption DEF QueueInv, Runs
  <2>2. \A q \in {up, requests} : \A i \in DOMAIN q :
          q[i] \in Range(Initial) \cup {Ask(n) : n \in 1 .. All}
    <3>1. up \in Seq(Requests) /\ requests \in Seq(Requests)
      BY QueueTypes DEF QueueInv
    <3> QED
      BY <3>1, QueueTypes
  <2>3. \A q \in {stream, down} : \A i \in DOMAIN q :
          q[i] \in {List(v) : v \in Lists} \cup {Frame(a .. b) : a \in 1 .. MaxCandle, b \in 0 .. MaxCandle}
    <3>1. stream \in Seq(Messages) /\ down \in Seq(Messages)
      BY DEF QueueInv
    <3> QED
      BY <3>1, QueueTypes
  <2> QED
    BY <2>1, <2>2, <2>3 DEF PlainInv, TypeOK
<1>3. PlainInv' /\ QueueInv' => TypeOK'
  <2> SUFFICES ASSUME PlainInv', QueueInv' PROVE TypeOK'
    OBVIOUS
  <2>1. frame' \subseteq 1 .. MaxCandle
    BY ProducerConsumerAssumption DEF QueueInv, Runs
  <2>2. \A q \in {up', requests'} : \A i \in DOMAIN q :
          q[i] \in Range(Initial) \cup {Ask(n) : n \in 1 .. All}
    <3>1. up' \in Seq(Requests) /\ requests' \in Seq(Requests)
      BY QueueTypes DEF QueueInv
    <3> QED
      BY <3>1, QueueTypes
  <2>3. \A q \in {stream', down'} : \A i \in DOMAIN q :
          q[i] \in {List(v) : v \in Lists} \cup {Frame(a .. b) : a \in 1 .. MaxCandle, b \in 0 .. MaxCandle}
    <3> DEFINE Sent == {List(v) : v \in Lists} \cup {Frame(a .. b) : a \in 1 .. MaxCandle, b \in 0 .. MaxCandle}
    <3>1. stream' \in Seq(Messages) /\ down' \in Seq(Messages)
      BY DEF QueueInv
    <3>2. \A q \in Seq(Messages) : \A i \in DOMAIN q : q[i] \in Sent
      BY QueueTypes
    <3> HIDE DEF Sent
    <3>3. \A q \in {stream', down'} : \A i \in DOMAIN q : q[i] \in Sent
      BY <3>1, <3>2
    <3> QED
      BY <3>3 DEF Sent
  <2> QED
    BY <2>1, <2>2, <2>3 DEF PlainInv, TypeOK
<1> QED
  BY <1>1, <1>2, <1>3

\* What is published goes to the stream of a channel that is there.
LEMMA PublishFacts ==
  ASSUME stream \in Seq(Messages), NEW msg \in Messages, Publish(msg), connected \in BOOLEAN
  PROVE  stream' \in Seq(Messages)
         /\ (~ connected => stream' = stream) /\ (connected => stream' = Append(stream, msg))
<1>1. Append(stream, msg) \in Seq(Messages)
  BY AppendFacts
<1> QED
  BY <1>1 DEF Publish

LEMMA FrameIsMessage ==
  ASSUME NEW df \in Runs
  PROVE  /\ Frame(df) \in Messages /\ Frame(df).type = "analyzed_df" /\ Frame(df).df = df
         /\ Frame(df).type # "whitelist"
BY DEF Messages, Frame

LEMMA ListIsMessage ==
  ASSUME NEW v \in Lists
  PROVE  List(v) \in Messages /\ List(v).type = "whitelist" /\ List(v).list = v
BY DEF Messages, List

LEMMA EmptyRun ==
  {} \in Runs /\ \A c \in 1 .. MaxCandle : {c} \in Runs
<1>1. MaxCandle \in Nat /\ MaxCandle > 0
  BY ProducerConsumerAssumption
<1>2. {} = 1 .. 0 /\ 1 .. 0 \in Runs
  BY <1>1, RunIs
<1>3. ASSUME NEW c \in 1 .. MaxCandle PROVE {c} \in Runs
  <2>1. {c} = c .. c /\ c \in 0 .. MaxCandle
    BY <1>1
  <2>2. c .. c \in Runs
    BY <2>1, RunIs
  <2> QED
    BY <2>1, <2>2
<1> QED
  BY <1>2, <1>3

\* The candle that is analysed.
LEMMA AnalyzeFacts ==
  ASSUME TypeOK, QueueInv, Analyze
  PROVE  /\ plast' \in 1 .. MaxCandle /\ plast <= plast' /\ {plast'} \in Runs
         /\ Publish(Frame({plast'})) /\ Frame({plast'}) \in Messages
<1>1. MaxCandle \in Nat /\ plast \in 0 .. MaxCandle /\ History \in 1 .. MaxCandle
  BY ProducerConsumerAssumption DEF TypeOK
<1>2. PICK c \in IF plast = 0 THEN {History} ELSE {plast + 1, plast + 2} \cup (IF analyzed THEN {} ELSE {plast}) :
        /\ c <= MaxCandle /\ plast' = c /\ Publish(Frame({c}))
  BY DEF Analyze
<1>3. c \in Nat /\ c > 0 /\ plast <= c
  BY <1>1, <1>2
<1>4. c \in 1 .. MaxCandle
  BY <1>1, <1>2, <1>3
<1>5. {c} \in Runs
  BY <1>4, EmptyRun
<1> QED
  BY <1>2, <1>3, <1>4, <1>5, FrameIsMessage

\* A list that is announced is sent, but for the first when it is the configured one.
LEMMA AnnounceFacts ==
  ASSUME TypeOK, FirstList \/ AnnounceList
  PROVE  /\ announced' \in Lists /\ changes' \in 0 .. Changes
         /\ UNCHANGED <<plast, analyzed, active, subscribed, consumer, up, down, connected, losses>>
         /\ \/ Publish(List(announced')) /\ stale' = FALSE
            \/ announced = Unset /\ UNCHANGED <<stream, stale>>
<1>1. CASE FirstList
  BY <1>1 DEF FirstList, TypeOK
<1>2. CASE AnnounceList
  BY <1>2, ProducerConsumerAssumption DEF AnnounceList, TypeOK
<1> QED
  BY <1>1, <1>2

\* The answer to a request is a message.
LEMMA AnswerFacts ==
  ASSUME TypeOK, QueueInv, FrameInv, Answer
  PROVE  /\ up # <<>> /\ up' = Tail(up) /\ up[1] \in Requests
         /\ \/ /\ up[1].type = "subscribe" /\ subscribed' = TRUE /\ UNCHANGED <<down, stale, lost>>
            \/ /\ up[1].type = "whitelist" /\ down' = Append(down, List(active))
               /\ stale' = (announced # active) /\ UNCHANGED <<subscribed, lost>>
            \/ /\ up[1].type \in FrameRequests /\ UNCHANGED <<subscribed, stale>>
               /\ \/ down' = down /\ lost' = TRUE
                  \/ /\ UNCHANGED lost
                     /\ \E df \in Runs : /\ down' = Append(down, Frame(df)) /\ df \subseteq 1 .. plast
                                         /\ analyzed => plast \in df
                                         /\ ~ analyzed => df = {}
<1>1. up # <<>> /\ up' = Tail(up) /\ up \in Seq(Requests)
  BY DEF Answer, QueueInv
<1>2. Head(up) = up[1] /\ up[1] \in Requests
  BY <1>1, TailFacts
<1>3. CASE up[1].type = "subscribe"
  BY <1>1, <1>2, <1>3 DEF Answer
<1>4. CASE up[1].type = "whitelist"
  BY <1>1, <1>2, <1>4 DEF Answer
<1>5. CASE up[1].type \in FrameRequests
  <2>1. PICK n \in 1 .. All :
          \/ down' = down /\ lost' = TRUE /\ UNCHANGED <<subscribed, stale>>
          \/ down' = Append(down, FrameAnswer(n)) /\ UNCHANGED <<subscribed, stale, lost>>
    <3>1. All \in 1 .. All
      BY ProducerConsumerAssumption DEF All
    <3>2. CASE up[1].type = "analyzed_df"
      BY <1>1, <1>2, <3>2, RequestFacts DEF Answer
    <3>3. CASE up[1].type = "analyzed_dfs"
      BY <1>1, <1>2, <3>1, <3>3 DEF Answer
    <3> QED
      BY <1>5, <3>2, <3>3 DEF FrameRequests
  <2> DEFINE df == IF Analysed = {} THEN {} ELSE TailOf(Analysed, n)
  <2>2. FrameAnswer(n) = Frame(df)
    BY DEF FrameAnswer
  <2>3. /\ df \in Runs /\ df \subseteq 1 .. plast
        /\ analyzed => plast \in df
        /\ ~ analyzed => df = {}
    <3>1. CASE analyzed
      <4>1. plast \in 1 .. MaxCandle
        BY <3>1, ProducerConsumerAssumption DEF TypeOK, FrameInv
      <4>2. Analysed = 1 .. plast /\ Analysed # {}
        BY <3>1, <4>1, ProducerConsumerAssumption DEF Analysed
      <4> QED
        BY <3>1, <4>1, <4>2, TailOfFacts
    <3>2. CASE ~ analyzed
      <4>1. df = {}
        BY <3>2 DEF Analysed
      <4> HIDE DEF df
      <4> QED
        BY <3>2, <4>1, EmptyRun
    <3>3. analyzed \in BOOLEAN
      BY DEF TypeOK
    <3> QED
      BY <3>1, <3>2
  <2> HIDE DEF df
  <2> QED
    BY <1>1, <1>2, <1>5, <2>1, <2>2, <2>3
<1> QED
  BY <1>2, <1>3, <1>4, <1>5, RequestFacts

LEMMA TypeStep ==
  ASSUME TypeOK, QueueInv, FrameInv, ChannelInv, Next
  PROVE  TypeOK' /\ QueueInv'
<1> SUFFICES PlainInv' /\ QueueInv'
  BY TypeParts
<1> USE DEF QueueInv
<1>1. /\ PlainInv /\ {MaxCandle, Full, Backlog} \subseteq Nat \ {0} /\ {MaxList, Changes, Losses} \subseteq Nat
      /\ History \in 1 .. MaxCandle
  BY TypeParts, ProducerConsumerAssumption
<1>2. <<>> \in Seq(Requests) /\ <<>> \in Seq(Asks) /\ <<>> \in Seq(Messages)
  BY EmptyFacts
<1>3. CASE Analyze
  <2>1. plast' \in 1 .. MaxCandle /\ Publish(Frame({plast'})) /\ Frame({plast'}) \in Messages
    BY <1>3, AnalyzeFacts
  <2>2. stream' \in Seq(Messages)
    BY <1>1, <2>1, PublishFacts DEF PlainInv
  <2>3. /\ analyzed' = TRUE /\ lost' = FALSE
        /\ UNCHANGED <<active, announced, changes, subscribed, spc, requests, frame, pairs, up, down, connected, losses, stale>>
    BY <1>3 DEF Analyze
  <2>4. analyzed' \in BOOLEAN /\ lost' \in BOOLEAN
    BY <2>3
  <2> QED
    BY <1>1, <2>1, <2>2, <2>3, <2>4 DEF PlainInv
<1>4. CASE FirstList \/ AnnounceList
  <2>1. announced' \in Lists /\ changes' \in 0 .. Changes
        /\ UNCHANGED <<plast, analyzed, active, subscribed, consumer, up, down, connected, losses>>
    BY <1>4, AnnounceFacts
  <2>2. stream' \in Seq(Messages) /\ stale' \in BOOLEAN
    BY <1>1, <1>4, <2>1, AnnounceFacts, ListIsMessage, PublishFacts DEF PlainInv
  <2> QED
    BY <1>1, <2>1, <2>2 DEF PlainInv, consumer
<1>5. CASE AssignList
  BY <1>1, <1>5 DEF AssignList, PlainInv, consumer
<1>6. CASE Answer
  <2>1. up' \in Seq(Requests)
    <3>1. up # <<>> /\ up' = Tail(up)
      BY <1>6 DEF Answer
    <3> QED
      BY <3>1, TailFacts
  <2>2. down' \in Seq(Messages) /\ {subscribed', stale', lost'} \subseteq BOOLEAN
    <3>1. active \in Lists
      BY <1>1 DEF PlainInv
    <3>2. List(active) \in Messages /\ \A df \in Runs : Frame(df) \in Messages
      BY <3>1, ListIsMessage, FrameIsMessage
    <3>3. \A msg \in Messages : Append(down, msg) \in Seq(Messages)
      BY AppendFacts
    <3> QED
      BY <1>1, <1>6, <3>2, <3>3, AnswerFacts DEF PlainInv
  <2> QED
    BY <1>1, <1>6, <2>1, <2>2 DEF Answer, PlainInv
<1>7. CASE Broadcast
  <2>1. stream' \in Seq(Messages) /\ Head(stream) \in Messages
    BY <1>7, TailFacts DEF Broadcast
  <2>2. down' \in Seq(Messages)
    BY <1>7, <2>1, AppendFacts DEF Broadcast
  <2> QED
    BY <1>1, <1>7, <2>1, <2>2 DEF Broadcast, PlainInv, consumer
<1>8. CASE Connect
  <2>1. connected' \in BOOLEAN /\ lost' \in BOOLEAN
    BY <1>8 DEF Connect
  <2> QED
    BY <1>1, <1>2, <1>8, <2>1 DEF Connect, InitialRequests, PlainInv, producer
<1>9. CASE SendInitial
  <2>1. Initial[spc + 1] \in Requests /\ spc' \in 0 .. 4
    <3>1. spc = 0 \/ spc = 1 \/ spc = 2
      BY <1>1, <1>9 DEF SendInitial, PlainInv
    <3> QED
      BY <1>9, <3>1, InitialFacts DEF SendInitial
  <2>2. up' \in Seq(Requests)
    BY <1>9, <2>1, AppendFacts DEF SendInitial
  <2> QED
    BY <1>1, <1>9, <2>1, <2>2 DEF SendInitial, PlainInv, producer
<1>10. CASE ReadStream
  BY <1>1, <1>10 DEF ReadStream, PlainInv, producer
<1>11. CASE SendRequest
  <2>1. Head(requests) \in Asks /\ requests' \in Seq(Asks)
    BY <1>11, TailFacts DEF SendRequest
  <2>2. Head(requests) \in Requests
    BY <2>1 DEF Requests
  <2>3. up' \in Seq(Requests)
    BY <1>11, <2>2, AppendFacts DEF SendRequest
  <2> QED
    BY <1>1, <1>11, <2>1, <2>3 DEF SendRequest, PlainInv, producer
<1>12. CASE Receive
  <2>1. Head(down) \in Messages /\ down' \in Seq(Messages)
    BY <1>12, TailFacts DEF Receive
  <2>2. \/ Head(down).type = "whitelist" /\ Head(down).list \in Lists
        \/ Head(down).type = "analyzed_df" /\ Head(down).df \in Runs
    BY <2>1, MessageFacts
  <2>3. CASE Head(down).type = "whitelist"
    BY <1>1, <1>12, <2>1, <2>2, <2>3 DEF Receive, PlainInv, producer
  <2>4. CASE Head(down).type = "analyzed_df" /\ Head(down).df \in Runs
    <3>1. ConsumeFrame(Head(down).df) /\ UNCHANGED pairs
      BY <1>12, <2>4 DEF Receive
    <3>2. frame' \in Runs /\ requests' \in Seq(Asks) /\ lost' \in BOOLEAN
      BY <2>4, <3>1, ConsumeFacts
    <3> QED
      BY <1>1, <1>12, <2>1, <3>1, <3>2 DEF Receive, PlainInv, producer
  <2> QED
    BY <2>2, <2>3, <2>4
<1>13. CASE LoseConnection
  <2>1. connected' \in BOOLEAN /\ subscribed' \in BOOLEAN
    BY <1>13 DEF LoseConnection, Disconnect
  <2> QED
    BY <1>1, <1>2, <1>13, <2>1 DEF LoseConnection, Disconnect, PlainInv
<1>14. CASE RestartProducer
  <2>1. /\ connected' \in BOOLEAN /\ subscribed' \in BOOLEAN /\ analyzed' \in BOOLEAN
    BY <1>14 DEF RestartProducer, Disconnect
  <2>2. active' \in Lists
    BY <1>1, <1>14 DEF RestartProducer, Lists
  <2> QED
    BY <1>1, <1>2, <1>14, <2>1, <2>2 DEF RestartProducer, Disconnect, PlainInv
<1> QED
  BY <1>3, <1>4, <1>5, <1>6, <1>7, <1>8, <1>9, <1>10, <1>11, <1>12, <1>13, <1>14 DEF Next

(***************************************************************************)
(* The channel.                                                            *)
(***************************************************************************)

LEMMA ChannelStep ==
  ASSUME TypeOK, QueueInv, FrameInv, ChannelInv, Next
  PROVE  ChannelInv'
<1> USE DEF ChannelInv
<1>1. /\ up \in Seq(Requests) /\ requests \in Seq(Asks) /\ stream \in Seq(Messages) /\ down \in Seq(Messages)
      /\ spc \in 0 .. 4 /\ {analyzed, subscribed, connected} \subseteq BOOLEAN
  BY DEF TypeOK, QueueInv
<1>3. CASE Analyze
  <2>1. ~ connected => stream' = stream
    BY <1>3 DEF Analyze, Publish
  <2> QED
    BY <1>3, <2>1 DEF Analyze
<1>4. CASE FirstList \/ AnnounceList
  <2>1. (~ connected => stream' = stream) /\ UNCHANGED <<subscribed, consumer, up, down, connected>>
    BY <1>4, AnnounceFacts DEF Publish
  <2> QED
    BY <2>1 DEF consumer
<1>5. CASE AssignList
  BY <1>5 DEF AssignList, consumer
<1>6. CASE Answer
  <2>1. /\ up # <<>> /\ up' = Tail(up) /\ up[1] \in Requests
        /\ up[1].type = "subscribe" => subscribed' = TRUE
        /\ up[1].type # "subscribe" => subscribed' = subscribed
    BY <1>6, AnswerFacts DEF FrameRequests
  <2>2. connected /\ connected' /\ UNCHANGED spc
    BY <1>6 DEF Answer
  <2>3. subscribed'
    BY <1>1, <2>1, <2>2
  <2>4. Len(up) \in Nat \ {0} /\ Len(up') = Len(up) - 1 /\ (up' # <<>> <=> Len(up) > 1)
        /\ \A i \in 1 .. Len(up) - 1 : up'[i] = up[i + 1]
    BY <1>1, <2>1, TailFacts
  <2>5. up' # <<>> => up'[Len(up')] = up[Len(up)]
    BY <2>4
  <2> QED
    BY <1>1, <2>1, <2>2, <2>3, <2>5
<1>7. CASE Broadcast
  BY <1>7 DEF Broadcast, consumer
<1>8. CASE Connect
  BY <1>8 DEF Connect, InitialRequests, producer
<1>9. CASE SendInitial
  <2>1. Initial[spc + 1] \in Requests
    BY <1>1, <1>9, InitialFacts DEF SendInitial
  <2>2. /\ up' = Append(up, Initial[spc + 1]) /\ connected /\ spc < 3 /\ spc' = spc + 1
        /\ UNCHANGED <<producer, requests, down, connected>>
    BY <1>9 DEF SendInitial
  <2>3. /\ Len(up) \in Nat /\ up' # <<>> /\ Len(up') = Len(up) + 1 /\ (up = <<>> <=> Len(up) = 0)
        /\ \A i \in 1 .. Len(up) : up'[i] = up[i]
        /\ up'[Len(up) + 1] = Initial[spc + 1]
    BY <1>1, <2>1, <2>2, AppendFacts
  <2>4. CASE spc = 0
    BY <2>2, <2>3, <2>4, InitialFacts DEF producer
  <2>5. CASE spc = 1
    BY <2>2, <2>3, <2>5, InitialFacts DEF producer
  <2>6. CASE spc = 2
    BY <2>2, <2>3, <2>6, InitialFacts DEF producer, FrameRequests
  <2>7. spc = 0 \/ spc = 1 \/ spc = 2
    BY <1>1, <1>9 DEF SendInitial
  <2> QED
    BY <2>4, <2>5, <2>6, <2>7
<1>10. CASE ReadStream
  BY <1>10 DEF ReadStream, producer
<1>11. CASE SendRequest
  <2>1. Head(requests) \in Requests /\ Head(requests).type = "analyzed_df"
    <3>1. Head(requests) \in Asks
      BY <1>1, <1>11, TailFacts DEF SendRequest
    <3>2. \A msg \in Asks : msg \in Requests /\ msg.type = "analyzed_df"
      BY DEF Requests, Asks, Ask
    <3> QED
      BY <3>1, <3>2
  <2>2. /\ up' = Append(up, Head(requests)) /\ connected /\ spc = 4
        /\ UNCHANGED <<producer, spc, down, connected>>
    BY <1>11 DEF SendRequest
  <2>3. /\ Len(up) \in Nat /\ up' # <<>> /\ Len(up') = Len(up) + 1 /\ (up = <<>> <=> Len(up) = 0)
        /\ \A i \in 1 .. Len(up) : up'[i] = up[i]
        /\ up'[Len(up) + 1] = Head(requests)
    BY <1>1, <2>1, <2>2, AppendFacts
  <2> QED
    BY <2>1, <2>2, <2>3 DEF producer, FrameRequests
<1>12. CASE Receive
  <2>1. connected /\ down # <<>> /\ UNCHANGED <<producer, spc, up, connected>>
    BY <1>12 DEF Receive
  <2> QED
    BY <2>1 DEF producer
<1>13. CASE LoseConnection
  BY <1>13 DEF LoseConnection, Disconnect
<1>14. CASE RestartProducer
  BY <1>14 DEF RestartProducer, Disconnect
<1> QED
  BY <1>3, <1>4, <1>5, <1>6, <1>7, <1>8, <1>9, <1>10, <1>11, <1>12, <1>13, <1>14 DEF Next

(***************************************************************************)
(* Frames on their way.                                                    *)
(***************************************************************************)

LEMMA FrameStep ==
  ASSUME TypeOK, QueueInv, FrameInv, ChannelInv, Next
  PROVE  FrameInv'
<1> DEFINE Past(q, p) == \A i \in DOMAIN q : q[i].type = "analyzed_df" => q[i].df \subseteq 1 .. p
           Newest(msg, p) == msg.type = "analyzed_df" /\ p \in msg.df
           Fresh(q, p) == \A i \in DOMAIN q : q[i].type = "analyzed_df" =>
                            \E j \in DOMAIN q : j >= i /\ Newest(q[j], p)
           Behind2(q, r, p) == \A i \in DOMAIN q : q[i].type = "analyzed_df" /\ q[i].df # {} =>
                                 \/ \E j \in DOMAIN q : j >= i /\ Newest(q[j], p)
                                 \/ \E j \in DOMAIN r : Newest(r[j], p)
<1>1. /\ up \in Seq(Requests) /\ stream \in Seq(Messages) /\ down \in Seq(Messages)
      /\ plast \in 0 .. MaxCandle /\ active \in Lists /\ connected \in BOOLEAN /\ MaxCandle \in Nat
  BY ProducerConsumerAssumption DEF TypeOK, QueueInv
<1>2. /\ frame \subseteq 1 .. plast /\ Past(stream, plast) /\ Past(down, plast)
      /\ Fresh(stream, plast) /\ Behind2(down, stream, plast) /\ (analyzed => plast > 0)
  BY DEF FrameInv, HasLast
<1> SUFFICES /\ frame' \subseteq 1 .. plast' /\ Past(stream', plast') /\ Past(down', plast')
             /\ Fresh(stream', plast') /\ Behind2(down', stream', plast') /\ (analyzed' => plast' > 0)
  BY DEF FrameInv, HasLast
<1>3. Past(<<>>, plast) /\ Fresh(<<>>, plast) /\ Behind2(<<>>, <<>>, plast)
  BY EmptyFacts
<1>4. CASE UNCHANGED <<plast, frame, stream, down>> /\ (analyzed' => analyzed)
  BY <1>2, <1>4
<1>5. CASE Analyze
  <2> DEFINE msg == Frame({plast'})
  <2>1. /\ plast' \in 1 .. MaxCandle /\ plast <= plast' /\ Publish(msg) /\ msg \in Messages
        /\ UNCHANGED <<frame, down, connected>>
    BY <1>5, AnalyzeFacts DEF Analyze
  <2>2. msg.type = "analyzed_df" /\ msg.df = {plast'}
    BY DEF Frame
  <2>3. 1 .. plast \subseteq 1 .. plast' /\ plast' \in 1 .. plast' /\ plast' > 0
    BY <1>1, <2>1
  <2> HIDE DEF msg
  <2>4. frame' \subseteq 1 .. plast' /\ Past(down', plast')
    BY <1>2, <2>1, <2>3
  <2>5. CASE connected
    <3>0. stream' = Append(stream, msg)
      BY <1>1, <2>1, <2>5, PublishFacts
    <3>1. /\ Len(stream) \in Nat /\ DOMAIN stream = 1 .. Len(stream) /\ DOMAIN stream' = 1 .. Len(stream) + 1
          /\ \A i \in 1 .. Len(stream) : stream'[i] = stream[i]
          /\ stream'[Len(stream) + 1] = msg
      BY <1>1, <2>1, <3>0, AppendFacts
    <3>2. /\ Len(stream) + 1 \in DOMAIN stream' /\ Newest(stream'[Len(stream) + 1], plast')
          /\ \A i \in DOMAIN stream' : i <= Len(stream) + 1 /\ (i \in DOMAIN stream \/ i = Len(stream) + 1)
      BY <2>2, <3>1
    <3>3. Fresh(stream', plast') /\ Behind2(down', stream', plast')
      BY <3>2
    <3>4. Past(stream', plast')
      BY <1>2, <2>2, <2>3, <3>1, <3>2
    <3> QED
      BY <2>3, <2>4, <3>3, <3>4
  <2>6. CASE ~ connected
    <3>1. stream' = <<>> /\ down' = <<>>
      BY <1>1, <2>1, <2>6, PublishFacts DEF ChannelInv
    <3>2. Past(<<>>, plast') /\ Fresh(<<>>, plast') /\ Behind2(<<>>, <<>>, plast')
      BY EmptyFacts
    <3> QED
      BY <2>3, <2>4, <3>1, <3>2
  <2> QED
    BY <1>1, <2>5, <2>6
<1>6. CASE FirstList \/ AnnounceList
  <2> DEFINE msg == List(announced')
  <2>1. /\ Publish(msg) \/ stream' = stream
        /\ announced' \in Lists /\ UNCHANGED <<plast, frame, down, analyzed>>
    BY <1>6, AnnounceFacts DEF consumer
  <2>2. msg \in Messages /\ msg.type = "whitelist"
    BY <2>1, ListIsMessage
  <2> HIDE DEF msg
  <2>3. stream' = stream \/ stream' = Append(stream, msg)
    BY <1>1, <2>1, <2>2, PublishFacts
  <2>4. CASE stream' = stream
    BY <1>2, <2>1, <2>4
  <2>5. CASE stream' = Append(stream, msg)
    <3>1. /\ Len(stream) \in Nat /\ DOMAIN stream = 1 .. Len(stream) /\ DOMAIN stream' = 1 .. Len(stream) + 1
          /\ \A i \in 1 .. Len(stream) : stream'[i] = stream[i]
          /\ stream'[Len(stream) + 1] = msg
      BY <1>1, <2>2, <2>5, AppendFacts
    <3>2. /\ \A i \in DOMAIN stream : i \in DOMAIN stream' /\ stream'[i] = stream[i]
          /\ \A i \in DOMAIN stream' : stream'[i].type = "analyzed_df" => i \in DOMAIN stream
      BY <2>2, <3>1
    <3>3. Past(stream', plast)
      BY <1>2, <3>2
    <3>4. Fresh(stream', plast)
      BY <1>2, <3>2
    <3>5. Behind2(down, stream', plast)
      BY <1>2, <3>2
    <3> QED
      BY <1>2, <2>1, <3>3, <3>4, <3>5
  <2> QED
    BY <2>3, <2>4, <2>5
<1>7. CASE Answer
  <2>1. UNCHANGED <<plast, frame, stream, analyzed>>
    BY <1>7 DEF Answer
  <2>2. PICK msg \in Messages :
          /\ down' = down \/ down' = Append(down, msg)
          /\ msg.type = "analyzed_df" => /\ msg.df \subseteq 1 .. plast
                                         /\ msg.df = {} \/ plast \in msg.df
    <3>1. List(active) \in Messages /\ List(active).type = "whitelist"
      BY <1>1, ListIsMessage
    <3>2. CASE up[1].type = "subscribe" \/ up[1].type = "whitelist"
      BY <1>7, <3>1, <3>2, AnswerFacts DEF FrameRequests
    <3>3. ASSUME NEW df \in Runs, down' = Append(down, Frame(df)), df \subseteq 1 .. plast,
                 analyzed => plast \in df, ~ analyzed => df = {}
          PROVE  \E msg \in Messages :
                   /\ down' = down \/ down' = Append(down, msg)
                   /\ msg.type = "analyzed_df" => /\ msg.df \subseteq 1 .. plast
                                                  /\ msg.df = {} \/ plast \in msg.df
      BY <3>3, FrameIsMessage
    <3> QED
      BY <1>7, <3>1, <3>2, <3>3, AnswerFacts
  <2>3. CASE down' = down
    BY <1>2, <2>1, <2>3
  <2>4. CASE down' = Append(down, msg)
    <3>1. /\ Len(down) \in Nat /\ DOMAIN down = 1 .. Len(down) /\ DOMAIN down' = 1 .. Len(down) + 1
          /\ \A i \in 1 .. Len(down) : down'[i] = down[i]
          /\ down'[Len(down) + 1] = msg
      BY <1>1, <2>4, AppendFacts
    <3>2. /\ \A i \in DOMAIN down : i \in DOMAIN down' /\ down'[i] = down[i]
          /\ \A i \in DOMAIN down' : i \in DOMAIN down \/ (i = Len(down) + 1 /\ i >= i /\ down'[i] = msg)
      BY <3>1
    <3>3. Past(down', plast)
      BY <1>2, <2>2, <3>2
    <3>4. Behind2(down', stream, plast)
      BY <1>2, <2>2, <3>2
    <3> QED
      BY <1>2, <2>1, <3>3, <3>4
  <2> QED
    BY <2>2, <2>3, <2>4
<1>8. CASE Broadcast
  <2>1. /\ connected /\ stream # <<>> /\ stream' = Tail(stream)
        /\ down' = IF subscribed THEN Append(down, Head(stream)) ELSE down
        /\ UNCHANGED <<plast, frame, analyzed>>
    BY <1>8 DEF Broadcast, consumer
  <2>2. /\ Head(stream) \in Messages /\ Head(stream) = stream[1]
        /\ Len(stream) \in Nat \ {0} /\ DOMAIN stream = 1 .. Len(stream)
        /\ DOMAIN stream' = 1 .. Len(stream) - 1
        /\ \A i \in 1 .. Len(stream) - 1 : stream'[i] = stream[i + 1]
    BY <1>1, <2>1, TailFacts
  <2>3. /\ 1 \in DOMAIN stream
        /\ \A i \in DOMAIN stream' : i + 1 \in DOMAIN stream /\ stream'[i] = stream[i + 1] /\ i \in Int
        /\ \A i \in DOMAIN stream : i = 1 \/ (i - 1 \in DOMAIN stream' /\ stream'[i - 1] = stream[i] /\ i \in Int)
    BY <2>2
  <2>4. Past(stream', plast)
    BY <1>2, <2>3
  <2>5. Fresh(stream', plast)
    <3> SUFFICES ASSUME NEW i \in DOMAIN stream', stream'[i].type = "analyzed_df"
                 PROVE  \E j \in DOMAIN stream' : j >= i /\ Newest(stream'[j], plast)
      OBVIOUS
    <3>1. PICK j \in DOMAIN stream : j >= i + 1 /\ Newest(stream[j], plast)
      BY <1>2, <2>3
    <3>2. j # 1 /\ j - 1 \in DOMAIN stream' /\ stream'[j - 1] = stream[j] /\ j - 1 >= i
      BY <2>2, <2>3, <3>1
    <3> QED
      BY <3>1, <3>2
  <2>6. CASE ~ subscribed
    <3>1. down' = <<>>
      BY <2>1, <2>6 DEF ChannelInv
    <3>2. Past(<<>>, plast) /\ Behind2(<<>>, stream', plast)
      BY EmptyFacts
    <3> QED
      BY <1>2, <2>1, <2>4, <2>5, <3>1, <3>2
  <2>7. CASE subscribed
    <3>1. /\ Len(down) \in Nat /\ DOMAIN down = 1 .. Len(down) /\ DOMAIN down' = 1 .. Len(down) + 1
          /\ \A i \in 1 .. Len(down) : down'[i] = down[i]
          /\ down'[Len(down) + 1] = stream[1]
      BY <1>1, <2>1, <2>2, <2>7, AppendFacts
    <3>2. /\ \A i \in DOMAIN down : i \in DOMAIN down' /\ down'[i] = down[i] /\ i <= Len(down) + 1
          /\ \A i \in DOMAIN down' : i \in DOMAIN down \/ i = Len(down) + 1
          /\ Len(down) + 1 \in DOMAIN down' /\ Len(down) + 1 >= Len(down) + 1
      BY <3>1
    <3>3. Past(down', plast)
      BY <1>2, <2>3, <3>1, <3>2
    <3>4. \A j \in DOMAIN stream : Newest(stream[j], plast) =>
            \/ Newest(down'[Len(down) + 1], plast)
            \/ \E k \in DOMAIN stream' : Newest(stream'[k], plast)
      BY <2>3, <3>1
    <3>5. Behind2(down', stream', plast)
      <4> SUFFICES ASSUME NEW i \in DOMAIN down', down'[i].type = "analyzed_df", down'[i].df # {}
                   PROVE  \/ \E j \in DOMAIN down' : j >= i /\ Newest(down'[j], plast)
                          \/ \E j \in DOMAIN stream' : Newest(stream'[j], plast)
        OBVIOUS
      <4>1. CASE i \in DOMAIN down
        <5>1. \/ \E j \in DOMAIN down : j >= i /\ Newest(down[j], plast)
              \/ \E j \in DOMAIN stream : Newest(stream[j], plast)
          BY <1>2, <3>2, <4>1
        <5>2. i <= Len(down) + 1 /\ i \in Int
          BY <3>1, <4>1
        <5>3. Len(down) + 1 >= i
          BY <3>1, <5>2
        <5> QED
          BY <3>2, <3>4, <5>1, <5>3
      <4>2. CASE i = Len(down) + 1
        <5>1. PICK j \in DOMAIN stream : Newest(stream[j], plast)
          BY <1>2, <2>3, <3>1, <4>2
        <5> QED
          BY <3>2, <3>4, <4>2, <5>1
      <4> QED
        BY <3>2, <4>1, <4>2
    <3> QED
      BY <1>2, <2>1, <2>4, <2>5, <3>3, <3>5
  <2>8. subscribed \in BOOLEAN
    BY DEF TypeOK
  <2> QED
    BY <2>6, <2>7, <2>8
<1>9. CASE Receive
  <2>1. /\ down # <<>> /\ down' = Tail(down) /\ UNCHANGED <<plast, stream, analyzed>>
        /\ \/ Head(down).type = "whitelist" /\ UNCHANGED frame
           \/ Head(down).type = "analyzed_df" /\ ConsumeFrame(Head(down).df)
    BY <1>9 DEF Receive, producer
  <2>2. /\ Head(down) \in Messages /\ Head(down) = down[1]
        /\ Len(down) \in Nat \ {0} /\ DOMAIN down = 1 .. Len(down)
        /\ DOMAIN down' = 1 .. Len(down) - 1
        /\ \A i \in 1 .. Len(down) - 1 : down'[i] = down[i + 1]
    BY <1>1, <2>1, TailFacts
  <2>3. /\ 1 \in DOMAIN down
        /\ \A i \in DOMAIN down' : i + 1 \in DOMAIN down /\ down'[i] = down[i + 1] /\ i \in Int /\ i > 0
        /\ \A i \in DOMAIN down : i = 1 \/ (i - 1 \in DOMAIN down' /\ down'[i - 1] = down[i] /\ i \in Int)
    BY <2>2
  <2>4. frame' \subseteq 1 .. plast
    <3>1. CASE Head(down).type = "analyzed_df" /\ ConsumeFrame(Head(down).df)
      <4>1. Head(down).df \in Runs
        BY <2>2, <3>1, MessageFacts
      <4>2. Head(down).df \subseteq 1 .. plast
        BY <1>2, <2>2, <2>3, <3>1
      <4>3. frame' \subseteq frame \cup Head(down).df
        BY <3>1, <4>1, ConsumeFacts
      <4> QED
        BY <1>2, <4>2, <4>3
    <3> QED
      BY <1>2, <2>1, <3>1
  <2>5. Past(down', plast)
    BY <1>2, <2>3
  <2>6. Behind2(down', stream, plast)
    <3> SUFFICES ASSUME NEW i \in DOMAIN down', down'[i].type = "analyzed_df", down'[i].df # {}
                 PROVE  \/ \E j \in DOMAIN down' : j >= i /\ Newest(down'[j], plast)
                        \/ \E j \in DOMAIN stream : Newest(stream[j], plast)
      OBVIOUS
    <3>1. \/ \E j \in DOMAIN down : j >= i + 1 /\ Newest(down[j], plast)
          \/ \E j \in DOMAIN stream : Newest(stream[j], plast)
      BY <1>2, <2>3
    <3>2. ASSUME NEW j \in DOMAIN down, j >= i + 1, Newest(down[j], plast)
          PROVE  j - 1 \in DOMAIN down' /\ j - 1 >= i /\ Newest(down'[j - 1], plast)
      BY <2>2, <2>3, <3>2
    <3> QED
      BY <3>1, <3>2
  <2> QED
    BY <1>2, <2>1, <2>4, <2>5, <2>6
<1>10. CASE LoseConnection \/ RestartProducer
  <2>1. UNCHANGED <<plast, frame>> /\ stream' = <<>> /\ down' = <<>> /\ (analyzed' => analyzed)
    BY <1>10 DEF LoseConnection, RestartProducer, Disconnect
  <2> QED
    BY <1>2, <1>3, <2>1
<1>11. CASE AssignList \/ Connect \/ SendInitial \/ ReadStream \/ SendRequest
  <2>1. UNCHANGED <<plast, frame, stream, down>> /\ (analyzed' => analyzed)
    BY <1>11 DEF AssignList, Connect, SendInitial, ReadStream, SendRequest, producer, consumer
  <2> QED
    BY <1>4, <2>1
<1> QED
  BY <1>5, <1>6, <1>7, <1>8, <1>9, <1>10, <1>11 DEF Next

(***************************************************************************)
(* The consumer that is behind.                                            *)
(***************************************************************************)

\* Something that carries the last candle is on its way.
LastOnItsWay ==
  \/ \E i \in DOMAIN stream : HasLast(stream[i])
  \/ \E i \in DOMAIN down : HasLast(down[i])

LEMMA BehindIs ==
  /\ BehindIsOnTheWay <=>
       (connected /\ analyzed /\ Behind /\ ~ lost =>
          spc < 3 \/ up # <<>> \/ requests # <<>> \/ LastOnItsWay)
  /\ BehindIsOnTheWay' <=>
       (connected' /\ analyzed' /\ Behind' /\ ~ lost' =>
          spc' < 3 \/ up' # <<>> \/ requests' # <<>> \/ LastOnItsWay')
BY DEF BehindIsOnTheWay, LastOnItsWay, HasLast

LEMMA BehindStep ==
  ASSUME IInv, Next
  PROVE  BehindIsOnTheWay'
<1>1. /\ up \in Seq(Requests) /\ stream \in Seq(Messages) /\ down \in Seq(Messages)
      /\ frame \in Runs /\ plast \in 0 .. MaxCandle /\ active \in Lists /\ MaxCandle \in Nat
      /\ TypeOK /\ QueueInv /\ FrameInv /\ ChannelInv
  BY ProducerConsumerAssumption DEF IInv, TypeOK, QueueInv
<1>2. connected /\ analyzed /\ Behind /\ ~ lost =>
        spc < 3 \/ up # <<>> \/ requests # <<>> \/ LastOnItsWay
  BY BehindIs DEF IInv
<1> SUFFICES ASSUME connected', analyzed', Behind', ~ lost',
                    ~ (spc' < 3), up' = <<>>, requests' = <<>>
             PROVE  LastOnItsWay'
  BY BehindIs
\* Nothing of it all was done by a step that leaves these alone.
<1>3. ASSUME UNCHANGED <<connected, analyzed, lost, frame, plast, spc, up, requests>>,
             LastOnItsWay => LastOnItsWay'
      PROVE  LastOnItsWay'
  BY <1>2, <1>3 DEF Behind
<1>4. CASE Analyze
  <2> DEFINE msg == Frame({plast'})
  <2>1. Publish(msg) /\ msg \in Messages /\ connected
    BY <1>1, <1>4, AnalyzeFacts DEF Analyze
  <2>2. msg.type = "analyzed_df" /\ plast' \in msg.df
    BY DEF Frame
  <2> HIDE DEF msg
  <2>3. stream' = Append(stream, msg)
    BY <1>1, <2>1 DEF Publish
  <2>4. Len(stream) + 1 \in DOMAIN stream' /\ stream'[Len(stream) + 1] = msg
    BY <1>1, <2>1, <2>3, AppendFacts
  <2> QED
    BY <2>2, <2>4 DEF LastOnItsWay, HasLast
<1>5. CASE FirstList \/ AnnounceList
  <2> DEFINE msg == List(announced')
  <2>1. (Publish(msg) \/ stream' = stream) /\ announced' \in Lists
    BY <1>1, <1>5, AnnounceFacts
  <2>2. msg \in Messages
    BY <2>1, ListIsMessage
  <2>3. UNCHANGED <<connected, analyzed, lost, frame, plast, spc, up, requests, down>>
    BY <1>1, <1>5, AnnounceFacts DEF consumer
  <2> HIDE DEF msg
  <2>4. stream' = stream \/ stream' = Append(stream, msg)
    BY <2>1 DEF Publish
  <2>5. \A i \in DOMAIN stream : i \in DOMAIN stream' /\ stream'[i] = stream[i]
    <3>1. CASE stream' = stream
      BY <3>1
    <3>2. CASE stream' = Append(stream, msg)
      BY <1>1, <2>2, <3>2, AppendFacts
    <3> QED
      BY <2>4, <3>1, <3>2
  <2> QED
    BY <1>3, <2>3, <2>5 DEF LastOnItsWay, HasLast
<1>6. CASE Answer
  <2>1. UNCHANGED <<connected, analyzed, frame, plast, spc, requests, stream>>
    BY <1>6 DEF Answer
  <2>2. up # <<>> /\ up' = Tail(up) /\ up[1] \in Requests
    BY <1>1, <1>6, AnswerFacts
  <2>3. Len(up) = 1
    <3>1. Len(up) \in Nat /\ Len(up') = Len(up) - 1
      BY <1>1, <2>2, TailFacts
    <3>2. Len(up') = 0
      BY EmptyFacts
    <3> QED
      BY <3>1, <3>2
  <2>4. up[1].type \in FrameRequests
    BY <1>1, <2>1, <2>2, <2>3 DEF ChannelInv, IInv, TypeOK
  <2>5. PICK df \in Runs : down' = Append(down, Frame(df)) /\ plast \in df
    BY <1>1, <1>6, <2>1, <2>4, AnswerFacts DEF FrameRequests
  <2>6. Frame(df) \in Messages /\ Frame(df).type = "analyzed_df" /\ Frame(df).df = df
    BY FrameIsMessage
  <2>7. Len(down) + 1 \in DOMAIN down' /\ down'[Len(down) + 1] = Frame(df)
    BY <1>1, <2>5, <2>6, AppendFacts
  <2> QED
    BY <2>1, <2>5, <2>6, <2>7 DEF LastOnItsWay, HasLast
<1>7. CASE Broadcast
  <2>1. /\ connected /\ stream # <<>> /\ stream' = Tail(stream)
        /\ down' = IF subscribed THEN Append(down, Head(stream)) ELSE down
        /\ UNCHANGED <<connected, analyzed, lost, frame, plast, spc, up, requests>>
    BY <1>7 DEF Broadcast, consumer
  <2>2. subscribed
    <3>1. spc > 0
      BY <1>1, <2>1 DEF TypeOK
    <3> QED
      BY <1>1, <2>1, <3>1 DEF ChannelInv
  <2>3. /\ Head(stream) \in Messages /\ Head(stream) = stream[1]
        /\ \A i \in DOMAIN stream : i = 1 \/ (i - 1 \in DOMAIN stream' /\ stream'[i - 1] = stream[i])
    <3>1. /\ Head(stream) \in Messages /\ Head(stream) = stream[1]
          /\ Len(stream) \in Nat \ {0} /\ DOMAIN stream = 1 .. Len(stream)
          /\ DOMAIN stream' = 1 .. Len(stream) - 1
          /\ \A i \in 1 .. Len(stream) - 1 : stream'[i] = stream[i + 1]
      BY <1>1, <2>1, TailFacts
    <3> QED
      BY <3>1
  <2>4. /\ Len(down) + 1 \in DOMAIN down' /\ down'[Len(down) + 1] = stream[1]
        /\ \A i \in DOMAIN down : i \in DOMAIN down' /\ down'[i] = down[i]
    BY <1>1, <2>1, <2>2, <2>3, AppendFacts
  <2>5. LastOnItsWay => LastOnItsWay'
    <3>1. ASSUME NEW i \in DOMAIN stream, HasLast(stream[i]) PROVE LastOnItsWay'
      <4>1. CASE i = 1
        BY <2>1, <2>4, <3>1, <4>1 DEF LastOnItsWay, HasLast
      <4>2. CASE i # 1
        <5>1. i - 1 \in DOMAIN stream' /\ stream'[i - 1] = stream[i]
          BY <2>3, <4>2
        <5> QED
          BY <2>1, <3>1, <5>1 DEF LastOnItsWay, HasLast
      <4> QED
        BY <4>1, <4>2
    <3>2. ASSUME NEW i \in DOMAIN down, HasLast(down[i]) PROVE LastOnItsWay'
      BY <2>1, <2>4, <3>2 DEF LastOnItsWay, HasLast
    <3> QED
      BY <3>1, <3>2 DEF LastOnItsWay
  <2> QED
    BY <1>3, <2>1, <2>5
<1>8. CASE Receive
  <2>1. /\ down # <<>> /\ down' = Tail(down)
        /\ UNCHANGED <<connected, analyzed, plast, stream, spc, up>>
    BY <1>8 DEF Receive, producer
  <2>2. /\ Head(down) \in Messages /\ Head(down) = down[1] /\ 1 \in DOMAIN down
        /\ \A i \in DOMAIN down : i = 1 \/ (i - 1 \in DOMAIN down' /\ down'[i - 1] = down[i])
    <3>1. /\ Head(down) \in Messages /\ Head(down) = down[1]
          /\ Len(down) \in Nat \ {0} /\ DOMAIN down = 1 .. Len(down)
          /\ DOMAIN down' = 1 .. Len(down) - 1
          /\ \A i \in 1 .. Len(down) - 1 : down'[i] = down[i + 1]
      BY <1>1, <2>1, TailFacts
    <3> QED
      BY <3>1
  <2>3. CASE Head(down).type = "whitelist"
    <3>1. UNCHANGED <<frame, requests, lost>> /\ ~ HasLast(Head(down))
      BY <1>8, <2>3 DEF Receive, HasLast
    <3>2. LastOnItsWay => LastOnItsWay'
      BY <2>1, <2>2, <3>1 DEF LastOnItsWay, HasLast
    <3> QED
      BY <1>3, <2>1, <3>1, <3>2
  <2>4. CASE Head(down).type = "analyzed_df"
    <3> DEFINE df == Head(down).df
    <3>1. df \in Runs /\ ConsumeFrame(df) /\ df \subseteq 1 .. plast
      <4>1. df \in Runs /\ ConsumeFrame(df)
        BY <1>8, <2>2, <2>4, MessageFacts DEF Receive
      <4>2. df \subseteq 1 .. plast
        BY <1>1, <2>2, <2>4 DEF FrameInv
      <4> QED
        BY <4>1, <4>2
    <3>2. HasLast(Head(down)) <=> plast \in df
      BY <2>4 DEF HasLast
    <3>3. df # {} => plast \in df \/ LastOnItsWay'
      <4> SUFFICES ASSUME df # {} PROVE plast \in df \/ LastOnItsWay'
        OBVIOUS
      <4>1. \/ \E j \in DOMAIN down : HasLast(down[j])
            \/ \E j \in DOMAIN stream : HasLast(stream[j])
        BY <1>1, <2>2, <2>4 DEF FrameInv
      <4>2. ASSUME NEW j \in DOMAIN stream, HasLast(stream[j]) PROVE LastOnItsWay'
        BY <2>1, <4>2 DEF LastOnItsWay, HasLast
      <4>3. ASSUME NEW j \in DOMAIN down, HasLast(down[j]), j # 1 PROVE LastOnItsWay'
        <5>1. j - 1 \in DOMAIN down' /\ down'[j - 1] = down[j]
          BY <2>2, <4>3
        <5> QED
          BY <2>1, <4>3, <5>1 DEF LastOnItsWay, HasLast
      <4> HIDE DEF df
      <4> QED
        BY <2>2, <3>2, <4>1, <4>2, <4>3
    <3> HIDE DEF df
    <3>4. /\ frame' \in Runs /\ frame' \subseteq frame \cup df
          /\ \/ df = {} /\ UNCHANGED <<frame, requests, lost>>
             \/ df # {} /\ df \subseteq frame' /\ UNCHANGED <<requests, lost>>
             \/ df # {} /\ frame' = frame /\ (requests' # <<>> \/ lost')
      BY <1>1, <3>1, ConsumeFacts
    <3>5. CASE df = {} /\ UNCHANGED <<frame, requests, lost>>
      <4>1. ~ HasLast(Head(down))
        BY <3>2, <3>5
      <4>2. LastOnItsWay => LastOnItsWay'
        BY <2>1, <2>2, <4>1 DEF LastOnItsWay, HasLast
      <4> QED
        BY <1>3, <2>1, <3>5, <4>2
    <3>6. CASE df # {} /\ df \subseteq frame' /\ UNCHANGED <<requests, lost>>
      <4> SUFFICES ASSUME plast \in df PROVE FALSE
        BY <3>3, <3>6
      <4>1. plast \in frame' /\ frame' # {}
        BY <3>6
      <4>2. frame' = Min(frame') .. Max(frame') /\ Max(frame') \in 1 .. MaxCandle
        BY <3>4, <4>1, RunFacts
      <4>3. plast <= Max(frame')
        <5>1. plast \in Min(frame') .. Max(frame')
          BY <4>1, <4>2
        <5> QED
          BY <5>1
      <4>4. ~ (Max(frame') < plast)
        BY <1>1, <4>2, <4>3
      <4> QED
        BY <2>1, <4>1, <4>4 DEF Behind
    <3>7. CASE df # {} /\ frame' = frame /\ (requests' # <<>> \/ lost')
      BY <3>7
    <3> QED
      BY <3>4, <3>5, <3>6, <3>7
  <2> QED
    BY <2>2, <2>3, <2>4, MessageFacts
<1>9. CASE SendInitial
  <2>1. up' = Append(up, Initial[spc + 1]) /\ spc \in {0, 1, 2}
    BY <1>1, <1>9 DEF SendInitial, TypeOK
  <2>2. Initial[spc + 1] \in Requests
    BY <2>1, InitialFacts
  <2> QED
    BY <1>1, <2>1, <2>2, AppendFacts
<1>10. CASE ReadStream
  <2>1. UNCHANGED <<connected, analyzed, lost, frame, plast, up, requests, stream, down>> /\ spc = 3
    BY <1>10 DEF ReadStream, producer
  <2>2. LastOnItsWay => LastOnItsWay'
    BY <2>1 DEF LastOnItsWay, HasLast
  <2>3. Behind' <=> Behind
    BY <2>1 DEF Behind
  <2> QED
    BY <1>2, <2>1, <2>2, <2>3
<1>11. CASE SendRequest
  <2>1. up' = Append(up, Head(requests)) /\ requests # <<>> /\ requests \in Seq(Asks)
    BY <1>1, <1>11 DEF SendRequest, QueueInv
  <2>2. Head(requests) \in Requests
    <3>1. Head(requests) \in Asks
      BY <2>1, TailFacts
    <3> QED
      BY <3>1 DEF Requests
  <2>3. Append(up, Head(requests)) # <<>>
    BY <1>1, <2>2, AppendFacts
  <2> QED
    BY <2>1, <2>3
<1>12. CASE AssignList
  <2>1. UNCHANGED <<connected, analyzed, lost, frame, plast, spc, up, requests, stream, down>>
    BY <1>12 DEF AssignList, consumer
  <2> QED
    BY <1>3, <2>1 DEF LastOnItsWay, HasLast
<1>13. CASE Connect
  <2>1. spc' = 0
    BY <1>13 DEF Connect, InitialRequests
  <2> QED
    BY <2>1
<1>14. CASE LoseConnection \/ RestartProducer
  BY <1>14 DEF LoseConnection, RestartProducer, Disconnect
<1> QED
  BY <1>4, <1>5, <1>6, <1>7, <1>8, <1>9, <1>10, <1>11, <1>12, <1>13, <1>14 DEF Next

(***************************************************************************)
(* Whitelists on their way.                                                *)
(***************************************************************************)

\* A message behind the others, and one taken from the front.
LEMMA ListAppended ==
  ASSUME NEW q \in Seq(Messages), NEW msg \in Messages, NEW v
  PROVE  /\ msg = List(v) => LastListIs(Append(q, msg), v)
         /\ msg.type # "whitelist" => /\ NoList(q) <=> NoList(Append(q, msg))
                                      /\ LastListIs(q, v) => LastListIs(Append(q, msg), v)
<1> DEFINE r == Append(q, msg)
<1>1. /\ Len(q) \in Nat /\ DOMAIN q = 1 .. Len(q) /\ DOMAIN r = 1 .. Len(q) + 1
      /\ \A i \in 1 .. Len(q) : r[i] = q[i]
      /\ r[Len(q) + 1] = msg
  BY AppendFacts
<1> HIDE DEF r
<1>2. /\ Len(q) + 1 \in DOMAIN r /\ \A j \in DOMAIN r : ~ (j > Len(q) + 1)
      /\ \A i \in DOMAIN q : i \in DOMAIN r /\ r[i] = q[i]
      /\ \A i \in DOMAIN r : i \in DOMAIN q \/ (i = Len(q) + 1 /\ r[i] = msg)
  BY <1>1
<1>3. ASSUME msg = List(v) PROVE LastListIs(r, v)
  BY <1>1, <1>2, <1>3 DEF LastListIs
<1>4. ASSUME msg.type # "whitelist"
      PROVE  (NoList(q) <=> NoList(r)) /\ (LastListIs(q, v) => LastListIs(r, v))
  <2>1. NoList(q) <=> NoList(r)
    BY <1>2, <1>4 DEF NoList
  <2>2. LastListIs(q, v) => LastListIs(r, v)
    BY <1>2, <1>4 DEF LastListIs
  <2> QED
    BY <2>1, <2>2
<1> QED
  BY <1>3, <1>4 DEF r

LEMMA ListTaken ==
  ASSUME NEW q \in Seq(Messages), q # <<>>, NEW v
  PROVE  /\ NoList(q) => NoList(Tail(q)) /\ q[1].type # "whitelist"
         /\ q[1].type # "whitelist" /\ NoList(Tail(q)) => NoList(q)
         /\ LastListIs(q, v) => \/ LastListIs(Tail(q), v)
                                \/ q[1] = List(v) /\ NoList(Tail(q))
<1> DEFINE r == Tail(q)
<1>1. /\ Len(q) \in Nat \ {0} /\ DOMAIN q = 1 .. Len(q) /\ DOMAIN r = 1 .. Len(q) - 1
      /\ \A i \in 1 .. Len(q) - 1 : r[i] = q[i + 1]
  BY TailFacts
<1> HIDE DEF r
<1>2. /\ 1 \in DOMAIN q
      /\ \A i \in DOMAIN r : i + 1 \in DOMAIN q /\ r[i] = q[i + 1] /\ i \in Nat /\ i > 0
      /\ \A i \in DOMAIN q : i \in Nat /\ (i = 1 \/ (i - 1 \in DOMAIN r /\ r[i - 1] = q[i]))
  BY <1>1
<1>3. NoList(q) => NoList(r) /\ q[1].type # "whitelist"
  BY <1>2 DEF NoList
<1>4. q[1].type # "whitelist" /\ NoList(r) => NoList(q)
  BY <1>2 DEF NoList
<1>5. ASSUME LastListIs(q, v)
      PROVE  LastListIs(r, v) \/ (q[1] = List(v) /\ NoList(r))
  <2>1. PICK i \in DOMAIN q : q[i] = List(v) /\ \A j \in DOMAIN q : j > i => q[j].type # "whitelist"
    BY <1>5 DEF LastListIs
  <2>2. CASE i = 1
    <3>1. \A j \in DOMAIN r : j + 1 > 1
      BY <1>2
    <3>2. NoList(r)
      BY <1>2, <2>1, <2>2, <3>1 DEF NoList
    <3> QED
      BY <2>1, <2>2, <3>2
  <2>3. CASE i # 1
    <3>1. i - 1 \in DOMAIN r /\ r[i - 1] = List(v)
      BY <1>2, <2>1, <2>3
    <3>2. \A j \in DOMAIN r : j > i - 1 => j + 1 > i
      BY <1>2
    <3>3. \A j \in DOMAIN r : j > i - 1 => r[j].type # "whitelist"
      BY <1>2, <2>1, <3>2
    <3> QED
      BY <3>1, <3>3 DEF LastListIs
  <2> QED
    BY <2>2, <2>3
<1> QED
  BY <1>3, <1>4, <1>5 DEF r

LEMMA ListExcludes ==
  ASSUME NEW q, NEW v
  PROVE  ~ (NoList(q) /\ LastListIs(q, v))
BY DEF NoList, LastListIs, List

\* No message carries the list of a producer that has none yet.
LEMMA UnsetIsNotSent ==
  ASSUME NEW q \in Seq(Messages)
  PROVE  ~ LastListIs(q, Unset)
<1>1. \A i \in DOMAIN q : q[i] \in Messages
  OBVIOUS
<1>2. List(Unset).type = "whitelist" /\ List(Unset).list = Unset
  BY DEF List
<1>3. Unset \notin Lists
  BY ProducerConsumerAssumption DEF Unset, Lists
<1> QED
  BY <1>1, <1>2, <1>3, MessageFacts DEF LastListIs

LEMMA NoListFacts ==
  ASSUME NEW S, NEW q \in Seq(S)
  PROVE  /\ \A msg \in S : NoList(Append(q, msg)) <=> NoList(q) /\ msg.type # "whitelist"
         /\ q # <<>> => (NoList(q) <=> q[1].type # "whitelist" /\ NoList(Tail(q)))
         /\ NoList(<<>>)
<1>1. ASSUME NEW msg \in S
      PROVE  NoList(Append(q, msg)) <=> NoList(q) /\ msg.type # "whitelist"
  <2> DEFINE r == Append(q, msg)
  <2>1. /\ Len(q) \in Nat /\ DOMAIN q = 1 .. Len(q) /\ DOMAIN r = 1 .. Len(q) + 1
        /\ \A i \in 1 .. Len(q) : r[i] = q[i]
        /\ r[Len(q) + 1] = msg
    BY AppendFacts
  <2> HIDE DEF r
  <2>2. /\ Len(q) + 1 \in DOMAIN r
        /\ \A i \in DOMAIN q : i \in DOMAIN r /\ r[i] = q[i]
        /\ \A i \in DOMAIN r : i \in DOMAIN q \/ (i = Len(q) + 1 /\ r[i] = msg)
    BY <2>1
  <2>3. NoList(r) <=> NoList(q) /\ msg.type # "whitelist"
    BY <2>1, <2>2 DEF NoList
  <2> QED
    BY <2>3 DEF r
<1>2. ASSUME q # <<>>
      PROVE  NoList(q) <=> q[1].type # "whitelist" /\ NoList(Tail(q))
  <2> DEFINE r == Tail(q)
  <2>1. /\ Len(q) \in Nat \ {0} /\ DOMAIN q = 1 .. Len(q) /\ DOMAIN r = 1 .. Len(q) - 1
        /\ \A i \in 1 .. Len(q) - 1 : r[i] = q[i + 1]
    BY <1>2, TailFacts
  <2> HIDE DEF r
  <2>2. /\ 1 \in DOMAIN q
        /\ \A i \in DOMAIN r : i + 1 \in DOMAIN q /\ r[i] = q[i + 1]
        /\ \A i \in DOMAIN q : i = 1 \/ (i - 1 \in DOMAIN r /\ r[i - 1] = q[i])
    BY <2>1
  <2>3. NoList(q) <=> q[1].type # "whitelist" /\ NoList(r)
    BY <2>2 DEF NoList
  <2> QED
    BY <2>3 DEF r
<1>3. NoList(<<>>)
  BY EmptyFacts DEF NoList
<1> QED
  BY <1>1, <1>2, <1>3

LEMMA ListStep ==
  ASSUME TypeOK, QueueInv, FrameInv, ChannelInv, ListInv, Next
  PROVE  ListInv'
<1>1. /\ up \in Seq(Requests) /\ requests \in Seq(Asks) /\ stream \in Seq(Messages) /\ down \in Seq(Messages)
      /\ spc \in 0 .. 4 /\ active \in Lists /\ pairs \in Lists
      /\ connected \in BOOLEAN /\ subscribed \in BOOLEAN
  BY DEF TypeOK, QueueInv
<1>2. NoList(stream) \/ LastListIs(stream, announced)
  BY DEF ListInv
<1>3. connected /\ ~ stale /\ spc > 1 /\ NoList(up) /\ NoList(stream) =>
        LastListIs(down, announced) \/ (NoList(down) /\ announced \in {0, pairs})
  BY DEF ListInv
<1> SUFFICES /\ NoList(stream') \/ LastListIs(stream', announced')
             /\ connected' /\ ~ stale' /\ spc' > 1 /\ NoList(up') /\ NoList(stream') =>
                  LastListIs(down', announced') \/ (NoList(down') /\ announced' \in {0, pairs'})
  BY DEF ListInv, NoList, LastListIs, List
<1>4. CASE Analyze
  <2> DEFINE msg == Frame({plast'})
  <2>1. Publish(msg) /\ msg \in Messages
        /\ UNCHANGED <<connected, stale, spc, up, announced, down, pairs>>
    BY <1>4, AnalyzeFacts DEF Analyze
  <2>2. msg.type # "whitelist"
    BY DEF Frame
  <2> HIDE DEF msg
  <2>3. stream' = stream \/ stream' = Append(stream, msg)
    BY <1>1, <2>1, PublishFacts
  <2>4. (NoList(stream') <=> NoList(stream)) /\ (LastListIs(stream, announced) => LastListIs(stream', announced))
    BY <1>1, <2>1, <2>2, <2>3, ListAppended
  <2> QED
    BY <1>2, <1>3, <2>1, <2>4
<1>5. CASE FirstList \/ AnnounceList
  <2> DEFINE msg == List(announced')
  <2>1. announced' \in Lists /\ UNCHANGED <<connected, up, down, spc, pairs>>
    BY <1>5, AnnounceFacts DEF consumer
  <2>2. msg \in Messages /\ msg = List(announced')
    BY <2>1, ListIsMessage
  <2> HIDE DEF msg
  <2>3. CASE connected /\ Publish(msg)
    <3>1. stream' = Append(stream, msg)
      BY <2>1, <2>3 DEF Publish
    <3>2. LastListIs(stream', announced')
      BY <1>1, <2>2, <3>1, ListAppended
    <3> QED
      BY <2>1, <3>2, ListExcludes
  <2>4. CASE ~ connected /\ Publish(msg)
    <3>1. stream' = <<>> /\ ~ connected'
      BY <1>1, <2>1, <2>2, <2>4, PublishFacts DEF ChannelInv
    <3> QED
      BY <1>1, <3>1, NoListFacts
  <2>5. CASE announced = Unset /\ UNCHANGED <<stream, stale>>
    <3>1. Unset \notin {0, pairs}
      BY <1>1, ProducerConsumerAssumption DEF Unset, Lists
    <3>2. NoList(stream) /\ ~ (connected /\ ~ stale /\ spc > 1 /\ NoList(up))
      BY <1>1, <1>2, <1>3, <2>5, <3>1, UnsetIsNotSent
    <3> QED
      BY <2>1, <2>5, <3>2
  <2> QED
    BY <1>1, <1>5, <2>3, <2>4, <2>5, AnnounceFacts DEF msg
<1>6. CASE AssignList
  <2>1. UNCHANGED <<connected, stale, spc, up, announced, stream, down, pairs>>
    BY <1>6 DEF AssignList, consumer
  <2> QED
    BY <1>2, <1>3, <2>1
<1>7. CASE Answer
  <2>1. UNCHANGED <<connected, spc, announced, stream, pairs>>
    BY <1>7 DEF Answer
  <2>2. up # <<>> /\ up' = Tail(up) /\ up[1] \in Requests
    BY <1>7, AnswerFacts
  <2>3. NoList(up) <=> up[1].type # "whitelist" /\ NoList(up')
    BY <1>1, <2>2, NoListFacts
  <2>4. CASE up[1].type = "whitelist"
    <3>1. down' = Append(down, List(active)) /\ stale' = (announced # active)
      BY <1>7, <2>4, AnswerFacts DEF FrameRequests
    <3>2. List(active) \in Messages
      BY <1>1, ListIsMessage
    <3>3. LastListIs(down', active)
      BY <1>1, <3>1, <3>2, ListAppended
    <3> QED
      BY <1>2, <2>1, <3>1, <3>3
  <2>5. CASE up[1].type = "subscribe"
    <3>1. UNCHANGED <<down, stale>>
      BY <1>7, <2>5, AnswerFacts DEF FrameRequests
    <3> QED
      BY <1>2, <1>3, <2>1, <2>3, <2>5, <3>1
  <2>6. CASE up[1].type \in FrameRequests
    <3>1. UNCHANGED stale /\ (down' = down \/ \E df \in Runs : down' = Append(down, Frame(df)))
      BY <1>7, <2>6, AnswerFacts DEF FrameRequests
    <3>2. /\ NoList(down) => NoList(down')
          /\ LastListIs(down, announced) => LastListIs(down', announced)
      BY <1>1, <3>1, FrameIsMessage, ListAppended
    <3> QED
      BY <1>2, <1>3, <2>1, <2>3, <2>6, <3>1, <3>2 DEF FrameRequests
  <2> QED
    BY <2>2, <2>4, <2>5, <2>6, RequestFacts
<1>8. CASE Broadcast
  <2>1. /\ connected /\ stream # <<>> /\ stream' = Tail(stream)
        /\ down' = IF subscribed THEN Append(down, Head(stream)) ELSE down
        /\ UNCHANGED <<connected, stale, spc, up, announced, pairs>>
    BY <1>8 DEF Broadcast, consumer
  <2>2. Head(stream) = stream[1] /\ stream[1] \in Messages
    BY <1>1, <2>1, TailFacts
  <2>3. /\ NoList(stream) <=> stream[1].type # "whitelist" /\ NoList(stream')
        /\ LastListIs(stream, announced) => \/ LastListIs(stream', announced)
                                            \/ stream[1] = List(announced) /\ NoList(stream')
    BY <1>1, <2>1, NoListFacts, ListTaken
  <2>4. NoList(stream') \/ LastListIs(stream', announced)
    BY <1>2, <2>3
  <2>5. ASSUME ~ stale, spc > 1, NoList(up), NoList(stream')
        PROVE  LastListIs(down', announced) \/ (NoList(down') /\ announced \in {0, pairs})
    <3>1. subscribed
      <4>1. ~ subscribed => Len(up) > 1 /\ up[2].type = "whitelist"
        BY <2>1, <2>5 DEF ChannelInv
      <4>2. Len(up) \in Nat /\ DOMAIN up = 1 .. Len(up)
        BY <1>1
      <4>3. Len(up) > 1 => 2 \in DOMAIN up
        BY <4>2
      <4> QED
        BY <2>5, <4>1, <4>3 DEF NoList
    <3>2. down' = Append(down, stream[1])
      BY <2>1, <2>2, <3>1
    <3>3. CASE NoList(stream)
      <4>1. stream[1].type # "whitelist"
        BY <2>3, <3>3
      <4>2. /\ NoList(down) => NoList(down')
            /\ LastListIs(down, announced) => LastListIs(down', announced)
        BY <1>1, <2>2, <3>2, <4>1, ListAppended
      <4> QED
        BY <1>3, <2>1, <2>5, <3>3, <4>2
    <3>4. CASE LastListIs(stream, announced)
      <4>1. stream[1] = List(announced)
        BY <1>1, <2>3, <2>5, <3>4, ListExcludes
      <4> QED
        BY <1>1, <2>2, <3>2, <4>1, ListAppended
    <3> QED
      BY <1>2, <3>3, <3>4
  <2> QED
    BY <2>1, <2>4, <2>5
<1>9. CASE Connect
  <2>1. UNCHANGED <<announced, stream>> /\ spc' = 0
    BY <1>9 DEF Connect, InitialRequests, producer
  <2> QED
    BY <1>2, <2>1
<1>10. CASE SendInitial
  <2>1. /\ up' = Append(up, Initial[spc + 1]) /\ spc' = spc + 1 /\ spc < 3
        /\ UNCHANGED <<connected, stale, announced, stream, down, pairs>>
    BY <1>10 DEF SendInitial, producer
  <2>2. spc = 0 \/ spc = 1 \/ spc = 2
    BY <1>1, <2>1
  <2>3. CASE spc = 0
    BY <1>2, <2>1, <2>3
  <2>4. CASE spc = 1
    <3>1. ~ NoList(up')
      BY <1>1, <2>1, <2>4, InitialFacts, NoListFacts
    <3> QED
      BY <1>2, <2>1, <3>1
  <2>5. CASE spc = 2
    <3>1. NoList(up') => NoList(up)
      BY <1>1, <2>1, <2>5, InitialFacts, NoListFacts
    <3> QED
      BY <1>2, <1>3, <2>1, <2>5, <3>1
  <2> QED
    BY <2>2, <2>3, <2>4, <2>5
<1>11. CASE ReadStream
  <2>1. UNCHANGED <<connected, stale, up, announced, stream, down, pairs>> /\ spc = 3
    BY <1>11 DEF ReadStream, producer
  <2> QED
    BY <1>2, <1>3, <2>1
<1>12. CASE SendRequest
  <2>1. /\ up' = Append(up, Head(requests)) /\ requests # <<>>
        /\ UNCHANGED <<connected, stale, spc, announced, stream, down, pairs>>
    BY <1>12 DEF SendRequest, producer
  <2>2. Head(requests) \in Requests
    <3>1. Head(requests) \in Asks
      BY <1>1, <2>1, TailFacts
    <3> QED
      BY <3>1 DEF Requests
  <2>3. NoList(up') => NoList(up)
    BY <1>1, <2>1, <2>2, NoListFacts
  <2> QED
    BY <1>2, <1>3, <2>1, <2>3
<1>13. CASE Receive
  <2>1. /\ down # <<>> /\ down' = Tail(down)
        /\ UNCHANGED <<connected, stale, spc, up, announced, stream>>
        /\ \/ /\ Head(down).type = "whitelist"
              /\ pairs' = IF Head(down).list = 0 THEN pairs ELSE Head(down).list
           \/ Head(down).type = "analyzed_df" /\ UNCHANGED pairs
    BY <1>13 DEF Receive, producer
  <2>2. Head(down) = down[1]
    BY <1>1, <2>1, TailFacts
  <2>3. /\ NoList(down) <=> down[1].type # "whitelist" /\ NoList(down')
        /\ LastListIs(down, announced) => \/ LastListIs(down', announced)
                                          \/ down[1] = List(announced) /\ NoList(down')
    BY <1>1, <2>1, NoListFacts, ListTaken
  <2>4. down[1] = List(announced) => announced \in {0, pairs'}
    <3>1. List(announced).type = "whitelist" /\ List(announced).list = announced
      BY DEF List
    <3> QED
      BY <2>1, <2>2, <3>1
  <2>5. NoList(down) => pairs' = pairs
    BY <2>1, <2>2, <2>3
  <2> QED
    BY <1>2, <1>3, <2>1, <2>3, <2>4, <2>5
<1>14. CASE LoseConnection \/ RestartProducer
  <2>1. stream' = <<>> /\ connected' = FALSE
    BY <1>14 DEF LoseConnection, RestartProducer, Disconnect
  <2> QED
    BY <1>1, <2>1, NoListFacts
<1> QED
  BY <1>4, <1>5, <1>6, <1>7, <1>8, <1>9, <1>10, <1>11, <1>12, <1>13, <1>14 DEF Next

(***************************************************************************)
(* Theorems.                                                               *)
(***************************************************************************)

LEMMA InvariantHolds == Spec => []IInv
<1>1. Init => IInv
  <2> SUFFICES ASSUME Init PROVE IInv
    OBVIOUS
  <2> USE DEF Init
  <2>1. QueueInv
    BY EmptyFacts, EmptyRun DEF QueueInv
  <2>2. PlainInv
    <3>1. /\ analyzed \in BOOLEAN /\ subscribed \in BOOLEAN /\ connected \in BOOLEAN
          /\ stale \in BOOLEAN /\ lost \in BOOLEAN
      OBVIOUS
    <3>2. MaxCandle \in Nat /\ MaxList \in Nat /\ Changes \in Nat /\ Losses \in Nat
      BY ProducerConsumerAssumption
    <3> QED
      BY <3>1, <3>2 DEF PlainInv, Lists
  <2>3. ChannelInv
    BY DEF ChannelInv
  <2>4. FrameInv
    BY EmptyFacts DEF FrameInv
  <2>5. ListInv
    BY EmptyFacts, NoListFacts DEF ListInv
  <2>6. BehindIsOnTheWay
    BY DEF BehindIsOnTheWay
  <2> QED
    BY <2>1, <2>2, <2>3, <2>4, <2>5, <2>6, TypeParts DEF IInv
<1>2. IInv /\ [Next]_vars => IInv'
  <2> SUFFICES ASSUME IInv, [Next]_vars PROVE IInv'
    OBVIOUS
  <2>1. CASE Next
    BY <2>1, TypeStep, ChannelStep, FrameStep, ListStep, BehindStep DEF IInv
  <2>2. CASE UNCHANGED vars
    <3> USE <2>2 DEF vars, producer, consumer
    <3>1. TypeOK'
      BY DEF IInv, TypeOK
    <3>2. QueueInv' /\ ChannelInv'
      BY DEF IInv, QueueInv, ChannelInv
    <3>3. FrameInv'
      BY DEF IInv, FrameInv, HasLast
    <3>4. ListInv'
      BY DEF IInv, ListInv, NoList, LastListIs
    <3>5. BehindIsOnTheWay'
      BY DEF IInv, BehindIsOnTheWay, Behind
    <3> QED
      BY <3>1, <3>2, <3>3, <3>4, <3>5 DEF IInv
  <2> QED
    BY <2>1, <2>2
<1> QED
  BY <1>1, <1>2, PTL DEF Spec

\* The variables have their types: candles, versions and counters within their
\* bounds, and nothing but requests and messages in the queues.
THEOREM TypesHold == Spec => []TypeOK
<1>1. IInv => TypeOK
  BY DEF IInv
<1> QED
  BY <1>1, InvariantHolds, PTL

\* The consumer's copy of the frame (_add_external_df) has no hole.
THEOREM CopyHasNoHole == Spec => []NoHole
<1>1. IInv => NoHole
  BY RunFacts DEF IInv, QueueInv, NoHole
<1> QED
  BY <1>1, InvariantHolds, PTL

\* A consumer that is behind has something on its way that helps.
THEOREM HelpIsOnTheWay == Spec => []BehindIsOnTheWay
<1>1. IInv => BehindIsOnTheWay
  BY DEF IInv
<1> QED
  BY <1>1, InvariantHolds, PTL

\* A consumer with an old whitelist will get the new one, unless that is empty, or
\* it asked between _refresh_active_whitelist and the assignment in __init__ or
\* process.
THEOREM NewListIsOnTheWay == Spec => []OldListIsReplaced
<1>1. ASSUME IInv PROVE OldListIsReplaced
  <2> SUFFICES ASSUME connected, announced = active, active # 0, pairs # active, ~ stale,
                      ~ (spc < 2)
               PROVE  \/ \E i \in DOMAIN up : up[i].type = "whitelist"
                      \/ \E q \in {stream, down} : \E i \in DOMAIN q : q[i] = List(active)
    BY DEF OldListIsReplaced
  <2>1. spc > 1
    BY <1>1 DEF IInv, TypeOK
  <2>2. CASE ~ NoList(up)
    BY <2>2 DEF NoList
  <2>3. CASE LastListIs(stream, announced) \/ LastListIs(down, announced)
    BY <2>3 DEF LastListIs
  <2> QED
    BY <1>1, <2>1, <2>2, <2>3 DEF IInv, ListInv
<1> QED
  BY <1>1, InvariantHolds, PTL
=============================================================================
