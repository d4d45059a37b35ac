--------------------------- MODULE BacktestProofs ---------------------------
(***************************************************************************)
(* What holds of Backtest for any pairs, numbers of candles, slots and     *)
(* entries, and any protections: the orders of open trades, the slots, the *)
(* locks and the trades of a pair in a candle.                             *)
(***************************************************************************)
EXTENDS Backtest, FiniteSetTheorems, WellFoundedInduction, TLAPS

(***************************************************************************)
(* The inductive invariant.                                                *)
(***************************************************************************)

Direction == Sides \cup {"none"}

InPass == pc \in {"manage", "enter", "fill", "adjust", "exit", "exits", "done"}

TypeInv ==
  /\ {stacking, protected, second} \subseteq BOOLEAN
  /\ now \in 0 .. Candles * Details - 1 /\ nextId \in Nat \ {0}
  /\ skip \subseteq Pairs /\ pair \in Pairs
  /\ DOMAIN queue \subseteq Pairs /\ DOMAIN cached \subseteq Pairs
  /\ \A p \in DOMAIN cached : cached[p] \in Direction
  /\ dir \in Direction /\ exiting \in Direction
  /\ pc \in {"next", "manage", "enter", "fill", "adjust", "exit", "exits", "done", "end"}

Row ==
  [id : Nat \ {0}, pair : Pairs, side : Sides, amount : 0 .. MaxEntries, entries : 0 .. MaxEntries,
   orders : Seq([kind : {"entry", "exit"}, amount : 1 .. MaxEntries]), stop : BOOLEAN, from : Nat]

\* What a trade holds, and the one order it may have.
Waits(x)   == x.orders = <<Order("entry", 1)>> /\ x.entries < MaxEntries
Sells(x)   == \E a \in 1 .. x.amount : x.orders = <<Order("exit", a)>>
Holds(x)   == x.orders = <<>> /\ x.amount # 0
Sound(x)   == x \in Row /\ x.amount <= x.entries /\ (x.amount = 0 => x.entries = 0)
Fits(x)    == Sound(x) /\ (Waits(x) \/ Sells(x) \/ Holds(x))

\* The list of trades and what counts and numbers them.
OpenInv ==
  /\ \A x \in open : Fits(x) /\ x.id < nextId
  /\ \A x, y \in open : x.id = y.id => x = y
  /\ IsFiniteSet(Ids(open)) /\ count = Cardinality(Ids(open))

\* The loops visit open trades of the pair; the one that is visited may close.
TodoInv ==
  /\ InPass =>
       /\ todo \subseteq 1 .. nextId - 1
       /\ \A x \in open : x.id \in todo => x.pair = pair
  /\ pc = "manage" => todo \subseteq Ids(open)
  /\ pc \in {"fill", "adjust"} => todo # {} /\ todo \subseteq Ids(open)
  /\ pc \in {"exit", "exits"} => todo # {} /\ todo \ {Current} \subseteq Ids(open)

ClosedInv ==
  /\ IsFiniteSet(closed)
  /\ pc # "end" => \A c \in closed : c.at \in Nat /\ c.at <= now /\ c.side \in Sides /\ c.pair \in Pairs

\* The stoplosses that StoplossGuard counts with c.
Window(C, c) ==
  {d \in C : d.stop /\ d.at \in c.at - Lookback + 1 .. c.at /\ (PerSide => d.side = c.side)}

\* The locks that follow from the end of c.
Locks(L, C, c) ==
  /\ \E l \in L : l.pair \in {c.pair, "*"} /\ l.until >= c.at + Cooldown /\ l.side = "*"
  /\ c.stop /\ Cardinality(Window(C, c)) >= GuardLimit =>
       \E l \in L : /\ l.pair = "*" /\ l.until >= c.at + GuardStop
                    /\ l.side \in {"*", IF PerSide THEN c.side ELSE "*"}

LocksInv ==
  /\ pc # "end" => \A l \in locks : l.until \in Nat
  /\ protected /\ pc # "end" => \A c \in closed : Locks(locks, closed, c)

\* A trade of this main candle that was open when its pair was visited.
Ended(c) == c.at \div Details = now \div Details /\ c.from < c.at

\* Its pair is not visited in this main candle, or has a trade in the other
\* direction.
AfterIt(c) ==
  /\ c.pair \in skip /\ (IsFirst => c.pair \notin DOMAIN queue)
  /\ OfPair(c.pair) # {} => c.pair \in DOMAIN cached /\ cached[c.pair] # c.side
  /\ InPass /\ pair = c.pair =>
       \/ dir # c.side
       \/ pc \notin {"manage", "enter"} /\ OfPair(pair) = {} /\ exiting = c.side

\* Without stacking a pair has one trade.  While it is visited, exiting is the side
\* of a trade that was there before.
Signal == InPass => /\ dir # "none" => pair \in DOMAIN cached /\ cached[pair] = dir
                    /\ pair \notin DOMAIN queue
OneEach  == \A x, y \in open : x.pair = y.pair => x = y
FromPast == InPass => \A x \in OfPair(pair) : x.from < now => exiting = x.side /\ pair \in skip
NotAgain == pc # "end" => \A c \in closed : Ended(c) => AfterIt(c)

SinglesInv == Signal /\ (~ stacking => OneEach /\ FromPast /\ NotAgain)

IInv == TypeInv /\ OpenInv /\ TodoInv /\ ClosedInv /\ LocksInv /\ SinglesInv

(***************************************************************************)
(* The operators.                                                          *)
(***************************************************************************)

LEMMA Numbers ==
  /\ MaxEntries \in Nat \ {0} /\ MaxOpenTrades \in Nat \ {0} /\ Candles \in Nat \ {0}
  /\ Details \in Nat \ {0} /\ Lookback \in Nat \ {0} /\ GuardLimit \in Nat \ {0}
  /\ Cooldown \in Nat /\ GuardStop \in Nat
BY BacktestAssumption

LEMMA SmallestOf ==
  ASSUME NEW T \in SUBSET Nat, T # {}
  PROVE  \E n \in T : \A m \in T : n <= m
<1>1. PICK n \in T : \A m \in T : ~ (<<m, n>> \in OpToRel(<, Nat))
  BY NatLessThanWellFounded, WFMin
<1>2. \A m \in T : ~ (m < n)
  BY <1>1 DEF OpToRel
<1> QED
  BY <1>2

LEMMA CurrentIs ==
  ASSUME todo \subseteq Nat, todo # {}
  PROVE  Current \in todo
<1>1. \E n \in todo : \A m \in todo : n <= m
  BY SmallestOf
<1> QED
  BY <1>1, Zenon DEF Current, Min

\* Ids are unique.
LEMMA TradeIs ==
  ASSUME OpenInv, NEW x \in open
  PROVE  Trade(x.id) = x
<1>1. Trade(x.id) \in open /\ Trade(x.id).id = x.id
  BY Zenon DEF Trade
<1> QED
  BY <1>1 DEF OpenInv

LEMMA TradeOf ==
  ASSUME OpenInv, NEW i \in Ids(open)
  PROVE  Trade(i) \in open /\ Trade(i).id = i
<1>1. PICK x \in open : x.id = i
  BY DEF Ids
<1> QED
  BY <1>1, TradeIs

LEMMA OldestIs ==
  ASSUME OpenInv, NEW T \in SUBSET open, T # {}
  PROVE  Oldest(T) \in T
<1> DEFINE N == {x.id : x \in T}
<1>1. N \subseteq Nat /\ N # {}
  BY DEF OpenInv, Fits, Sound, Row
<1>2. PICK n \in N : \A m \in N : n <= m
  BY <1>1, SmallestOf
<1>3. PICK x \in T : x.id = n
  OBVIOUS
<1>4. \A y \in T : x.id <= y.id
  BY <1>2, <1>3
<1> QED
  BY <1>4, Zenon DEF Oldest

\* The only order of a trade is taken away.
LEMMA OnlyOne ==
  ASSUME NEW o
  PROVE  RemoveFirst(<<o>>, o) = <<>>
<1> DEFINE s == <<o>>
           I == {i \in 1 .. Len(s) : s[i] = o}
<1>1. Len(s) = 1 /\ s[1] = o /\ I = {1}
  OBVIOUS
<1>2. SelectInSeq(s, LAMBDA v : v = o) = 1
  <2>1. SelectInSeq(s, LAMBDA v : v = o) = IF I # {} THEN Min(I) ELSE 0
    BY DEF SelectInSeq
  <2>2. \E m \in I : \A n \in I : m <= n
    BY <1>1
  <2>3. Min(I) \in I
    BY <2>2, Zenon DEF Min
  <2> QED
    BY <1>1, <2>1, <2>3
<1>3. RemoveFirst(s, o) = RemoveAt(s, 1)
  BY <1>1, <1>2 DEF RemoveFirst
<1>4. RemoveAt(s, 1) = SubSeq(s, 1, 0) \o SubSeq(s, 2, 1)
  BY <1>1 DEF RemoveAt
<1>5. SubSeq(s, 1, 0) = <<>> /\ SubSeq(s, 2, 1) = <<>>
  OBVIOUS
<1> QED
  BY <1>3, <1>4, <1>5

(***************************************************************************)
(* What the orders of a trade become.                                      *)
(***************************************************************************)

SameTrade(x, y) == y.id = x.id /\ y.pair = x.pair /\ y.side = x.side /\ y.from = x.from

OrderType == [kind : {"entry", "exit"}, amount : 1 .. MaxEntries]

LEMMA OrderIs ==
  ASSUME NEW a \in 1 .. MaxEntries, NEW k \in {"entry", "exit"}
  PROVE  /\ Order(k, a) \in OrderType /\ Order(k, a).kind = k /\ Order(k, a).amount = a
         /\ <<Order(k, a)>> \in Seq(OrderType)
BY DEF Order, OrderType

LEMMA RangeOfOne == \A o : Range(<<o>>) = {o}
BY DEF Range

LEMMA WithOrderIs ==
  ASSUME NEW x, Sound(x), NEW o \in OrderType
  PROVE  /\ WithOrder(x, o) \in Row /\ WithOrder(x, o).orders = <<o>>
         /\ WithOrder(x, o).amount = x.amount /\ WithOrder(x, o).entries = x.entries
         /\ SameTrade(x, WithOrder(x, o))
<1>1. <<o>> \in Seq(OrderType)
  OBVIOUS
<1> QED
  BY <1>1 DEF WithOrder, Sound, Row, SameTrade, OrderType

\* A new entry order, filled or not.
LEMMA EntryFits ==
  ASSUME NEW x, Sound(x), x.entries < MaxEntries,
         NEW y \in Entered(x, Order("entry", 1))
  PROVE  Fits(y) /\ SameTrade(x, y)
<1> DEFINE o == Order("entry", 1)
           w == WithOrder(x, o)
<1>1. o \in OrderType /\ o.kind = "entry" /\ o.amount = 1
  BY OrderIs, Numbers
<1>2. /\ w \in Row /\ w.orders = <<o>> /\ w.amount = x.amount /\ w.entries = x.entries
      /\ SameTrade(x, w)
  BY <1>1, WithOrderIs
<1>3. Fits(w)
  BY <1>2 DEF Fits, Sound, Waits
<1>4. Fits(Filled(w, o)) /\ SameTrade(x, Filled(w, o))
  <2>1. Filled(w, o) = [w EXCEPT !.amount = w.amount + 1, !.entries = w.entries + 1, !.orders = <<>>]
    BY <1>1, <1>2, OnlyOne DEF Filled
  <2>2. x.amount \in 0 .. MaxEntries /\ x.entries \in 0 .. MaxEntries /\ x.amount <= x.entries
    BY DEF Sound, Row
  <2>3. Filled(w, o) \in Row /\ Filled(w, o).orders = <<>> /\ SameTrade(w, Filled(w, o))
    <3>1. /\ x.amount + 1 \in 0 .. MaxEntries /\ x.entries + 1 \in 0 .. MaxEntries
          /\ <<>> \in Seq([kind : {"entry", "exit"}, amount : 1 .. MaxEntries])
      BY <2>2, Numbers
    <3> HIDE DEF w
    <3> QED
      BY <2>1, <3>1, <1>2 DEF Row, SameTrade
  <2>4. Filled(w, o).amount = x.amount + 1 /\ Filled(w, o).entries = x.entries + 1
    BY <2>1, <1>2 DEF Row
  <2> HIDE DEF w
  <2> QED
    BY <2>2, <2>3, <2>4, <1>2 DEF Fits, Sound, Holds, SameTrade
<1> QED
  BY <1>2, <1>3, <1>4 DEF Entered

\* An exit order, where a similar one may stay.
LEMMA ExitFits ==
  ASSUME NEW x, Sound(x), x.orders = <<>> \/ Fits(x), NEW a \in 1 .. x.amount,
         NEW y \in ExitTrade(x, Order("exit", a))
  PROVE  Fits(y) /\ SameTrade(x, y) /\ y.orders = <<Order("exit", a)>> /\ y.amount = x.amount
<1> DEFINE o == Order("exit", a)
           w == WithOrder(x, o)
<1>1. a \in 1 .. MaxEntries
  BY Numbers DEF Sound, Row
<1>2. o \in OrderType /\ o.kind = "exit" /\ o.amount = a
  BY <1>1, OrderIs
<1>3. /\ w \in Row /\ w.orders = <<o>> /\ w.amount = x.amount /\ w.entries = x.entries
      /\ SameTrade(x, w)
  BY <1>2, WithOrderIs
<1>4. CASE y = w
  BY <1>3, <1>4 DEF Fits, Sound, Sells
<1>5. CASE y = x /\ o \in Range(x.orders)
  <2>1. x.orders # <<>>
    BY <1>5 DEF Range
  <2>2. PICK p : x.orders = <<p>>
    BY <2>1 DEF Fits, Waits, Sells, Holds
  <2>3. p = o
    BY <1>5, <2>2, RangeOfOne
  <2> QED
    BY <1>5, <2>1, <2>2, <2>3 DEF SameTrade
<1> QED
  BY <1>4, <1>5 DEF ExitTrade

\* One order of a trade is all there is.
LEMMA OneOrder ==
  ASSUME NEW x, Fits(x), NEW o \in Range(x.orders)
  PROVE  /\ x.orders = <<o>> /\ o \in OrderType
         /\ o.kind = "entry" => x.entries < MaxEntries /\ o = Order("entry", 1)
         /\ o.kind = "exit" => o.amount \in 1 .. x.amount /\ o = Order("exit", o.amount)
<1>1. x.orders # <<>>
  BY DEF Range
<1>2. CASE Waits(x)
  BY <1>2, RangeOfOne, OrderIs, Numbers DEF Waits
<1>3. CASE Sells(x)
  <2>1. PICK a \in 1 .. x.amount : x.orders = <<Order("exit", a)>>
    BY <1>3 DEF Sells
  <2>2. a \in 1 .. MaxEntries
    BY Numbers DEF Fits, Sound, Row
  <2> QED
    BY <2>1, <2>2, RangeOfOne, OrderIs
<1> QED
  BY <1>1, <1>2, <1>3 DEF Fits, Holds

\* What is left of a trade without its order.
LEMMA WithoutOrder ==
  ASSUME NEW x, Fits(x), NEW o \in Range(x.orders), NEW w,
         w = [x EXCEPT !.orders = RemoveFirst(@, o)]
  PROVE  /\ Sound(w) /\ w.orders = <<>> /\ w.amount = x.amount /\ w.entries = x.entries
         /\ SameTrade(x, w)
<1>1. w = [x EXCEPT !.orders = <<>>]
  BY OneOrder, OnlyOne
<1>2. <<>> \in Seq([kind : {"entry", "exit"}, amount : 1 .. MaxEntries])
  OBVIOUS
<1> QED
  BY <1>1, <1>2 DEF Fits, Sound, Row, SameTrade

\* An entry order that fills.
LEMMA EntryFills ==
  ASSUME NEW x, Fits(x), NEW o \in Range(x.orders), o.kind = "entry"
  PROVE  Fits(Filled(x, o)) /\ SameTrade(x, Filled(x, o))
<1>1. x.orders = <<o>> /\ x.entries < MaxEntries /\ o = Order("entry", 1)
  BY OneOrder
<1>2. o.amount = 1
  BY <1>1, OrderIs, Numbers
<1>3. Filled(x, o) = [x EXCEPT !.amount = x.amount + 1, !.entries = x.entries + 1, !.orders = <<>>]
  BY <1>1, <1>2, OnlyOne DEF Filled
<1>4. /\ x.amount + 1 \in 0 .. MaxEntries /\ x.entries + 1 \in 0 .. MaxEntries /\ x \in Row
      /\ x.amount + 1 <= x.entries + 1 /\ x.amount + 1 # 0
      /\ <<>> \in Seq([kind : {"entry", "exit"}, amount : 1 .. MaxEntries])
  BY <1>1, Numbers DEF Fits, Sound, Row
<1> QED
  BY <1>3, <1>4 DEF Fits, Sound, Row, Holds, SameTrade

\* A part of a trade that is sold.
LEMMA PartFills ==
  ASSUME NEW x, Fits(x), NEW a \in 1 .. x.amount, x.orders = <<Order("exit", a)>>, a # x.amount
  PROVE  Fits(Filled(x, Order("exit", a))) /\ SameTrade(x, Filled(x, Order("exit", a)))
<1> DEFINE o == Order("exit", a)
<1>1. a \in 1 .. MaxEntries
  BY Numbers DEF Fits, Sound, Row
<1>2. o.kind = "exit" /\ o.amount = a
  BY <1>1, OrderIs
<1>3. Filled(x, o) = [x EXCEPT !.amount = x.amount - a, !.entries = x.entries, !.orders = <<>>]
  BY <1>2, OnlyOne DEF Filled
<1>4. /\ x.amount - a \in 0 .. MaxEntries /\ x \in Row /\ x.entries \in 0 .. MaxEntries
      /\ x.amount - a <= x.entries /\ x.amount - a # 0
      /\ <<>> \in Seq([kind : {"entry", "exit"}, amount : 1 .. MaxEntries])
  BY Numbers DEF Fits, Sound, Row
<1> HIDE DEF o
<1> QED
  BY <1>3, <1>4 DEF Fits, Sound, Row, Holds, SameTrade, o

\* Whether a stoploss sells it does not matter.
LEMMA StopFits ==
  ASSUME NEW x, Fits(x), NEW s \in BOOLEAN, NEW w, w = [x EXCEPT !.stop = s]
  PROVE  Fits(w) /\ SameTrade(x, w) /\ w.orders = x.orders /\ w.amount = x.amount
<1>1. /\ w \in Row /\ w.orders = x.orders /\ w.amount = x.amount /\ w.entries = x.entries
      /\ SameTrade(x, w)
  BY DEF Fits, Sound, Row, SameTrade
<1> QED
  BY <1>1 DEF Fits, Sound, Waits, Sells, Holds

(***************************************************************************)
(* What a step does to the list of trades.                                 *)
(***************************************************************************)

SoldAt(y, t) ==
  [id |-> y.id, pair |-> y.pair, side |-> y.side, stop |-> y.stop, from |-> y.from, at |-> t]

Changed(x, y, t) ==
  /\ open' = (open \ {x}) \cup {y} /\ UNCHANGED <<count, closed>>
  /\ locks' \in {locks, Protections(locks, closed, y, t)}

Dropped(x) == open' = open \ {x} /\ count' = count - 1 /\ UNCHANGED <<closed, locks>>

Sold(x, y, t) ==
  /\ open' = open \ {x} /\ count' = count - 1 /\ closed' = closed \cup {SoldAt(y, t)}
  /\ locks' = Protections(locks, closed', y, t)

\* A trade x changes, is given up or is sold.
Visited(x, t) ==
  \E y : Fits(y) /\ SameTrade(x, y) /\ (Changed(x, y, t) \/ Dropped(x) \/ Sold(x, y, t))

LEMMA KeepIs ==
  ASSUME OpenInv, NEW x \in open, NEW y, Fits(y), SameTrade(x, y), Keep(y), NEW t
  PROVE  Visited(x, t)
<1>1. open' = (open \ {x}) \cup {y}
  BY TradeIs DEF Keep, Updated, SameTrade
<1>2. UNCHANGED <<count, closed, locks>>
  BY DEF Keep
<1>3. Changed(x, y, t)
  BY <1>1, <1>2 DEF Changed
<1> QED
  BY <1>3 DEF Visited

LEMMA DropIs ==
  ASSUME OpenInv, NEW x \in open, RemoveTrade(x), UNCHANGED <<closed, locks>>, NEW t
  PROVE  Visited(x, t)
<1>1. Dropped(x)
  BY TradeIs DEF RemoveTrade, Dropped
<1>2. Fits(x) /\ SameTrade(x, x)
  BY DEF OpenInv, SameTrade
<1> QED
  BY <1>1, <1>2 DEF Visited

LEMMA ExitFillsIs ==
  ASSUME OpenInv, NEW x \in open, NEW y, Fits(y), SameTrade(x, y), NEW t,
         NEW a \in 1 .. y.amount, y.orders = <<Order("exit", a)>>, ExitFills(y, Order("exit", a), t)
  PROVE  Visited(x, t)
<1> DEFINE o == Order("exit", a)
<1>1. a \in 1 .. MaxEntries
  BY Numbers DEF Fits, Sound, Row
<1>2. o.amount = a
  BY <1>1, OrderIs
<1>3. Trade(y.id) = x
  BY TradeIs DEF SameTrade
<1>4. CASE o.amount = y.amount /\ Close(y, t)
  <2>1. Sold(x, y, t)
    BY <1>3, <1>4 DEF Close, RemoveTrade, Sold, SoldAt
  <2> QED
    BY <2>1 DEF Visited
<1>5. CASE /\ o.amount # y.amount /\ open' = Updated(Filled(y, o))
           /\ locks' = Protections(locks, closed, y, t) /\ UNCHANGED <<count, closed>>
  <2>1. Fits(Filled(y, o)) /\ SameTrade(y, Filled(y, o))
    BY <1>2, <1>5, PartFills
  <2>2. Protections(locks, closed, Filled(y, o), t) = Protections(locks, closed, y, t)
    BY <2>1 DEF Protections, SameTrade
  <2>3. Trade(Filled(y, o).id) = x
    BY <1>3, <2>1 DEF SameTrade
  <2>4. Changed(x, Filled(y, o), t)
    BY <1>5, <2>2, <2>3 DEF Changed, Updated
  <2>5. SameTrade(x, Filled(y, o))
    BY <2>1 DEF SameTrade
  <2> QED
    BY <2>1, <2>4, <2>5 DEF Visited
<1> QED
  BY <1>4, <1>5 DEF ExitFills

\* The trade the loop is at.
LEMMA CurrentTrade ==
  ASSUME TypeInv, OpenInv, TodoInv, InPass, todo # {}, Current \in Ids(open)
  PROVE  /\ Trade(Current) \in open /\ Trade(Current).id = Current /\ Current \in todo
         /\ Trade(Current).pair = pair
<1>1. todo \subseteq Nat
  BY DEF TodoInv, TypeInv
<1>2. Current \in todo
  BY <1>1, CurrentIs
<1>3. Trade(Current) \in open /\ Trade(Current).id = Current
  BY TradeOf
<1> QED
  BY <1>2, <1>3 DEF TodoInv

LEMMA ManageIs ==
  ASSUME TypeInv, OpenInv, TodoInv, ManageOrders, todo # {}
  PROVE  Visited(Trade(Current), now) /\ Trade(Current) \in OfPair(pair)
<1> DEFINE x == Trade(Current)
<1>1. InPass /\ Current \in Ids(open)
  <2>1. pc = "manage" /\ todo \subseteq Nat /\ todo \subseteq Ids(open)
    BY DEF ManageOrders, TodoInv, InPass, TypeInv
  <2> QED
    BY <2>1, CurrentIs DEF InPass
<1>2. x \in open /\ x.id = Current /\ x.pair = pair
  BY <1>1, CurrentTrade
<1>3. Fits(x)
  BY <1>2 DEF OpenInv
<1>4. ASSUME Keep(x)
      PROVE  Visited(x, now)
  <2>1. SameTrade(x, x)
    BY DEF SameTrade
  <2> QED
    BY <1>2, <1>3, <1>4, <2>1, KeepIs
<1>5. ASSUME NEW o \in Range(x.orders), NEW w, w = [x EXCEPT !.orders = RemoveFirst(@, o)],
             NEW y \in {w} \cup (IF o.kind = "entry" THEN EnterMore(w, o) ELSE ExitTrade(w, o)),
             IF o.kind = "entry" /\ y.orders = <<>> /\ y.entries = 0
             THEN RemoveTrade(x) /\ UNCHANGED <<closed, locks>>
             ELSE Keep(y)
      PROVE  Visited(x, now)
  <2>1. /\ Sound(w) /\ w.orders = <<>> /\ w.amount = x.amount /\ w.entries = x.entries
        /\ SameTrade(x, w)
    BY <1>3, <1>5, WithoutOrder
  <2>2. CASE o.kind = "entry" /\ y.orders = <<>> /\ y.entries = 0
    BY <1>2, <1>5, <2>2, DropIs
  <2>3. CASE ~ (o.kind = "entry" /\ y.orders = <<>> /\ y.entries = 0)
    <3>1. Fits(y) /\ SameTrade(x, y)
      <4>1. CASE y = w
        <5>1. w.amount # 0
          <6>1. CASE o.kind = "entry"
            BY <2>1, <2>3, <4>1, <6>1 DEF Sound
          <6>2. CASE o.kind = "exit"
            <7>1. o.amount \in 1 .. x.amount
              BY <1>3, <6>2, OneOrder
            <7>2. x.amount \in Nat
              BY <1>3 DEF Fits, Sound, Row
            <7> HIDE DEF x
            <7> QED
              BY <2>1, <7>1, <7>2
          <6> QED
            BY <1>3, <6>1, <6>2, OneOrder DEF OrderType
        <5> QED
          BY <2>1, <4>1, <5>1 DEF Fits, Holds
      <4>2. CASE o.kind = "entry" /\ y # w
        <5>1. o = Order("entry", 1) /\ w.entries < MaxEntries
          BY <1>3, <2>1, <4>2, OneOrder
        <5>2. y \in Entered(w, o)
          BY <1>5, <4>2 DEF EnterMore
        <5>3. Fits(y) /\ SameTrade(w, y)
          BY <2>1, <5>1, <5>2, EntryFits
        <5> QED
          BY <2>1, <5>3 DEF SameTrade
      <4>3. CASE o.kind # "entry" /\ y # w
        <5>1. o.kind = "exit"
          BY <1>3, <4>3, OneOrder DEF OrderType
        <5>2. o.amount \in 1 .. w.amount /\ o = Order("exit", o.amount)
          BY <1>3, <2>1, <5>1, OneOrder
        <5>3. y \in ExitTrade(w, Order("exit", o.amount))
          BY <1>5, <4>3, <5>2
        <5>4. Fits(y) /\ SameTrade(w, y)
          BY <2>1, <5>2, <5>3, ExitFits
        <5> QED
          BY <2>1, <5>4 DEF SameTrade
      <4> QED
        BY <4>1, <4>2, <4>3
    <3> QED
      BY <1>2, <1>5, <2>3, <3>1, KeepIs
  <2> QED
    BY <2>2, <2>3
<1>6. Visited(x, now)
  BY <1>4, <1>5 DEF ManageOrders
<1> QED
  BY <1>2, <1>6 DEF OfPair

LEMMA FillEntryIs ==
  ASSUME TypeInv, OpenInv, TodoInv, FillEntry
  PROVE  Visited(Trade(Current), now) /\ Trade(Current) \in OfPair(pair)
<1> DEFINE x == Trade(Current)
<1>1. InPass /\ Current \in Ids(open) /\ todo # {}
  <2>1. pc = "fill" /\ todo \subseteq Nat /\ todo \subseteq Ids(open) /\ todo # {}
    BY DEF FillEntry, TodoInv, InPass, TypeInv
  <2> QED
    BY <2>1, CurrentIs DEF InPass
<1>2. x \in open /\ x.pair = pair
  BY <1>1, CurrentTrade
<1>3. Fits(x) /\ SameTrade(x, x)
  BY <1>2 DEF OpenInv, SameTrade
<1>4. ASSUME Keep(x)
      PROVE  Visited(x, now)
  BY <1>2, <1>3, <1>4, KeepIs
<1>5. ASSUME NEW o \in Range(x.orders), o.kind = "entry", Keep(Filled(x, o))
      PROVE  Visited(x, now)
  <2>1. Fits(Filled(x, o)) /\ SameTrade(x, Filled(x, o))
    BY <1>3, <1>5, EntryFills
  <2> QED
    BY <1>2, <1>5, <2>1, KeepIs
<1> QED
  BY <1>2, <1>4, <1>5 DEF FillEntry, OfPair

LEMMA AdjustIs ==
  ASSUME TypeInv, OpenInv, TodoInv, AdjustTrade
  PROVE  Visited(Trade(Current), now) /\ Trade(Current) \in OfPair(pair)
<1> DEFINE x == Trade(Current)
<1>1. InPass /\ Current \in Ids(open) /\ todo # {}
  <2>1. pc = "adjust" /\ todo \subseteq Nat /\ todo \subseteq Ids(open) /\ todo # {}
    BY DEF AdjustTrade, TodoInv, InPass, TypeInv
  <2> QED
    BY <2>1, CurrentIs DEF InPass
<1>2. x \in open /\ x.pair = pair
  BY <1>1, CurrentTrade
<1>3. Fits(x) /\ Sound(x) /\ SameTrade(x, x)
  BY <1>2 DEF OpenInv, SameTrade, Fits
<1>4. ASSUME Keep(x)
      PROVE  Visited(x, now)
  BY <1>2, <1>3, <1>4, KeepIs
<1>5. ASSUME x.entries < MaxEntries, NEW y \in EnterMore(x, Order("entry", 1)), Keep(y)
      PROVE  Visited(x, now)
  <2>1. CASE y = x
    BY <1>4, <1>5, <2>1
  <2>2. CASE y \in Entered(x, Order("entry", 1))
    <3>1. Fits(y) /\ SameTrade(x, y)
      BY <1>3, <1>5, <2>2, EntryFits
    <3> QED
      BY <1>2, <1>5, <3>1, KeepIs
  <2> QED
    BY <1>5, <2>1, <2>2 DEF EnterMore
<1>6. ASSUME NEW a \in 1 .. x.amount, NEW y \in ExitTrade(x, Order("exit", a)),
             NEW z, z = [y EXCEPT !.stop = FALSE],
             Keep(z) \/ ExitFills(z, Order("exit", a), now)
      PROVE  Visited(x, now)
  <2>1. Fits(y) /\ SameTrade(x, y) /\ y.orders = <<Order("exit", a)>> /\ y.amount = x.amount
    BY <1>3, <1>6, ExitFits
  <2>2. Fits(z) /\ SameTrade(y, z) /\ z.orders = y.orders /\ z.amount = y.amount
    BY <1>6, <2>1, StopFits
  <2>3. SameTrade(x, z) /\ a \in 1 .. z.amount
    BY <2>1, <2>2 DEF SameTrade
  <2>4. CASE Keep(z)
    BY <1>2, <2>2, <2>3, <2>4, KeepIs
  <2>5. CASE ExitFills(z, Order("exit", a), now)
    BY <1>2, <2>1, <2>2, <2>3, <2>5, ExitFillsIs
  <2> QED
    BY <1>6, <2>4, <2>5
<1> QED
  BY <1>2, <1>4, <1>5, <1>6 DEF AdjustTrade, OfPair

\* The trade may have closed in the step before.
LEMMA StillOpen ==
  ASSUME TypeInv, OpenInv, TodoInv, pc \in {"exit", "exits"}, IsOpen
  PROVE  Trade(Current) \in OfPair(pair)
<1>1. InPass /\ todo # {} /\ Current \in Ids(open)
  BY DEF InPass, TodoInv, IsOpen, Ids
<1> QED
  BY <1>1, CurrentTrade DEF OfPair

LEMMA PlaceExitIs ==
  ASSUME TypeInv, OpenInv, TodoInv, PlaceExit, IsOpen
  PROVE  Visited(Trade(Current), now) /\ Trade(Current) \in OfPair(pair)
<1> DEFINE x == Trade(Current)
<1>1. x \in OfPair(pair)
  BY StillOpen DEF PlaceExit
<1>2. x \in open
  BY <1>1 DEF OfPair
<1>3. Fits(x) /\ Sound(x) /\ SameTrade(x, x)
  BY <1>2 DEF OpenInv, SameTrade, Fits
<1>4. ASSUME Keep(x)
      PROVE  Visited(x, now)
  BY <1>2, <1>3, <1>4, KeepIs
<1>5. ASSUME x.amount > 0, NEW y \in ExitTrade(x, Order("exit", x.amount)), NEW stop \in BOOLEAN,
             NEW z, z = [y EXCEPT !.stop = stop], Keep(z)
      PROVE  Visited(x, now)
  <2>1. x.amount \in 1 .. x.amount
    BY <1>3, <1>5 DEF Sound, Row
  <2>2. Fits(y) /\ SameTrade(x, y)
    BY <1>3, <1>5, <2>1, ExitFits
  <2>3. Fits(z) /\ SameTrade(y, z)
    BY <1>5, <2>2, StopFits
  <2>4. SameTrade(x, z)
    BY <2>2, <2>3 DEF SameTrade
  <2> QED
    BY <1>2, <1>5, <2>3, <2>4, KeepIs
<1> QED
  BY <1>1, <1>4, <1>5 DEF PlaceExit

LEMMA FillExitIs ==
  ASSUME TypeInv, OpenInv, TodoInv, FillExit, IsOpen
  PROVE  Visited(Trade(Current), now) /\ Trade(Current) \in OfPair(pair)
<1> DEFINE x == Trade(Current)
<1>1. x \in OfPair(pair)
  BY StillOpen DEF FillExit
<1>2. x \in open
  BY <1>1 DEF OfPair
<1>3. Fits(x) /\ SameTrade(x, x)
  BY <1>2 DEF OpenInv, SameTrade
<1>4. ASSUME Keep(x)
      PROVE  Visited(x, now)
  BY <1>2, <1>3, <1>4, KeepIs
<1>5. ASSUME NEW o \in Range(x.orders), o.kind = "exit", ExitFills(x, o, now)
      PROVE  Visited(x, now)
  <2>1. o.amount \in 1 .. x.amount /\ o = Order("exit", o.amount) /\ x.orders = <<o>>
    BY <1>3, <1>5, OneOrder
  <2>2. ExitFills(x, Order("exit", o.amount), now) /\ x.orders = <<Order("exit", o.amount)>>
    BY <1>5, <2>1
  <2> QED
    BY <1>2, <1>3, <2>1, <2>2, ExitFillsIs
<1> QED
  BY <1>1, <1>4, <1>5 DEF FillExit

LEMMA LeftOpenIs ==
  ASSUME TypeInv, OpenInv, NEW p \in Pairs, LeftOpen(p)
  PROVE  \E x \in open : Visited(x, EndDate)
<1> DEFINE x == Oldest(OfPair(p))
<1>1. OfPair(p) # {} /\ OfPair(p) \subseteq open
  BY DEF LeftOpen, OfPair
<1>2. x \in open
  BY <1>1, OldestIs
<1>3. Fits(x) /\ Sound(x)
  BY <1>2 DEF OpenInv, Fits
<1>4. ASSUME x.amount = 0, RemoveTrade(x), UNCHANGED <<closed, locks>>
      PROVE  Visited(x, EndDate)
  BY <1>2, <1>4, DropIs
<1>5. ASSUME x.amount # 0, NEW y \in ExitTrade(x, Order("exit", x.amount)), NEW z,
             z = [y EXCEPT !.stop = FALSE], ExitFills(z, y.orders[Len(y.orders)], EndDate)
      PROVE  Visited(x, EndDate)
  <2>1. x.amount \in 1 .. x.amount
    BY <1>3, <1>5 DEF Sound, Row
  <2>2. /\ Fits(y) /\ SameTrade(x, y) /\ y.orders = <<Order("exit", x.amount)>>
        /\ y.amount = x.amount
    BY <1>3, <1>5, <2>1, ExitFits
  <2>3. y.orders[Len(y.orders)] = Order("exit", x.amount)
    BY <2>2
  <2>4. Fits(z) /\ SameTrade(y, z) /\ z.orders = y.orders /\ z.amount = y.amount
    BY <1>5, <2>2, StopFits
  <2>5. SameTrade(x, z) /\ x.amount \in 1 .. z.amount
    BY <2>1, <2>2, <2>4 DEF SameTrade
  <2>6. ExitFills(z, Order("exit", x.amount), EndDate)
    BY <1>5, <2>3
  <2> QED
    BY <1>2, <2>2, <2>4, <2>5, <2>6, ExitFillsIs
<1> QED
  BY <1>2, <1>4, <1>5 DEF LeftOpen

Untouched == UNCHANGED trades /\ nextId' = nextId

\* What a step may do to the list of trades.
LEMMA StepIs ==
  ASSUME TypeInv, OpenInv, TodoInv, Next
  PROVE  \/ Untouched
         \/ /\ Visited(Trade(Current), now) /\ Trade(Current) \in OfPair(pair)
            /\ InPass /\ pc \notin {"enter", "done"} /\ UNCHANGED <<config, clock, pass, nextId>>
         \/ EnterTrade
         \/ pc = "end" /\ nextId' = nextId /\ \E x \in open : Visited(x, EndDate)
<1> USE DEF InPass
<1>1. CASE NextTime \/ EnterNothing \/ EndPass \/ \E p \in Pairs : PassPair(p) \/ VisitPair(p)
  BY <1>1 DEF NextTime, EnterNothing, EndPass, PassPair, VisitPair, Untouched
<1>2. CASE ManageOrders
  <2>1. CASE todo = {}
    BY <1>2, <2>1 DEF ManageOrders, Untouched
  <2>2. CASE todo # {}
    BY <1>2, <2>2, ManageIs DEF ManageOrders
  <2> QED
    BY <2>1, <2>2
<1>3. CASE FillEntry
  BY <1>3, FillEntryIs DEF FillEntry
<1>4. CASE AdjustTrade
  BY <1>4, AdjustIs DEF AdjustTrade
<1>5. CASE PlaceExit
  <2>1. CASE ~ IsOpen
    BY <1>5, <2>1 DEF PlaceExit, Untouched
  <2>2. CASE IsOpen
    BY <1>5, <2>2, PlaceExitIs DEF PlaceExit
  <2> QED
    BY <2>1, <2>2
<1>6. CASE FillExit
  <2>1. CASE ~ IsOpen
    BY <1>6, <2>1 DEF FillExit, Untouched
  <2>2. CASE IsOpen
    BY <1>6, <2>2, FillExitIs DEF FillExit
  <2> QED
    BY <2>1, <2>2
<1>7. CASE EnterTrade
  BY <1>7
<1>8. ASSUME NEW p \in Pairs, LeftOpen(p)
      PROVE  pc = "end" /\ nextId' = nextId /\ \E x \in open : Visited(x, EndDate)
  BY <1>8, LeftOpenIs DEF LeftOpen
<1> QED
  BY <1>1, <1>2, <1>3, <1>4, <1>5, <1>6, <1>7, <1>8 DEF Next

\* The other trades stay as they are.
LEMMA VisitedOpen ==
  ASSUME OpenInv, NEW x \in open, NEW t, Visited(x, t)
  PROVE  /\ \A z \in open' : Fits(z) /\ \E w \in open : SameTrade(w, z) /\ (w = z \/ w = x)
         /\ \A z, w \in open' : z.id = w.id => z = w
         /\ \/ Ids(open') = Ids(open) /\ count' = count
            \/ Ids(open') = Ids(open) \ {x.id} /\ count' = count - 1
<1>1. PICK y : Fits(y) /\ SameTrade(x, y) /\ (Changed(x, y, t) \/ Dropped(x) \/ Sold(x, y, t))
  BY DEF Visited
<1>2. \A z \in open : Fits(z) /\ SameTrade(z, z)
  BY DEF OpenInv, SameTrade
<1>3. \A z, w \in open : z.id = w.id => z = w
  BY DEF OpenInv
<1>4. CASE open' = (open \ {x}) \cup {y} /\ count' = count
  <2>1. \A z \in open' : Fits(z) /\ \E w \in open : SameTrade(w, z) /\ (w = z \/ w = x)
    BY <1>1, <1>2, <1>4
  <2>2. \A z, w \in open' : z.id = w.id => z = w
    BY <1>1, <1>3, <1>4 DEF SameTrade
  <2>3. Ids(open') = Ids(open)
    BY <1>1, <1>4 DEF SameTrade, Ids
  <2> QED
    BY <1>4, <2>1, <2>2, <2>3
<1>5. CASE open' = open \ {x} /\ count' = count - 1
  <2>1. Ids(open') = Ids(open) \ {x.id}
    BY <1>3, <1>5 DEF Ids
  <2> QED
    BY <1>2, <1>3, <1>5, <2>1
<1> QED
  BY <1>1, <1>4, <1>5 DEF Changed, Dropped, Sold

LEMMA VisitedOpenInv ==
  ASSUME OpenInv, NEW x \in open, NEW t, Visited(x, t), nextId' = nextId
  PROVE  OpenInv'
<1>1. /\ \A z \in open' : Fits(z) /\ \E w \in open : SameTrade(w, z) /\ (w = z \/ w = x)
      /\ \A z, w \in open' : z.id = w.id => z = w
      /\ \/ Ids(open') = Ids(open) /\ count' = count
         \/ Ids(open') = Ids(open) \ {x.id} /\ count' = count - 1
  BY VisitedOpen
<1>2. \A z \in open' : z.id < nextId'
  BY <1>1 DEF OpenInv, SameTrade
<1>3. IsFiniteSet(Ids(open')) /\ count' = Cardinality(Ids(open'))
  <2>1. IsFiniteSet(Ids(open)) /\ count = Cardinality(Ids(open)) /\ x.id \in Ids(open)
    BY DEF OpenInv, Ids
  <2> QED
    BY <1>1, <2>1, FS_RemoveElement
<1> QED
  BY <1>1, <1>2, <1>3 DEF OpenInv, Ids, Fits, Sound, Waits, Sells, Holds, Row, Order, Sides

\* A new trade has a number of its own.
LEMMA EnterIs ==
  ASSUME TypeInv, EnterTrade
  PROVE  \E x : /\ Fits(x) /\ SameTrade(NewTrade, x) /\ open' = open \cup {x}
                /\ x.id = nextId /\ x.pair = pair /\ x.side = dir /\ x.from = now
<1> DEFINE n == NewTrade
<1>1. Sound(n) /\ n.entries < MaxEntries /\ n.id = nextId /\ n.pair = pair /\ n.side = dir /\ n.from = now
  <2>1. dir \in Sides
    BY DEF EnterTrade, MayEnter, TypeInv, Direction
  <2>2. <<>> \in Seq([kind : {"entry", "exit"}, amount : 1 .. MaxEntries])
    OBVIOUS
  <2>3. nextId \in Nat \ {0} /\ pair \in Pairs /\ now \in Nat
    BY DEF TypeInv
  <2>4. n \in Row
    BY <2>1, <2>2, <2>3, Numbers DEF NewTrade, Row
  <2> QED
    BY <2>4, Numbers DEF NewTrade, Sound
<1>2. PICK x \in Entered(n, Order("entry", 1)) : open' = open \cup {x}
  BY DEF EnterTrade
<1>3. Fits(x) /\ SameTrade(n, x)
  BY <1>1, <1>2, EntryFits
<1> QED
  BY <1>1, <1>2, <1>3 DEF SameTrade

LEMMA EnterOpenInv ==
  ASSUME TypeInv, OpenInv, EnterTrade
  PROVE  OpenInv'
<1>1. PICK x : /\ Fits(x) /\ open' = open \cup {x} /\ x.id = nextId
  BY EnterIs
<1>2. nextId' = nextId + 1 /\ count' = count + 1 /\ nextId \in Nat
  BY DEF EnterTrade, TypeInv
<1>3. \A z \in open : Fits(z) /\ z.id < nextId /\ z.id \in Nat
  BY DEF OpenInv, Fits, Sound, Row
<1>4. \A z \in open' : Fits(z) /\ z.id < nextId'
  BY <1>1, <1>2, <1>3
<1>5. \A z, w \in open' : z.id = w.id => z = w
  BY <1>1, <1>2, <1>3 DEF OpenInv
<1>6. IsFiniteSet(Ids(open')) /\ count' = Cardinality(Ids(open'))
  <2>1. Ids(open') = Ids(open) \cup {nextId} /\ nextId \notin Ids(open)
    BY <1>1, <1>2, <1>3 DEF Ids
  <2>2. IsFiniteSet(Ids(open)) /\ count = Cardinality(Ids(open))
    BY DEF OpenInv
  <2> QED
    BY <1>2, <2>1, <2>2, FS_AddElement
<1> QED
  BY <1>4, <1>5, <1>6 DEF OpenInv, Ids, Fits, Sound, Waits, Sells, Holds, Row, Order, Sides

LEMMA OpenInvNext == TypeInv /\ OpenInv /\ TodoInv /\ Next => OpenInv'
<1> SUFFICES ASSUME TypeInv, OpenInv, TodoInv, Next
             PROVE  OpenInv'
  OBVIOUS
<1>1. CASE Untouched
  BY <1>1 DEF Untouched, trades, OpenInv, Ids
<1>2. CASE /\ Visited(Trade(Current), now) /\ Trade(Current) \in OfPair(pair)
           /\ UNCHANGED <<config, clock, pass, nextId>>
  <2>1. Trade(Current) \in open
    BY <1>2 DEF OfPair
  <2> QED
    BY <1>2, <2>1, VisitedOpenInv
<1>3. CASE EnterTrade
  BY <1>3, EnterOpenInv
<1>4. CASE nextId' = nextId /\ \E x \in open : Visited(x, EndDate)
  BY <1>4, VisitedOpenInv
<1> QED
  BY <1>1, <1>2, <1>3, <1>4, StepIs

(***************************************************************************)
(* Types.                                                                  *)
(***************************************************************************)

LEMMA OldestSide ==
  ASSUME OpenInv, NEW p \in Pairs, OfPair(p) # {}
  PROVE  Oldest(OfPair(p)) \in OfPair(p) /\ Oldest(OfPair(p)).side \in Sides
<1>1. OfPair(p) \subseteq open
  BY DEF OfPair
<1>2. Oldest(OfPair(p)) \in OfPair(p)
  BY <1>1, OldestIs
<1> QED
  BY <1>1, <1>2 DEF OpenInv, Fits, Sound, Row

LEMMA BeginPassIs ==
  ASSUME OpenInv, NEW p \in Pairs, BeginPass(p)
  PROVE  exiting' \in Direction /\ pc' = "manage" /\ todo' = Ids(OfPair(p))
BY OldestSide DEF BeginPass, Direction

LEMMA TypeInvNext == TypeInv /\ OpenInv /\ Next => TypeInv'
<1> SUFFICES ASSUME TypeInv, OpenInv, Next
             PROVE  TypeInv'
  OBVIOUS
<1> USE DEF TypeInv
<1>1. CASE NextTime
  <2>1. CASE now = Candles * Details - 1
    BY <1>1, <2>1 DEF NextTime, config, clock, pass, Direction, Sides
  <2>2. CASE now # Candles * Details - 1
    <3>1. /\ now' = now + 1 /\ queue' = PairQueue
          /\ skip' \in {skip, {x.pair : x \in open}} /\ cached' \in {cached, <<>>}
      BY <1>1, <2>2 DEF NextTime
    <3>2. Candles * Details \in Nat
      BY Numbers
    <3>3. now' \in 0 .. Candles * Details - 1
      BY <2>2, <3>1, <3>2
    <3>4. skip' \subseteq Pairs
      BY <3>1 DEF OpenInv, Fits, Sound, Row
    <3>5. DOMAIN queue' \subseteq Pairs
      BY <3>1 DEF PairQueue
    <3>6. DOMAIN cached' \subseteq Pairs /\ \A p \in DOMAIN cached' : cached'[p] \in Direction
      BY <3>1
    <3>7. UNCHANGED <<stacking, protected, second, nextId, pair, dir, exiting, pc>>
      BY <1>1, <2>2 DEF NextTime, config, pass
    <3> QED
      BY <3>3, <3>4, <3>5, <3>6, <3>7 DEF Direction, Sides
  <2> QED
    BY <2>1, <2>2
<1>2. ASSUME NEW p \in Pairs, PassPair(p)
      PROVE  TypeInv'
  <2>1. DOMAIN queue' \subseteq Pairs
    BY <1>2 DEF PassPair, Rest
  <2> QED
    BY <1>2, <2>1 DEF PassPair, config, pass, Direction, Sides
<1>3. ASSUME NEW p \in Pairs, VisitPair(p)
      PROVE  TypeInv'
  <2>1. dir' \in Direction
    BY <1>3 DEF VisitPair, Passed, Direction
  <2>2. DOMAIN cached' \subseteq Pairs /\ \A q \in DOMAIN cached' : cached'[q] \in Direction
    BY <1>3, <2>1 DEF VisitPair
  <2>3. exiting' \in Direction /\ pc' = "manage"
    BY <1>3, BeginPassIs DEF VisitPair
  <2>4. DOMAIN queue' \subseteq Pairs /\ skip' \subseteq Pairs /\ pair' \in Pairs
    BY <1>3 DEF VisitPair, Rest
  <2>5. UNCHANGED <<stacking, protected, now, nextId>> /\ second' = FALSE
    BY <1>3 DEF VisitPair, config
  <2> QED
    BY <2>1, <2>2, <2>3, <2>4, <2>5 DEF Direction, Sides
<1>4. CASE EnterTrade \/ EnterNothing
  <2>1. UNCHANGED <<stacking, protected, now, skip, queue, cached, pair, dir, second, exiting>>
    BY <1>4 DEF EnterTrade, EnterNothing, config, clock, pass
  <2>2. nextId' \in {nextId, nextId + 1} /\ pc' \in {"fill", "done"}
    BY <1>4 DEF EnterTrade, EnterNothing
  <2> QED
    BY <2>1, <2>2 DEF Direction, Sides
<1>5. CASE ManageOrders \/ FillEntry \/ AdjustTrade \/ PlaceExit \/ FillExit \/ \E p \in Pairs : LeftOpen(p)
  <2>1. UNCHANGED <<stacking, protected, now, skip, queue, cached, pair, dir, second, exiting, nextId>>
    BY <1>5 DEF ManageOrders, FillEntry, AdjustTrade, PlaceExit, FillExit, LeftOpen, config, clock, pass
  <2>2. pc' \in {"enter", "manage", "adjust", "exit", "exits", "fill", "done", "end"}
    BY <1>5 DEF ManageOrders, FillEntry, AdjustTrade, PlaceExit, FillExit, LeftOpen, Go
  <2> QED
    BY <2>1, <2>2 DEF Direction, Sides
<1>6. CASE EndPass
  <2>1. UNCHANGED <<stacking, protected, now, skip, queue, cached, nextId>>
    BY <1>6 DEF EndPass, config, clock
  <2>2. UNCHANGED <<pair, dir>> /\ second' \in BOOLEAN /\ exiting' \in Direction /\ pc' \in {"manage", "next"}
    BY <1>6, BeginPassIs DEF EndPass, pass
  <2> QED
    BY <2>1, <2>2 DEF Direction, Sides
<1> QED
  BY <1>1, <1>2, <1>3, <1>4, <1>5, <1>6 DEF Next

(***************************************************************************)
(* The trades that the loops visit.                                        *)
(***************************************************************************)

LEMMA TodoInvNext == TypeInv /\ OpenInv /\ TodoInv /\ Next => TodoInv'
<1> SUFFICES ASSUME TypeInv, OpenInv, TodoInv, Next
             PROVE  TodoInv'
  OBVIOUS
<1>1. ASSUME NEW p \in Pairs, BeginPass(p), pair' = p, UNCHANGED <<open, nextId>>
      PROVE  TodoInv'
  <2>1. pc' = "manage" /\ todo' = Ids(OfPair(p))
    BY <1>1, BeginPassIs
  <2>2. OfPair(p) \subseteq open /\ \A x \in OfPair(p) : x.pair = p
    BY DEF OfPair
  <2>3. \A x \in open : x.id \in 1 .. nextId - 1
    BY DEF OpenInv, Fits, Sound, Row, TypeInv
  <2>4. todo' \subseteq 1 .. nextId' - 1 /\ todo' \subseteq Ids(open')
    BY <1>1, <2>1, <2>2, <2>3 DEF Ids
  <2>5. \A x \in open' : x.id \in todo' => x.pair = pair'
    BY <1>1, <2>1, <2>2 DEF Ids, OpenInv
  <2> QED
    BY <2>1, <2>4, <2>5 DEF TodoInv, InPass, Ids
<1>2. CASE NextTime \/ \E p \in Pairs : PassPair(p) \/ LeftOpen(p)
  BY <1>2 DEF NextTime, PassPair, LeftOpen, TodoInv, InPass
<1>3. ASSUME NEW p \in Pairs, VisitPair(p)
      PROVE  TodoInv'
  BY <1>1, <1>3 DEF VisitPair, trades
<1>4. CASE EndPass
  BY <1>1, <1>4 DEF EndPass, trades, TodoInv, InPass, TypeInv
<1>5. CASE EnterNothing
  <2>1. todo' = Ids(OfPair(pair)) /\ pc' = (IF todo' = {} THEN "done" ELSE "fill")
    BY <1>5 DEF EnterNothing
  <2>2. UNCHANGED <<open, nextId, pair>>
    BY <1>5 DEF EnterNothing, trades, pass
  <2>3. \A x \in open : x.id \in 1 .. nextId - 1
    BY DEF OpenInv, Fits, Sound, Row, TypeInv
  <2>4. todo' \subseteq 1 .. nextId - 1 /\ todo' \subseteq Ids(open) /\ \A x \in open : x.id \in todo' => x.pair = pair
    BY <2>1, <2>3 DEF Ids, OfPair, OpenInv
  <2> QED
    BY <2>1, <2>2, <2>4 DEF TodoInv, InPass, Ids
<1>6. CASE EnterTrade
  <2>1. PICK x : open' = open \cup {x} /\ x.id = nextId /\ x.pair = pair
    BY <1>6, EnterIs
  <2>2. todo' = Ids(OfPair(pair)) \cup {nextId} /\ pc' = "fill" /\ nextId' = nextId + 1 /\ pair' = pair
    BY <1>6 DEF EnterTrade, pass
  <2>3. nextId \in Nat \ {0} /\ \A y \in open : y.id \in 1 .. nextId - 1
    BY DEF OpenInv, Fits, Sound, Row, TypeInv
  <2>4. todo' \subseteq 1 .. nextId' - 1
    BY <2>2, <2>3 DEF Ids, OfPair
  <2>5. todo' \subseteq Ids(open') /\ \A y \in open' : y.id \in todo' => y.pair = pair
    BY <2>1, <2>2, <2>3 DEF Ids, OfPair, OpenInv
  <2> QED
    BY <2>2, <2>4, <2>5 DEF TodoInv, InPass, Ids
<1>7. CASE ManageOrders /\ todo = {}
  BY <1>7 DEF ManageOrders, TodoInv, InPass, trades
<1>8. CASE FillEntry \/ AdjustTrade \/ (ManageOrders /\ todo # {}) \/ ((PlaceExit \/ FillExit) /\ IsOpen)
  <2>1. /\ InPass /\ UNCHANGED <<pair, nextId>>
    BY <1>8 DEF FillEntry, AdjustTrade, ManageOrders, PlaceExit, FillExit, InPass, pass
  <2>2. Trade(Current) \in OfPair(pair) /\ Visited(Trade(Current), now)
    BY <1>8, ManageIs, FillEntryIs, AdjustIs, PlaceExitIs, FillExitIs
  <2>3. todo \subseteq 1 .. nextId - 1 /\ \A x \in open : x.id \in todo => x.pair = pair
    BY <2>1 DEF TodoInv
  <2>4. todo # {} /\ todo \ {Current} \subseteq Ids(open)
    BY <1>8 DEF FillEntry, AdjustTrade, ManageOrders, PlaceExit, FillExit, TodoInv
  <2>5. Current \in todo
    <3>1. todo \subseteq Nat
      BY <2>3
    <3> QED
      BY <2>4, <3>1, CurrentIs
  <2>6. Trade(Current).id = Current
    <3>1. Current \in Ids(open)
      BY <1>8, <2>5 DEF FillEntry, AdjustTrade, ManageOrders, PlaceExit, FillExit, TodoInv, IsOpen, Ids
    <3> QED
      BY <3>1, TradeOf
  <2>7. /\ \A z \in open' : \E w \in open : SameTrade(w, z)
        /\ Ids(open') = Ids(open) \/ Ids(open') = Ids(open) \ {Current}
    <3>1. Trade(Current) \in open
      BY <2>2 DEF OfPair
    <3> QED
      BY <2>2, <2>6, <3>1, VisitedOpen
  <2>8. todo \ {Current} \subseteq Ids(open')
    BY <2>4, <2>7
  <2>9. \A x \in open' : x.id \in todo => x.pair = pair
    BY <2>3, <2>7 DEF SameTrade
  <2>10. CASE ManageOrders \/ FillExit
    <3>1. todo' = todo \ {Current} /\ pc' \in {"enter", "manage", "fill", "done"}
          /\ (pc' = "fill" => todo' # {})
      BY <1>8, <2>10, <2>4 DEF ManageOrders, FillExit, Go
    <3> QED
      BY <2>1, <2>3, <2>8, <2>9, <3>1 DEF TodoInv, InPass, Ids
  <2>11. CASE AdjustTrade \/ PlaceExit
    <3>1. todo' = todo /\ pc' \in {"exit", "exits"}
      BY <2>11 DEF AdjustTrade, PlaceExit
    <3> QED
      BY <2>1, <2>3, <2>4, <2>8, <2>9, <3>1 DEF TodoInv, InPass, Ids, Current
  <2>12. CASE FillEntry
    <3>1. todo' = todo /\ pc' = "adjust"
      BY <2>12 DEF FillEntry
    <3>2. Ids(open') = Ids(open)
      <4>1. open' = Updated(Trade(Current)) \/ \E o \in Range(Trade(Current).orders) :
              o.kind = "entry" /\ open' = Updated(Filled(Trade(Current), o))
        BY <2>12 DEF FillEntry, Keep
      <4>2. \A o : Filled(Trade(Current), o).id = Trade(Current).id
        BY DEF Filled
      <4> QED
        BY <2>2, <4>1, <4>2, TradeIs DEF Updated, OfPair, Ids
    <3>3. todo \subseteq Ids(open)
      BY <2>12 DEF FillEntry, TodoInv
    <3> QED
      BY <2>1, <2>3, <2>4, <2>9, <3>1, <3>2, <3>3 DEF TodoInv, InPass, Ids, Current
  <2> QED
    BY <1>8, <2>10, <2>11, <2>12
<1>9. CASE (PlaceExit \/ FillExit) /\ ~ IsOpen
  <2>1. UNCHANGED <<open, pair, nextId>> /\ InPass /\ pc \in {"exit", "exits"}
    BY <1>9 DEF PlaceExit, FillExit, InPass, pass, trades
  <2>2. /\ todo \subseteq 1 .. nextId - 1 /\ \A x \in open : x.id \in todo => x.pair = pair
        /\ todo # {} /\ todo \ {Current} \subseteq Ids(open)
    BY <2>1 DEF TodoInv
  <2>3. CASE FillExit
    <3>1. todo' = todo \ {Current} /\ pc' \in {"fill", "done"} /\ (pc' = "fill" => todo' # {})
      BY <2>3 DEF FillExit, Go
    <3> QED
      BY <2>1, <2>2, <3>1 DEF TodoInv, InPass, Ids
  <2>4. CASE PlaceExit
    <3>1. todo' = todo /\ pc' = "exits"
      BY <2>4 DEF PlaceExit
    <3> QED
      BY <2>1, <2>2, <3>1 DEF TodoInv, InPass, Ids, Current
  <2> QED
    BY <1>9, <2>3, <2>4
<1> QED
  BY <1>2, <1>3, <1>4, <1>5, <1>6, <1>7, <1>8, <1>9 DEF Next

(***************************************************************************)
(* Locks.                                                                  *)
(***************************************************************************)

LEMMA DivFacts ==
  ASSUME NEW t \in Nat
  PROVE  /\ t \div Details \in Nat /\ (t \div Details) * Details <= t
         /\ t < (t \div Details) * Details + Details /\ (t \div Details) * Details \in Nat
         /\ t % Details = t - (t \div Details) * Details
<1>1. Details \in Nat /\ Details > 0
  BY Numbers
<1> QED
  BY <1>1

LEMMA NextDateIs ==
  ASSUME NEW t \in Nat
  PROVE  NextDate(t) \in Nat /\ NextDate(t) >= t
<1> DEFINE k == t \div Details
<1>1. Details \in Nat /\ k \in Nat /\ k * Details \in Nat /\ t < k * Details + Details
  BY DivFacts, Numbers
<1>2. (k + 1) * Details = k * Details + Details
  BY <1>1
<1> HIDE DEF k
<1>3. NextDate(t) = k * Details + Details
  BY <1>2 DEF NextDate, k
<1> QED
  BY <1>1, <1>3

\* After what asks for a lock there is one that lasts at least as long.
LEMMA LockIs ==
  ASSUME NEW L, \A l \in L : l.until \in Nat, NEW p, NEW until \in Nat, NEW s
  PROVE  /\ L \subseteq Lock(L, p, until, s) /\ \A l \in Lock(L, p, until, s) : l.until \in Nat
         /\ \E l \in Lock(L, p, until, s) :
              l.pair \in {p, "*"} /\ l.until >= until /\ l.side \in {"*", s}
<1>1. CASE Locked(L, p, until, s)
  BY <1>1 DEF Locked, Lock
<1>2. CASE ~ Locked(L, p, until, s)
  <2> DEFINE l == [pair |-> p, until |-> NextDate(until), side |-> s]
  <2>1. Lock(L, p, until, s) = L \cup {l}
    BY <1>2 DEF Lock
  <2>2. l.until \in Nat /\ l.until >= until /\ l.pair = p /\ l.side = s
    BY NextDateIs
  <2> QED
    BY <2>1, <2>2
<1> QED
  BY <1>1, <1>2

\* The last of some trades that ended.
LEMMA LastAtIs ==
  ASSUME NEW t \in Nat, NEW C, C # {}, \A c \in C : c.at \in Nat /\ c.at <= t
  PROVE  LastAt(C) \in Nat /\ \A c \in C : c.at <= LastAt(C)
<1> DEFINE S == {c.at : c \in C}
           Bounds == {n \in Nat : \A y \in S : y <= n}
<1>1. Bounds \subseteq Nat /\ t \in Bounds /\ S # {} /\ S \subseteq Nat
  OBVIOUS
<1>2. PICK n \in Bounds : \A m \in Bounds : n <= m
  BY <1>1, SmallestOf
<1>3. n \in S
  <2> SUFFICES ASSUME n \notin S
               PROVE  FALSE
    OBVIOUS
  <2>0. n \in Nat /\ \A y \in S : y \in Nat /\ y <= n
    BY <1>1, <1>2
  <2> HIDE DEF S
  <2>1. n \in Nat /\ \A y \in S : y \in Nat /\ y < n
    BY <2>0
  <2>2. n - 1 \in Bounds
    <3>1. PICK y \in S : y \in Nat /\ y < n
      BY <1>1, <2>1
    <3>2. n - 1 \in Nat
      BY <2>1, <3>1
    <3> QED
      BY <2>1, <3>2
  <2> QED
    BY <1>2, <2>1, <2>2
<1>4. \A y \in S : n >= y
  BY <1>1, <1>2
<1>5. Max(S) \in S /\ \A y \in S : Max(S) >= y
  BY <1>3, <1>4, Zenon DEF Max
<1> QED
  BY <1>1, <1>5 DEF LastAt

Ends(C, t) == \A c \in C : c.at \in Nat /\ c.at <= t

LEMMA CooldownIs ==
  ASSUME NEW L, \A l \in L : l.until \in Nat, NEW t \in Nat, NEW C, Ends(C, t), NEW p
  PROVE  /\ L \subseteq CooldownLock(L, C, p, t)
         /\ \A l \in CooldownLock(L, C, p, t) : l.until \in Nat
         /\ (\E c \in C : c.pair = p /\ c.at = t) =>
              \E l \in CooldownLock(L, C, p, t) :
                l.pair \in {p, "*"} /\ l.until >= t + Cooldown /\ l.side = "*"
<1> DEFINE recent == {c \in C : c.pair = p /\ c.at > t - Lookback}
<1>1. CASE recent = {}
  <2>1. CooldownLock(L, C, p, t) = L
    BY <1>1 DEF CooldownLock
  <2>2. ~ \E c \in C : c.pair = p /\ c.at = t
    BY <1>1, Numbers
  <2> QED
    BY <2>1, <2>2
<1>2. CASE recent # {}
  <2>1. LastAt(recent) \in Nat /\ \A c \in recent : c.at <= LastAt(recent)
    BY <1>2, LastAtIs DEF Ends
  <2>2. CooldownLock(L, C, p, t) = Lock(L, p, LastAt(recent) + Cooldown, "*")
    BY <1>2 DEF CooldownLock
  <2>3. LastAt(recent) + Cooldown \in Nat
    BY <2>1, Numbers
  <2>4. (\E c \in C : c.pair = p /\ c.at = t) => LastAt(recent) >= t
    <3>1. \A c \in C : c.pair = p /\ c.at = t => c \in recent
      BY Numbers
    <3> QED
      BY <2>1, <3>1
  <2> HIDE DEF recent
  <2>5. /\ L \subseteq CooldownLock(L, C, p, t)
        /\ \A l \in CooldownLock(L, C, p, t) : l.until \in Nat
        /\ \E l \in CooldownLock(L, C, p, t) :
             l.pair \in {p, "*"} /\ l.until >= LastAt(recent) + Cooldown /\ l.side \in {"*", "*"}
    BY <2>2, <2>3, LockIs
  <2>6. LastAt(recent) >= t => LastAt(recent) + Cooldown >= t + Cooldown
    BY <2>1, Numbers
  <2>7. ASSUME \E c \in C : c.pair = p /\ c.at = t
        PROVE  \E l \in CooldownLock(L, C, p, t) :
                 l.pair \in {p, "*"} /\ l.until >= t + Cooldown /\ l.side = "*"
    <3>1. PICK l \in CooldownLock(L, C, p, t) :
             l.pair \in {p, "*"} /\ l.until >= LastAt(recent) + Cooldown /\ l.side = "*"
      BY <2>5
    <3>2. l.until \in Nat
      BY <2>5
    <3>3. l.until >= t + Cooldown
      BY <2>1, <2>3, <2>4, <2>7, <3>1, <3>2, Numbers
    <3> QED
      BY <3>1, <3>3
  <2> QED
    BY <2>5, <2>7
<1> QED
  BY <1>1, <1>2

Stops(C, p, s, t) ==
  {c \in C : c.stop /\ p \in {c.pair, "*"} /\ c.at > t - Lookback /\ (PerSide => c.side = s)}

LEMMA GuardIs ==
  ASSUME NEW L, \A l \in L : l.until \in Nat, NEW t \in Nat, NEW C, Ends(C, t), IsFiniteSet(C),
         NEW p, NEW s
  PROVE  /\ L \subseteq Guard(L, C, p, s, t)
         /\ \A l \in Guard(L, C, p, s, t) : l.until \in Nat
         /\ (\E c \in Stops(C, p, s, t) : c.at = t) /\ Cardinality(Stops(C, p, s, t)) >= GuardLimit =>
              \E l \in Guard(L, C, p, s, t) :
                /\ l.pair \in {p, "*"} /\ l.until >= t + GuardStop
                /\ l.side \in {"*", IF PerSide THEN s ELSE "*"}
<1> DEFINE stops == Stops(C, p, s, t)
           side == IF PerSide THEN s ELSE "*"
<1>1. IsFiniteSet(stops) /\ Cardinality(stops) \in Nat
  <2>1. stops \subseteq C
    BY DEF Stops
  <2>2. IsFiniteSet(stops)
    BY <2>1, FS_Subset
  <2> QED
    BY <2>2, FS_CardinalityType
<1>2. CASE Cardinality(stops) < GuardLimit
  <2>1. Guard(L, C, p, s, t) = L
    BY <1>2 DEF Guard, Stops
  <2> QED
    BY <1>1, <1>2, <2>1, Numbers
<1>3. CASE ~ (Cardinality(stops) < GuardLimit)
  <2>1. stops # {}
    <3>1. Cardinality({}) = 0
      BY FS_EmptySet
    <3> QED
      BY <1>3, <3>1, Numbers
  <2>2. LastAt(stops) \in Nat /\ \A c \in stops : c.at <= LastAt(stops)
    <3>1. \A c \in stops : c.at \in Nat /\ c.at <= t
      BY DEF Ends, Stops
    <3> HIDE DEF stops
    <3> QED
      BY <2>1, <3>1, LastAtIs
  <2>3. Guard(L, C, p, s, t) = Lock(L, p, LastAt(stops) + GuardStop, side)
    BY <1>3 DEF Guard, Stops
  <2>4. LastAt(stops) + GuardStop \in Nat
    BY <2>2, Numbers
  <2>5. (\E c \in stops : c.at = t) => LastAt(stops) >= t
    BY <2>2
  <2> HIDE DEF stops, side
  <2>6. /\ L \subseteq Guard(L, C, p, s, t)
        /\ \A l \in Guard(L, C, p, s, t) : l.until \in Nat
        /\ \E l \in Guard(L, C, p, s, t) :
             l.pair \in {p, "*"} /\ l.until >= LastAt(stops) + GuardStop /\ l.side \in {"*", side}
    BY <2>3, <2>4, LockIs
  <2>7. ASSUME \E c \in stops : c.at = t
        PROVE  \E l \in Guard(L, C, p, s, t) :
                 l.pair \in {p, "*"} /\ l.until >= t + GuardStop /\ l.side \in {"*", side}
    <3>1. PICK l \in Guard(L, C, p, s, t) :
             l.pair \in {p, "*"} /\ l.until >= LastAt(stops) + GuardStop /\ l.side \in {"*", side}
      BY <2>6
    <3>2. l.until \in Nat
      BY <2>6
    <3>3. l.until >= t + GuardStop
      BY <2>2, <2>4, <2>5, <2>7, <3>1, <3>2, Numbers
    <3> QED
      BY <3>1, <3>3
  <2> QED
    BY <2>6, <2>7 DEF stops, side
<1> QED
  BY <1>2, <1>3

\* What is locked in N when a trade of x's pair and side has ended at t.
LockedFor(N, C, x, t) ==
  /\ (\E c \in C : c.pair = x.pair /\ c.at = t) =>
       \E l \in N : l.pair \in {x.pair, "*"} /\ l.until >= t + Cooldown /\ l.side = "*"
  /\ /\ Cardinality(Stops(C, "*", x.side, t)) >= GuardLimit
     /\ \E c \in Stops(C, "*", x.side, t) : c.at = t
     => \E l \in N : /\ l.pair = "*" /\ l.until >= t + GuardStop
                     /\ l.side \in {"*", IF PerSide THEN x.side ELSE "*"}

LEMMA ProtectionsIs ==
  ASSUME NEW L, \A l \in L : l.until \in Nat, NEW t \in Nat, NEW C, Ends(C, t), IsFiniteSet(C),
         NEW x
  PROVE  /\ L \subseteq Protections(L, C, x, t)
         /\ \A l \in Protections(L, C, x, t) : l.until \in Nat
         /\ protected => LockedFor(Protections(L, C, x, t), C, x, t)
<1> DEFINE K == CooldownLock(L, C, x.pair, t)
           P == Guard(K, C, x.pair, x.side, t)
           G == Guard(P, C, "*", x.side, t)
<1>1. /\ L \subseteq K /\ \A l \in K : l.until \in Nat
      /\ (\E c \in C : c.pair = x.pair /\ c.at = t) =>
           \E l \in K : l.pair \in {x.pair, "*"} /\ l.until >= t + Cooldown /\ l.side = "*"
  BY CooldownIs
<1>2. K \subseteq P /\ \A l \in P : l.until \in Nat
  <2> HIDE DEF K
  <2> QED
    BY <1>1, GuardIs
<1>3. /\ P \subseteq G /\ \A l \in G : l.until \in Nat
      /\ /\ \E c \in Stops(C, "*", x.side, t) : c.at = t
         /\ Cardinality(Stops(C, "*", x.side, t)) >= GuardLimit
         => \E l \in G : /\ l.pair \in {"*", "*"} /\ l.until >= t + GuardStop
                         /\ l.side \in {"*", IF PerSide THEN x.side ELSE "*"}
  <2> HIDE DEF P
  <2> QED
    BY <1>2, GuardIs
<1>4. Protections(L, C, x, t) = IF protected THEN G ELSE L
  BY DEF Protections
<1> HIDE DEF K, P, G
<1>5. LockedFor(G, C, x, t)
  BY <1>1, <1>2, <1>3 DEF LockedFor
<1> QED
  BY <1>1, <1>2, <1>3, <1>4, <1>5

\* What a visit of a trade does to the closed trades and the locks.
LEMMA VisitedLocks ==
  ASSUME TypeInv, OpenInv, ClosedInv, LocksInv, pc # "end", NEW x \in open, Visited(x, now)
  PROVE  /\ IsFiniteSet(closed') /\ locks \subseteq locks' /\ \A l \in locks' : l.until \in Nat
         /\ \/ closed' = closed
            \/ \E c : /\ closed' = closed \cup {c} /\ SameTrade(x, c) /\ c.at = now
                      /\ c.side \in Sides /\ c.pair \in Pairs /\ open' = open \ {x}
                      /\ locks' = Protections(locks, closed', c, now)
<1>1. PICK y : Fits(y) /\ SameTrade(x, y) /\ (Changed(x, y, now) \/ Dropped(x) \/ Sold(x, y, now))
  BY DEF Visited
<1>2. /\ now \in Nat /\ Ends(closed, now) /\ IsFiniteSet(closed) /\ \A l \in locks : l.until \in Nat
  BY DEF TypeInv, ClosedInv, LocksInv, Ends
<1>3. CASE Changed(x, y, now)
  <2>1. closed' = closed /\ locks' \in {locks, Protections(locks, closed, y, now)}
    BY <1>3 DEF Changed
  <2> QED
    BY <1>2, <2>1, ProtectionsIs
<1>4. CASE Dropped(x)
  BY <1>2, <1>4 DEF Dropped
<1>5. CASE Sold(x, y, now)
  <2> DEFINE c == SoldAt(y, now)
  <2>1. /\ closed' = closed \cup {c} /\ open' = open \ {x}
        /\ locks' = Protections(locks, closed', y, now)
    BY <1>5 DEF Sold
  <2>2. c.at = now /\ SameTrade(y, c)
    BY DEF SoldAt, SameTrade
  <2>3. SameTrade(x, c) /\ c.side \in Sides /\ c.pair \in Pairs
    BY <1>1, <2>2 DEF SameTrade, Fits, Sound, Row
  <2>4. Protections(locks, closed', y, now) = Protections(locks, closed', c, now)
    BY <2>2 DEF Protections, SameTrade
  <2> HIDE DEF c
  <2>5. IsFiniteSet(closed') /\ Ends(closed', now)
    BY <1>2, <2>1, <2>2, FS_AddElement DEF Ends
  <2>6. locks \subseteq locks' /\ \A l \in locks' : l.until \in Nat
    BY <1>2, <2>1, <2>5, ProtectionsIs
  <2> QED
    BY <2>1, <2>2, <2>3, <2>4, <2>5, <2>6
<1> QED
  BY <1>1, <1>3, <1>4, <1>5

LEMMA Configured == Next => UNCHANGED config
BY DEF Next, NextTime, PassPair, VisitPair, ManageOrders, EnterTrade, EnterNothing, FillEntry, AdjustTrade,
       PlaceExit, FillExit, EndPass, LeftOpen, config

\* The list of trades before the end.
LEMMA BeforeEnd ==
  ASSUME TypeInv, OpenInv, TodoInv, Next, pc' # "end"
  PROVE  /\ pc # "end" /\ now' \in {now, now + 1}
         /\ \/ Untouched
            \/ /\ Visited(Trade(Current), now) /\ Trade(Current) \in OfPair(pair)
               /\ InPass /\ pc \notin {"enter", "done"} /\ UNCHANGED <<config, clock, pass, nextId>>
            \/ EnterTrade
<1>1. pc # "end"
  BY DEF Next, NextTime, PassPair, VisitPair, ManageOrders, EnterTrade, EnterNothing, FillEntry, AdjustTrade,
         PlaceExit, FillExit, EndPass, LeftOpen
<1>2. now' \in {now, now + 1}
  BY DEF Next, NextTime, PassPair, VisitPair, ManageOrders, EnterTrade, EnterNothing, FillEntry, AdjustTrade,
         PlaceExit, FillExit, EndPass, LeftOpen, clock
<1> QED
  BY <1>1, <1>2, StepIs

LEMMA ClosedInvNext == TypeInv /\ OpenInv /\ TodoInv /\ ClosedInv /\ LocksInv /\ Next => ClosedInv'
<1> SUFFICES ASSUME TypeInv, OpenInv, TodoInv, ClosedInv, LocksInv, Next
             PROVE  ClosedInv'
  OBVIOUS
<1>1. IsFiniteSet(closed')
  <2>1. CASE UNCHANGED closed
    BY <2>1 DEF ClosedInv
  <2>2. ASSUME NEW x \in open, NEW t, Visited(x, t)
        PROVE  IsFiniteSet(closed')
    <3>1. closed' = closed \/ \E c : closed' = closed \cup {c}
      BY <2>2 DEF Visited, Changed, Dropped, Sold
    <3> QED
      BY <3>1, FS_AddElement DEF ClosedInv
  <2> QED
    BY <2>1, <2>2, StepIs DEF Untouched, trades, EnterTrade, OfPair
<1>2. ASSUME pc' # "end"
      PROVE  \A c \in closed' : c.at \in Nat /\ c.at <= now' /\ c.side \in Sides /\ c.pair \in Pairs
  <2>1. /\ pc # "end" /\ now \in Nat /\ now' \in {now, now + 1}
        /\ \A c \in closed : c.at \in Nat /\ c.at <= now /\ c.side \in Sides /\ c.pair \in Pairs
    BY <1>2, BeforeEnd DEF ClosedInv, TypeInv
  <2>2. CASE Untouched \/ EnterTrade
    <3>1. closed' = closed
      BY <2>2 DEF Untouched, EnterTrade, trades
    <3> QED
      BY <2>1, <3>1
  <2>3. CASE Visited(Trade(Current), now) /\ Trade(Current) \in OfPair(pair) /\ UNCHANGED clock
    <3>1. Trade(Current) \in open
      BY <2>3 DEF OfPair
    <3>2. \/ closed' = closed
          \/ \E c : closed' = closed \cup {c} /\ c.at = now /\ c.side \in Sides /\ c.pair \in Pairs
      BY <2>1, <2>3, <3>1, VisitedLocks
    <3>3. now' = now
      BY <2>3 DEF clock
    <3> QED
      BY <2>1, <3>2, <3>3
  <2> QED
    BY <1>2, <2>2, <2>3, BeforeEnd
<1> QED
  BY <1>1, <1>2 DEF ClosedInv, Sides

LEMMA NewLocks ==
  ASSUME NEW L, \A l \in L : l.until \in Nat, NEW t \in Nat, NEW C, IsFiniteSet(C), Ends(C, t), protected,
         \A d \in C : Locks(L, C, d), NEW c, c.at = t, NEW D, D = C \cup {c}, NEW M, M = Protections(L, D, c, t)
  PROVE  \A d \in D : Locks(M, D, d)
<1>1. IsFiniteSet(D) /\ Ends(D, t) /\ c \in D
  BY FS_AddElement DEF Ends
<1>2. /\ L \subseteq M /\ \A l \in M : l.until \in Nat
      /\ \E l \in M : l.pair \in {c.pair, "*"} /\ l.until >= t + Cooldown /\ l.side = "*"
      /\ /\ Cardinality(Stops(D, "*", c.side, t)) >= GuardLimit
         /\ \E d \in Stops(D, "*", c.side, t) : d.at = t
         => \E l \in M : /\ l.pair = "*" /\ l.until >= t + GuardStop
                         /\ l.side \in {"*", IF PerSide THEN c.side ELSE "*"}
  <2>1. /\ L \subseteq Protections(L, D, c, t) /\ \A l \in Protections(L, D, c, t) : l.until \in Nat
        /\ protected => LockedFor(Protections(L, D, c, t), D, c, t)
    BY <1>1, ProtectionsIs
  <2>2. \E e \in D : e.pair = c.pair /\ e.at = t
    BY <1>1
  <2> QED
    BY <2>1, <2>2 DEF LockedFor
<1>3. ASSUME NEW d \in D, d.at = t, PerSide => d.side = c.side, d.stop,
             Cardinality(Window(D, d)) >= GuardLimit
      PROVE  \E l \in M : /\ l.pair = "*" /\ l.until >= d.at + GuardStop
                          /\ l.side \in {"*", IF PerSide THEN d.side ELSE "*"}
  <2>1. \A e \in D : e.at \in d.at - Lookback + 1 .. d.at <=> e.at > t - Lookback
    BY <1>1, <1>3, Numbers DEF Ends
  <2>2. Window(D, d) = Stops(D, "*", c.side, t)
    BY <1>3, <2>1 DEF Window, Stops
  <2>3. d \in Stops(D, "*", c.side, t)
    BY <1>1, <1>3, Numbers DEF Stops
  <2> QED
    BY <1>2, <1>3, <2>2, <2>3
<1>4. Locks(M, D, c)
  BY <1>1, <1>2, <1>3 DEF Locks
<1>5. ASSUME NEW d \in C
      PROVE  Locks(M, D, d)
  <2>1. Locks(L, C, d)
    BY <1>5
  <2>2. CASE Window(D, d) = Window(C, d)
    BY <1>2, <2>1, <2>2 DEF Locks
  <2>3. CASE Window(D, d) # Window(C, d)
    <3>1. c \in Window(D, d)
      BY <2>3 DEF Window
    <3>2. t \in d.at - Lookback + 1 .. d.at /\ (PerSide => d.side = c.side)
      BY <3>1 DEF Window
    <3>3. d.at = t
      BY <3>2, Numbers DEF Ends
    <3>4. d.stop /\ Cardinality(Window(D, d)) >= GuardLimit =>
            \E l \in M : /\ l.pair = "*" /\ l.until >= d.at + GuardStop
                         /\ l.side \in {"*", IF PerSide THEN d.side ELSE "*"}
      BY <1>3, <3>2, <3>3
    <3> QED
      BY <1>2, <2>1, <3>4 DEF Locks
  <2> QED
    BY <2>2, <2>3
<1> QED
  BY <1>4, <1>5

LEMMA LocksInvNext == TypeInv /\ OpenInv /\ TodoInv /\ ClosedInv /\ LocksInv /\ Next => LocksInv'
<1> SUFFICES ASSUME TypeInv, OpenInv, TodoInv, ClosedInv, LocksInv, Next, pc' # "end"
             PROVE  LocksInv'
  BY DEF LocksInv
<1>1. /\ pc # "end" /\ protected' = protected /\ now \in Nat
      /\ IsFiniteSet(closed) /\ Ends(closed, now)
      /\ \A l \in locks : l.until \in Nat
  BY BeforeEnd, Configured DEF config, TypeInv, ClosedInv, LocksInv, Ends
<1>2. CASE UNCHANGED <<closed, locks>>
  BY <1>1, <1>2 DEF LocksInv, Locks, Window
<1>3. CASE Visited(Trade(Current), now) /\ Trade(Current) \in OfPair(pair)
  <2>1. Trade(Current) \in open
    BY <1>3 DEF OfPair
  <2>2. /\ locks \subseteq locks' /\ \A l \in locks' : l.until \in Nat
        /\ \/ closed' = closed
           \/ \E c : /\ closed' = closed \cup {c} /\ c.at = now
                     /\ locks' = Protections(locks, closed', c, now)
    BY <1>1, <1>3, <2>1, VisitedLocks
  <2>3. ASSUME protected
        PROVE  \A d \in closed' : Locks(locks', closed', d)
    <3>1. \A d \in closed : Locks(locks, closed, d)
      BY <1>1, <2>3 DEF LocksInv
    <3>2. CASE closed' = closed
      BY <2>2, <3>1, <3>2 DEF Locks
    <3>3. CASE \E c : /\ closed' = closed \cup {c} /\ c.at = now
                      /\ locks' = Protections(locks, closed', c, now)
      BY <1>1, <2>3, <3>1, <3>3, NewLocks
    <3> QED
      BY <2>2, <3>2, <3>3
  <2>4. (\A d \in closed : Locks(locks, closed, d))' <=> \A d \in closed' : Locks(locks', closed', d)
    BY DEF Locks, Window
  <2> QED
    BY <1>1, <2>2, <2>3, <2>4 DEF LocksInv
<1> QED
  BY <1>2, <1>3, BeforeEnd DEF Untouched, EnterTrade, trades

(***************************************************************************)
(* The trades of a pair in a main candle.                                  *)
(***************************************************************************)

LEMMA Multiples ==
  ASSUME NEW i \in Nat, NEW j \in Nat, i < j
  PROVE  i * Details + Details <= j * Details
<1> DEFINE e == j - i - 1
<1>1. Details \in Nat /\ e \in Nat /\ j = i + 1 + e
  BY Numbers
<1> HIDE DEF e
<1>2. (i + 1 + e) * Details = i * Details + Details + e * Details
  BY <1>1
<1>3. e * Details \in Nat /\ i * Details \in Nat
  BY <1>1
<1> QED
  BY <1>1, <1>2, <1>3

\* Two dates in one main candle, and dates before it.
LEMMA MainCandle ==
  ASSUME NEW t \in Nat
  PROVE  /\ (t + 1) % Details # 0 => (t + 1) \div Details = t \div Details
         /\ (t + 1) % Details = 0 => \A a \in 0 .. t : a \div Details # (t + 1) \div Details
<1> DEFINE m == (t + 1) \div Details
           n == m * Details
<1>1. m \in Nat /\ n \in Nat /\ n <= t + 1 /\ t + 1 < n + Details /\ (t + 1) % Details = t + 1 - n
  BY DivFacts
<1>2. ASSUME n <= t
      PROVE  m = t \div Details
  <2> DEFINE k == t \div Details
             l == k * Details
  <2>1. k \in Nat /\ l \in Nat /\ l <= t /\ t < l + Details
    BY DivFacts
  <2>2. (k < m => l + Details <= n) /\ (m < k => n + Details <= l)
    BY <1>1, <2>1, Multiples
  <2> HIDE DEF k, l, m, n
  <2>3. k = m
    BY <1>1, <1>2, <2>1, <2>2, Numbers
  <2> QED
    BY <2>3 DEF k
<1>3. ASSUME n = t + 1, NEW a \in 0 .. t
      PROVE  a \div Details # m
  <2>1. (a \div Details) * Details <= a
    BY DivFacts
  <2> HIDE DEF m
  <2> QED
    BY <1>1, <1>3, <2>1
<1> HIDE DEF m, n
<1>4. (t + 1) % Details # 0 => n <= t
  BY <1>1
<1>5. (t + 1) % Details = 0 => n = t + 1
  BY <1>1
<1> QED
  BY <1>2, <1>3, <1>4, <1>5 DEF m

\* The next candle.
LEMMA TimeSingles ==
  ASSUME TypeInv, ClosedInv, SinglesInv, NextTime
  PROVE  SinglesInv'
<1>1. /\ pc = "next" /\ DOMAIN queue = {} /\ UNCHANGED <<open, closed, stacking>>
      /\ pc' \in {"next", "end"}
  BY DEF NextTime, config, trades
<1>2. Signal' /\ FromPast' /\ (OneEach => OneEach')
  BY <1>1 DEF Signal, FromPast, OneEach, InPass
<1>3. ASSUME NotAgain, pc' # "end", NEW c \in closed', Ended(c)'
      PROVE  AfterIt(c)'
  <2>1. /\ now' = now + 1 /\ now \in Nat /\ ~ InPass'
        /\ IF now' % Details = 0 THEN TRUE ELSE UNCHANGED <<skip, cached>>
    BY <1>1, <1>3 DEF NextTime, TypeInv, InPass
  <2>2. c \in closed /\ c.at \in 0 .. now
    BY <1>1, <2>1 DEF ClosedInv
  <2>3. c.at \div Details = (now + 1) \div Details /\ c.from < c.at
    BY <1>3, <2>1 DEF Ended
  <2>4. (now + 1) % Details # 0
    BY <2>1, <2>2, <2>3, MainCandle
  <2>5. Ended(c)
    BY <2>1, <2>3, <2>4, MainCandle DEF Ended
  <2>6. AfterIt(c)
    BY <1>1, <1>3, <2>2, <2>5 DEF NotAgain
  <2>7. UNCHANGED <<skip, cached, open>> /\ ~ IsFirst'
    BY <1>1, <2>1, <2>4 DEF IsFirst
  <2> QED
    BY <2>1, <2>6, <2>7 DEF AfterIt, OfPair
<1> QED
  BY <1>1, <1>2, <1>3 DEF SinglesInv, NotAgain

LEMMA PassPairSingles ==
  ASSUME SinglesInv, NEW p \in Pairs, PassPair(p)
  PROVE  SinglesInv'
<1>1. /\ pc = "next" /\ DOMAIN queue' \subseteq DOMAIN queue
      /\ UNCHANGED <<stacking, now, skip, cached, open, closed, pc>>
  BY DEF PassPair, Rest, config, trades
<1>2. Signal' /\ FromPast' /\ (OneEach => OneEach')
  BY <1>1 DEF Signal, FromPast, OneEach, InPass
<1>3. \A c : Ended(c)' = Ended(c) /\ (AfterIt(c) => AfterIt(c)')
  BY <1>1 DEF Ended, AfterIt, OfPair, InPass, IsFirst
<1>4. NotAgain => NotAgain'
  BY <1>1, <1>3 DEF NotAgain
<1> QED
  BY <1>1, <1>2, <1>4 DEF SinglesInv

\* A pair is visited.
LEMMA VisitPairSingles ==
  ASSUME TypeInv, OpenInv, ClosedInv, SinglesInv, NEW p \in Pairs, VisitPair(p)
  PROVE  SinglesInv'
<1>1. /\ pc = "next" /\ p \in DOMAIN queue /\ pair' = p /\ pc' = "manage"
      /\ DOMAIN queue' = DOMAIN queue \ {p}
      /\ UNCHANGED <<stacking, now, open, closed>>
  BY DEF VisitPair, IsNext, BeginPass, Rest, config, trades
<1>2. /\ skip' = IF OfPair(p) # {} THEN skip \cup {p} ELSE skip
      /\ IsFirst \/ p \in DOMAIN cached
      /\ ~ (p \in skip /\ OfPair(p) = {})
      /\ dir' \in IF IsFirst THEN Sides \cup {"none"} ELSE {cached[p], "none"}
      /\ cached' = IF IsFirst /\ (dir' # "none" \/ OfPair(p) # {})
                   THEN [q \in DOMAIN cached \cup {p} |-> IF q = p THEN dir' ELSE cached[q]]
                   ELSE cached
      /\ exiting' = IF stacking \/ OfPair(p) = {} THEN "none" ELSE Oldest(OfPair(p)).side
  BY DEF VisitPair, Passed, BeginPass
<1>3. Signal'
  <2>1. dir' # "none" => p \in DOMAIN cached' /\ cached'[p] = dir'
    BY <1>2
  <2> QED
    BY <1>1, <2>1 DEF Signal
<1>4. ASSUME ~ stacking, OneEach, FromPast, NotAgain
      PROVE  OneEach' /\ FromPast' /\ NotAgain'
  <2>1. OneEach'
    BY <1>1, <1>4 DEF OneEach
  <2>2. FromPast'
    <3>1. ASSUME NEW x \in OfPair(p)
          PROVE  exiting' = x.side /\ p \in skip'
      <4>1. Oldest(OfPair(p)) \in OfPair(p)
        BY <3>1, OldestSide
      <4>2. Oldest(OfPair(p)) = x
        BY <1>4, <3>1, <4>1 DEF OneEach, OfPair
      <4> QED
        BY <1>2, <1>4, <3>1, <4>2
    <3> QED
      BY <1>1, <3>1 DEF FromPast, OfPair
  <2>3. ASSUME NEW c \in closed', Ended(c)'
        PROVE  AfterIt(c)'
    <3>1. c \in closed /\ Ended(c) /\ c.side \in Sides /\ c.side # "none"
      BY <1>1, <2>3 DEF Ended, ClosedInv, Sides
    <3>2. AfterIt(c)
      BY <1>1, <1>4, <3>1 DEF NotAgain
    <3>3. c.pair \in skip' /\ (IsFirst' => c.pair \notin DOMAIN queue')
      BY <1>1, <1>2, <3>2 DEF AfterIt, IsFirst
    <3>4. c.pair = p => ~ IsFirst /\ cached' = cached
      BY <1>1, <1>2, <3>2 DEF AfterIt
    <3>5. OfPair(c.pair) # {} => c.pair \in DOMAIN cached' /\ cached'[c.pair] # c.side
      BY <1>2, <3>2, <3>4 DEF AfterIt
    <3>6. c.pair = p => dir' # c.side
      BY <1>2, <3>1, <3>2, <3>4 DEF AfterIt
    <3>7. OfPair(c.pair)' = OfPair(c.pair)
      BY <1>1 DEF OfPair
    <3> QED
      BY <1>1, <3>3, <3>5, <3>6, <3>7 DEF AfterIt
  <2> QED
    BY <2>1, <2>2, <2>3 DEF NotAgain
<1> QED
  BY <1>1, <1>3, <1>4 DEF SinglesInv

\* A trade begins.
LEMMA EnterSingles ==
  ASSUME TypeInv, SinglesInv, EnterTrade
  PROVE  SinglesInv'
<1>1. /\ pc = "enter" /\ pc' = "fill" /\ dir # "none" /\ (stacking \/ OfPair(pair) = {})
      /\ UNCHANGED <<stacking, now, queue, skip, cached, closed, pair, dir, exiting>>
  BY DEF EnterTrade, MayEnter, config, clock, pass
<1>2. PICK x : open' = open \cup {x} /\ x.pair = pair /\ x.side = dir /\ x.from = now
  BY EnterIs
<1>3. Signal'
  BY <1>1 DEF SinglesInv, Signal, InPass
<1>4. ASSUME ~ stacking, OneEach, FromPast, NotAgain
      PROVE  OneEach' /\ FromPast' /\ NotAgain'
  <2>1. OfPair(pair)' = {x} /\ \A p : p # pair => OfPair(p)' = OfPair(p)
    BY <1>1, <1>2, <1>4 DEF OfPair
  <2>2. OneEach'
    BY <1>1, <1>2, <1>4 DEF OneEach, OfPair
  <2>3. FromPast'
    BY <1>1, <1>2, <2>1 DEF FromPast, TypeInv
  <2>4. ASSUME NEW c \in closed', Ended(c)'
        PROVE  AfterIt(c)'
    <3>1. AfterIt(c)
      BY <1>1, <1>4, <2>4 DEF NotAgain, Ended
    <3>2. c.pair \in skip' /\ (IsFirst' => c.pair \notin DOMAIN queue')
      BY <1>1, <3>1 DEF AfterIt, IsFirst
    <3>3. pair = c.pair => dir # c.side /\ pair \in DOMAIN cached /\ cached[pair] = dir
      BY <1>1, <3>1 DEF AfterIt, InPass, SinglesInv, Signal
    <3> QED
      BY <1>1, <2>1, <3>1, <3>2, <3>3 DEF AfterIt
  <2> QED
    BY <2>2, <2>3, <2>4 DEF NotAgain
<1> QED
  BY <1>1, <1>3, <1>4 DEF SinglesInv

\* The loop goes on.
LEMMA GoOnSingles ==
  ASSUME SinglesInv, UNCHANGED <<config, clock, trades, pass>>, InPass, InPass', 
         pc' \in {"manage", "enter"} => pc \in {"manage", "enter"}
  PROVE  SinglesInv'
<1>1. UNCHANGED <<stacking, now, queue, skip, cached, open, closed, pair, dir, exiting>>
  BY DEF config, clock, trades, pass
<1>2. (Signal => Signal') /\ (OneEach => OneEach') /\ (FromPast => FromPast')
  BY <1>1 DEF Signal, OneEach, FromPast, OfPair
<1>3. pc # "end"
  BY DEF InPass
<1>4. \A c : (Ended(c)' => Ended(c)) /\ (AfterIt(c) => AfterIt(c)')
  BY <1>1 DEF Ended, AfterIt, OfPair, IsFirst
<1>5. NotAgain => NotAgain'
  BY <1>1, <1>3, <1>4 DEF NotAgain
<1> QED
  BY <1>1, <1>2, <1>5 DEF SinglesInv

LEMMA EndPassSingles ==
  ASSUME TypeInv, OpenInv, SinglesInv, EndPass
  PROVE  SinglesInv'
<1>1. /\ pc = "done" /\ UNCHANGED <<stacking, now, queue, skip, cached, open, closed, pair, dir>>
      /\ \/ pc' = "next"
         \/ pc' = "manage" /\ OfPair(pair) = {} /\ exiting \notin {"none", dir} /\ exiting' = "none"
  BY DEF EndPass, BeginPass, config, clock, trades, pass
<1>2. (Signal => Signal') /\ (OneEach => OneEach')
  BY <1>1 DEF Signal, OneEach, InPass
<1>3. FromPast'
  BY <1>1 DEF FromPast, OfPair, InPass
<1>4. \A c : Ended(c)' = Ended(c) /\ (AfterIt(c) => AfterIt(c)')
  BY <1>1 DEF Ended, AfterIt, OfPair, InPass, IsFirst
<1>5. NotAgain => NotAgain'
  BY <1>1, <1>4 DEF NotAgain
<1> QED
  BY <1>1, <1>2, <1>3, <1>5 DEF SinglesInv

\* A trade of the pair changes or ends.
LEMMA VisitedSingles ==
  ASSUME TypeInv, OpenInv, TodoInv, ClosedInv, LocksInv, SinglesInv, NEW x \in OfPair(pair),
         Visited(x, now), InPass, InPass', UNCHANGED <<config, clock, pass>>,
         pc' \in {"manage", "enter"} => pc \in {"manage", "enter"} /\ closed' = closed
  PROVE  SinglesInv'
<1>1. UNCHANGED <<stacking, now, queue, skip, cached, pair, dir, exiting>>
  BY DEF config, clock, pass
<1>2. x \in open /\ x.pair = pair /\ pc # "end"
  BY DEF OfPair, InPass
<1>3. /\ \A z \in open' : \E w \in open : SameTrade(w, z)
      /\ \A z, w \in open' : z.id = w.id => z = w
  BY <1>2, VisitedOpen
<1>4. \/ closed' = closed
      \/ \E c : closed' = closed \cup {c} /\ SameTrade(x, c) /\ c.at = now /\ open' = open \ {x}
  BY <1>2, VisitedLocks
<1>5. Signal'
  BY <1>1 DEF SinglesInv, Signal
<1>6. ASSUME ~ stacking, OneEach, FromPast, NotAgain
      PROVE  OneEach' /\ FromPast' /\ NotAgain'
  <2>1. OneEach'
    <3> SUFFICES ASSUME NEW z \in open', NEW w \in open', z.pair = w.pair
                 PROVE  z = w
      BY DEF OneEach
    <3>1. PICK a \in open : SameTrade(a, z)
      BY <1>3
    <3>2. PICK b \in open : SameTrade(b, w)
      BY <1>3
    <3>3. a = b
      BY <1>6, <3>1, <3>2 DEF OneEach, SameTrade
    <3> QED
      BY <1>3, <3>1, <3>2, <3>3 DEF SameTrade
  <2>2. FromPast'
    <3> SUFFICES ASSUME NEW z \in open', z.pair = pair, z.from < now
                 PROVE  exiting = z.side /\ pair \in skip
      BY <1>1 DEF FromPast, OfPair
    <3>1. PICK a \in open : SameTrade(a, z)
      BY <1>3
    <3> QED
      BY <1>6, <3>1 DEF FromPast, OfPair, SameTrade
  <2>3. \A p : OfPair(p)' # {} => OfPair(p) # {}
    <3> SUFFICES ASSUME NEW p, NEW z \in open', z.pair = p
                 PROVE  \E w \in open : w.pair = p
      BY DEF OfPair
    <3> QED
      BY <1>3 DEF SameTrade
  <2>4. ASSUME NEW c \in closed, Ended(c)'
        PROVE  AfterIt(c)'
    <3>1. AfterIt(c)
      BY <1>1, <1>2, <1>6, <2>4 DEF NotAgain, Ended
    <3>2. c.pair \in skip' /\ (IsFirst' => c.pair \notin DOMAIN queue')
      BY <1>1, <3>1 DEF AfterIt, IsFirst
    <3>3. pair = c.pair => dir # c.side
      BY <3>1 DEF AfterIt
    <3> QED
      BY <1>1, <2>3, <3>1, <3>2, <3>3 DEF AfterIt
  <2>5. ASSUME NEW c, closed' = closed \cup {c}, closed' # closed, SameTrade(x, c), c.at = now,
               open' = open \ {x}, Ended(c)'
        PROVE  AfterIt(c)'
    <3>1. c.pair = pair /\ x.from < now /\ c.side = x.side
      BY <1>2, <2>5 DEF SameTrade, Ended
    <3>2. exiting = c.side /\ pair \in skip /\ pair \notin DOMAIN queue
      BY <1>6, <3>1 DEF FromPast, SinglesInv, Signal
    <3>3. OfPair(pair)' = {}
      BY <1>1, <1>2, <1>6, <2>5 DEF OneEach, OfPair
    <3>4. pc' \notin {"manage", "enter"}
      BY <2>5
    <3>5. OfPair(c.pair)' = {}
      BY <1>1, <3>1, <3>3 DEF OfPair
    <3> QED
      BY <1>1, <3>1, <3>2, <3>3, <3>4, <3>5 DEF AfterIt
  <2>6. NotAgain'
    <3> SUFFICES ASSUME NEW c \in closed', Ended(c)'
                 PROVE  AfterIt(c)'
      BY DEF NotAgain
    <3> QED
      BY <1>4, <2>4, <2>5
  <2> QED
    BY <2>1, <2>2, <2>6
<1> QED
  BY <1>1, <1>5, <1>6 DEF SinglesInv

LEMMA LoopStep ==
  ASSUME Next, InPass, pc \notin {"enter", "done"}
  PROVE  /\ InPass' /\ UNCHANGED <<config, clock, pass, nextId>>
         /\ pc' \in {"manage", "enter"} => pc \in {"manage", "enter"} /\ closed' = closed
<1>1. ManageOrders \/ FillEntry \/ AdjustTrade \/ PlaceExit \/ FillExit
  BY DEF Next, NextTime, PassPair, VisitPair, EnterTrade, EnterNothing, EndPass, LeftOpen, InPass
<1>2. CASE ManageOrders
  <2>1. pc = "manage" /\ pc' \in {"manage", "enter"} /\ UNCHANGED <<config, clock, pass, nextId>>
    BY <1>2 DEF ManageOrders, Go
  <2>2. closed' = closed
    BY <1>2 DEF ManageOrders, Keep, trades
  <2> QED
    BY <2>1, <2>2 DEF InPass
<1>3. CASE FillEntry \/ AdjustTrade \/ PlaceExit \/ FillExit
  BY <1>3 DEF FillEntry, AdjustTrade, PlaceExit, FillExit, Go, InPass
<1> QED
  BY <1>1, <1>2, <1>3

LEMMA SinglesInvNext ==
  TypeInv /\ OpenInv /\ TodoInv /\ ClosedInv /\ LocksInv /\ SinglesInv /\ Next => SinglesInv'
<1> SUFFICES ASSUME TypeInv, OpenInv, TodoInv, ClosedInv, LocksInv, SinglesInv, Next
             PROVE  SinglesInv'
  OBVIOUS
<1>1. CASE NextTime
  BY <1>1, TimeSingles
<1>2. CASE \E p \in Pairs : PassPair(p) \/ VisitPair(p)
  BY <1>2, PassPairSingles, VisitPairSingles
<1>3. CASE EnterTrade
  BY <1>3, EnterSingles
<1>4. CASE EnterNothing
  <2>1. /\ UNCHANGED <<config, clock, trades, pass>> /\ InPass /\ InPass'
        /\ pc' \in {"manage", "enter"} => pc \in {"manage", "enter"}
    BY <1>4 DEF EnterNothing, InPass
  <2> QED
    BY <2>1, GoOnSingles
<1>5. CASE EndPass
  BY <1>5, EndPassSingles
<1>6. CASE InPass /\ pc \notin {"enter", "done"}
  <2>1. /\ InPass' /\ UNCHANGED <<config, clock, pass, nextId>>
        /\ pc' \in {"manage", "enter"} => pc \in {"manage", "enter"} /\ closed' = closed
    BY <1>6, LoopStep
  <2>2. CASE Untouched
    BY <1>6, <2>1, <2>2, GoOnSingles DEF Untouched
  <2>3. CASE Visited(Trade(Current), now) /\ Trade(Current) \in OfPair(pair)
    BY <1>6, <2>1, <2>3, VisitedSingles
  <2> QED
    BY <1>6, <2>2, <2>3, StepIs DEF EnterTrade, InPass
<1>7. CASE \E p \in Pairs : LeftOpen(p)
  <2>1. pc = "end" /\ pc' = "end" /\ stacking' = stacking
    BY <1>7 DEF LeftOpen, config
  <2>2. OneEach => OneEach'
    <3>1. CASE Untouched
      BY <3>1 DEF Untouched, trades, OneEach
    <3>2. CASE \E x \in open : Visited(x, EndDate)
      <4>1. /\ \A z \in open' : \E w \in open : SameTrade(w, z)
            /\ \A z, w \in open' : z.id = w.id => z = w
        BY <3>2, VisitedOpen
      <4> QED
        BY <4>1 DEF OneEach, SameTrade
    <3> QED
      BY <2>1, <3>1, <3>2, StepIs DEF EnterTrade, InPass
  <2> QED
    BY <2>1, <2>2 DEF SinglesInv, Signal, FromPast, NotAgain, InPass
<1>8. pc \in {"next", "end"} \/ InPass
  BY DEF TypeInv, InPass
<1> QED
  BY <1>1, <1>2, <1>3, <1>4, <1>5, <1>6, <1>7 DEF Next, ManageOrders, FillEntry, AdjustTrade, PlaceExit, FillExit, InPass

LEMMA InitIInv == Init => IInv
<1> SUFFICES ASSUME Init
             PROVE  IInv
  OBVIOUS
<1> USE DEF Init
<1>1. TypeInv
  <2>1. {stacking, protected, second} \subseteq BOOLEAN
    BY BacktestAssumption
  <2>2. 0 \in 0 .. Candles * Details - 1
    <3>1. Candles \in Nat \ {0} /\ Details \in Nat \ {0}
      BY Numbers
    <3>2. Candles * Details \in Nat /\ Candles * Details > 0
      BY <3>1
    <3> QED
      BY <3>2
  <2>3. pair \in Pairs /\ DOMAIN queue \subseteq Pairs
    BY BacktestAssumption DEF PairQueue
  <2> QED
    BY <2>1, <2>2, <2>3 DEF TypeInv, Direction
<1>2. OpenInv
  BY FS_EmptySet DEF OpenInv, Ids
<1>3. TodoInv /\ ClosedInv /\ LocksInv /\ SinglesInv
  BY FS_EmptySet DEF TodoInv, InPass, ClosedInv, LocksInv, SinglesInv, Signal, OneEach, FromPast, NotAgain
<1> QED
  BY <1>1, <1>2, <1>3 DEF IInv

LEMMA IInvNext == IInv /\ [Next]_vars => IInv'
<1> SUFFICES ASSUME IInv, [Next]_vars
             PROVE  IInv'
  OBVIOUS
<1>1. CASE Next
  BY <1>1, TypeInvNext, OpenInvNext, TodoInvNext, ClosedInvNext, LocksInvNext, SinglesInvNext DEF IInv
<1>2. CASE UNCHANGED vars
  <2>1. UNCHANGED <<stacking, protected, now, queue, skip, cached, open, count, closed, locks,
                    pc, pair, dir, second, exiting, todo, nextId>>
    BY <1>2 DEF vars, config, clock, trades, pass
  <2>2. TypeInv' /\ OpenInv'
    BY <2>1 DEF IInv, TypeInv, OpenInv, Direction, Ids
  <2>3. TodoInv' /\ ClosedInv'
    BY <2>1 DEF IInv, TodoInv, InPass, ClosedInv, Ids, Current
  <2>4. LocksInv'
    BY <2>1 DEF IInv, LocksInv, Locks, Window
  <2>5. SinglesInv'
    BY <2>1 DEF IInv, SinglesInv, Signal, OneEach, FromPast, NotAgain, Ended, AfterIt, OfPair, InPass, IsFirst
  <2> QED
    BY <2>2, <2>3, <2>4, <2>5 DEF IInv
<1> QED
  BY <1>1, <1>2

LEMMA IInvHolds == Spec => []IInv
BY InitIInv, IInvNext, PTL DEF Spec

(***************************************************************************)
(* The theorems.                                                           *)
(***************************************************************************)

\* The state of the loop has its types, for any configuration: what the model
\* sells never exceeds what a trade has bought (LocalTrade.recalc_trade_from_orders).
THEOREM TypeCorrect == Spec => []TypeOK
<1>1. ASSUME IInv
      PROVE  TypeOK
  <2>1. count \in Nat
    BY <1>1, FS_CardinalityType DEF IInv, OpenInv
  <2>2. open \subseteq TradeType
    BY <1>1 DEF IInv, OpenInv, Fits, Sound, Row, TradeType
  <2> QED
    BY <1>1, <2>1, <2>2 DEF IInv, TypeInv, TypeOK, Direction
<1> QED
  BY <1>1, IInvHolds, PTL

\* No trade has two open orders or sells more than it holds, and one that holds
\* nothing waits for its entry, whatever is replaced, canceled or fills.
THEOREM OrdersFit == Spec => []OneOrderThatFits
<1>1. ASSUME IInv
      PROVE  OneOrderThatFits
  <2> SUFFICES ASSUME NEW x \in open
               PROVE  /\ Len(x.orders) <= 1
                      /\ \A o \in Range(x.orders) : o.kind = "exit" => o.amount <= x.amount
                      /\ x.amount = 0 => HasOrder(x, "entry")
    BY DEF OneOrderThatFits
  <2>0. Fits(x)
    BY <1>1 DEF IInv, OpenInv
  <2>1. x.amount \in Nat
    BY <2>0, Numbers DEF Fits, Sound, Row
  <2>2. CASE Waits(x)
    <3>1. Range(x.orders) = {Order("entry", 1)} /\ Len(x.orders) = 1
      BY <2>2, RangeOfOne DEF Waits
    <3> QED
      BY <3>1 DEF HasOrder, Order
  <2>3. CASE Sells(x)
    <3>1. PICK a \in 1 .. x.amount : x.orders = <<Order("exit", a)>>
      BY <2>3 DEF Sells
    <3>2. Range(x.orders) = {Order("exit", a)} /\ Len(x.orders) = 1
      BY <3>1, RangeOfOne
    <3> QED
      BY <2>1, <3>1, <3>2 DEF Order
  <2>4. CASE Holds(x)
    <3>1. Range(x.orders) = {} /\ Len(x.orders) = 0
      BY <2>4 DEF Holds, Range
    <3> QED
      BY <2>4, <3>1 DEF Holds
  <2> QED
    BY <2>0, <2>2, <2>3, <2>4 DEF Fits
<1> QED
  BY <1>1, IInvHolds, PTL

\* Only EnterTrade gives a trade its number.
LEMMA Entering ==
  ASSUME IInv, [Next]_vars, nextId' # nextId
  PROVE  EnterTrade
BY StepIs DEF IInv, vars, Untouched

\* The counter of open trades stands for the list: no step opens two trades, or
\* one when no slot is left, on either pass of the loop.
THEOREM SlotsKept == Spec => KeepsSlots
<1>1. Init => Open!Init
  BY DEF Init, Open!Init, Ids
<1>2. ASSUME IInv, [Next]_vars
      PROVE  [Open!Next]_(Ids(open))
  <2>1. CASE UNCHANGED open
    BY <2>1 DEF Ids
  <2>2. ASSUME NEW x \in open, NEW t, Visited(x, t)
        PROVE  [Open!Next]_(Ids(open))
    <3>1. Ids(open') = Ids(open) \/ Ids(open') = Ids(open) \ {x.id}
      BY <1>2, <2>2, VisitedOpen DEF IInv
    <3>2. x.id \in Ids(open)
      BY DEF Ids
    <3>3. Ids(open)' = Ids(open')
      BY DEF Ids
    <3> QED
      BY <3>1, <3>2, <3>3 DEF Open!Next, Open!Give
  <2>3. CASE EnterTrade
    <3>1. PICK x : open' = open \cup {x} /\ x.id = nextId
      BY <1>2, <2>3, EnterIs DEF IInv
    <3>2. Ids(open)' = Ids(open) \cup {nextId}
      BY <3>1 DEF Ids
    <3>3. nextId \notin Ids(open)
      BY <1>2 DEF IInv, OpenInv, TypeInv, Ids, Fits, Sound, Row
    <3>4. Cardinality(Ids(open)) < MaxOpenTrades
      BY <1>2, <2>3 DEF IInv, OpenInv, EnterTrade, MayEnter, SlotAvailable
    <3>5. Open!Cardinality(Ids(open)) = Cardinality(Ids(open))
      BY DEF Cardinality, Open!Cardinality
    <3> QED
      BY <3>2, <3>3, <3>4, <3>5 DEF Open!Next, Open!Take
  <2>4. CASE UNCHANGED vars
    BY <2>1, <2>4 DEF vars, trades
  <2>5. CASE Next
    <3>1. CASE Untouched
      BY <2>1, <3>1 DEF Untouched, trades
    <3>2. CASE Visited(Trade(Current), now) /\ Trade(Current) \in OfPair(pair)
      BY <2>2, <3>2 DEF OfPair
    <3>3. CASE \E x \in open : Visited(x, EndDate)
      BY <2>2, <3>3
    <3> QED
      BY <1>2, <2>3, <2>5, <3>1, <3>2, <3>3, StepIs DEF IInv
  <2> QED
    BY <1>2, <2>4, <2>5
<1>3. Spec => [][Open!Next]_(Ids(open))
  BY <1>2, IInvHolds, PTL DEF Spec
<1> QED
  BY <1>1, <1>3 DEF Spec, KeepsSlots, Open!Spec

\* A trade that ends locks its pair for the cooldown, and everything once enough
\* stoplosses are within the lookback period, and those locks are still there when
\* a trade begins (run_protections, ProtectionManager).
THEOREM LocksRespected == Spec => LocksAreRespected
<1> DEFINE After(c) == /\ c.pair = pair => now > c.at + Cooldown
                       /\ LET stops == {d \in closed : /\ d.stop /\ d.at \in c.at - Lookback + 1 .. c.at
                                                       /\ PerSide => c.side = dir /\ d.side = dir}
                          IN  c \in stops /\ Cardinality(stops) >= GuardLimit => now > c.at + GuardStop
<1>1. ASSUME IInv, [Next]_vars, protected, nextId' # nextId, NEW c \in closed
      PROVE  After(c)
  <2>1. pc = "enter" /\ ~ Locked(locks, pair, now, dir)
    BY <1>1, Entering DEF EnterTrade, MayEnter
  <2>2. Locks(locks, closed, c) /\ \A l \in locks : l.until \in Nat
    BY <1>1, <2>1 DEF IInv, LocksInv
  <2>3. \A l \in locks : l.pair \in {pair, "*"} /\ l.side \in {"*", dir} => ~ (l.until >= now)
    BY <2>1 DEF Locked
  <2>4. now \in Nat /\ c.at \in Nat
    BY <1>1, <2>1 DEF IInv, TypeInv, ClosedInv
  <2>5. c.pair = pair => now > c.at + Cooldown
    <3> SUFFICES ASSUME c.pair = pair
                 PROVE  now > c.at + Cooldown
      OBVIOUS
    <3>1. PICK l \in locks : l.pair \in {pair, "*"} /\ l.until >= c.at + Cooldown /\ l.side = "*"
      BY <2>2 DEF Locks
    <3> QED
      BY <2>2, <2>3, <2>4, <3>1, Numbers
  <2> DEFINE stops == {d \in closed : /\ d.stop /\ d.at \in c.at - Lookback + 1 .. c.at
                                      /\ PerSide => c.side = dir /\ d.side = dir}
  <2>6. ASSUME c \in stops, Cardinality(stops) >= GuardLimit
        PROVE  now > c.at + GuardStop
    <3>1. c.stop /\ (PerSide => c.side = dir)
      BY <2>6
    <3>2. stops = Window(closed, c)
      BY <3>1 DEF Window
    <3> HIDE DEF stops
    <3>3. PICK l \in locks : /\ l.pair = "*" /\ l.until >= c.at + GuardStop
                             /\ l.side \in {"*", IF PerSide THEN c.side ELSE "*"}
      BY <2>2, <2>6, <3>1, <3>2 DEF Locks
    <3>4. l.side \in {"*", dir}
      BY <3>1, <3>3
    <3> QED
      BY <2>2, <2>3, <2>4, <3>3, <3>4, Numbers
  <2> QED
    BY <2>5, <2>6
<1>2. ASSUME IInv, [Next]_vars
      PROVE  [protected /\ nextId' # nextId => \A c \in closed : After(c)]_vars
  BY <1>1, <1>2
<1> QED
  BY <1>2, IInvHolds, PTL DEF Spec, LocksAreRespected

\* Without stacking, a pair with a trade is not entered, nor one whose trade ended
\* in the same main candle, unless in the other direction, on whichever detail
\* candle and pass of the loop.
THEOREM EnteredOnce == Spec => OneTradeAtATime
<1> DEFINE Free == /\ OfPair(pair) = {}
                   /\ \A c \in closed :
                        c.pair = pair /\ c.at \div Details = now \div Details /\ c.from < c.at =>
                          c.side # dir
<1>1. ASSUME IInv, [Next]_vars, ~ stacking, nextId' # nextId
      PROVE  Free
  <2>1. pc = "enter" /\ OfPair(pair) = {}
    BY <1>1, Entering DEF EnterTrade, MayEnter
  <2>2. NotAgain
    BY <1>1 DEF IInv, SinglesInv
  <2> QED
    BY <2>1, <2>2 DEF NotAgain, Ended, AfterIt, InPass
<1>2. ASSUME IInv, [Next]_vars
      PROVE  [~ stacking /\ nextId' # nextId => Free]_vars
  BY <1>1, <1>2
<1> QED
  BY <1>2, IInvHolds, PTL DEF Spec, OneTradeAtATime
=============================================================================
