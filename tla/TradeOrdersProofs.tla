------------------------- MODULE TradeOrdersProofs -------------------------
(***************************************************************************)
(* Proofs about TradeOrders: types, committed rows, and, when the exchange *)
(* tells the truth about canceled orders, truthful rows and amounts, which *)
(* trades are removed and which stay, and, for the one trade of a coin,    *)
(* that no order is forgotten, closed trades are sold and amounts are      *)
(* what was bought.                                                        *)
(***************************************************************************)
EXTENDS TradeOrders, FiniteSetTheorems, TLAPS

\* What fetches and answers say is so: no canceled order is forgotten and none is
\* reported as unknown.
AnswersAreTrue == Answers \cap {"forgotten", "unknown"} = {}

UsedIn(x) == {o \in Ids : x[o].status # "none"}

\* Orders are numbered as they are created, and filled up to their amount.
OrdersFit(x) ==
  /\ x \in Orders
  /\ \E n \in 0 .. MaxOrders : UsedIn(x) = 1 .. n
  /\ \A o \in Ids : /\ x[o].filled <= x[o].amount
                    /\ x[o].status = "open" => x[o].filled < x[o].amount

\* Rows of database d that are not open say what became of the order.
FinalIn(x, d) ==
  \A o \in Ids : d.rows[o].known /\ ~ d.rows[o].open
                   => x[o].status # "open" /\ d.rows[o].filled = x[o].filled

NetIn(x, d) ==
  SumFunction([o \in Ids |-> IF d.rows[o].known /\ ~ d.rows[o].open
                             THEN Sign(x[o].side) * d.rows[o].filled ELSE 0])

NetHeld(x, d) == d.trade.st = "open" /\ NetIn(x, d) > 0 => d.trade.amount = NetIn(x, d)

\* Database d fits the orders x.
Fits(x, d) ==
  /\ d \in Databases
  /\ \A o \in Ids : d.rows[o].known => x[o].status # "none" /\ d.rows[o].filled <= x[o].amount
  /\ \A o \in Ids : ~ d.rows[o].known => d.rows[o].filled = 0
  /\ AnswersAreTrue => FinalIn(x, d)
  /\ AnswersAreTrue /\ Crashes = 0 => NetHeld(x, d)

\* What the job at hand may look like.
JobInv ==
  /\ holder = "free" => Quiet /\ pc \in Sections \cup {"down"}
  /\ holder = "rpc" => pc \in Sections
  /\ job.ready => job.kind \in ExitKinds \cup EntryKinds \cup {"stoploss"}
  /\ job.kind \in EntryKinds => job.want > 0
  /\ job.ready /\ job.kind \in ExitKinds => job.want > 0
  /\ job.kind = "stoploss" =>
       /\ job.ready /\ holder = "main" /\ pc = "signal"
       /\ ~ job.refinding => db.trade.amount > 0
  /\ job.refinding => job.ready
  /\ refind # {} => job.refinding
  /\ pc = "stops" => job = NoJob /\ sent = NotSent /\ todo \subseteq Known(db)

\* Orders to cancel and to refind are rows; only stoploss orders are cancelled but
\* by the handlers that look for all open orders.
CancelsInv ==
  /\ cancels \subseteq Known(db) /\ refind \subseteq Known(db)
  /\ job.kind \in {"none", "stoploss"} \/ job.refinding
       => \A o \in cancels : xo[o].side = "stoploss"

\* The answer to a new order, before it is recorded.
SentInv ==
  sent # NotSent =>
    /\ job.ready /\ ~ job.refinding /\ cancels = {}
    /\ sent.id \in Ids /\ ~ db.rows[sent.id].known /\ ~ stored.rows[sent.id].known
    /\ xo[sent.id].status # "none" /\ sent.c.filled <= xo[sent.id].amount
    /\ sent.c.status # "open" => xo[sent.id].status = sent.c.status /\ xo[sent.id].filled = sent.c.filled
    /\ job.kind = "stoploss" => sent.c.status = "open" /\ Open(db)

\* Rows and state of the trade are committed, except between a stoploss order
\* and the end of exit_positions.
CommittedInv ==
  \/ Known(db) = Known(stored) /\ db.trade.st = stored.trade.st
  \/ holder = "main" /\ pc \in {"signal", AfterExits}

IInv ==
  /\ TypeOK
  /\ OrdersFit(xo) /\ Fits(xo, db) /\ Fits(xo, stored)
  /\ JobInv /\ CancelsInv /\ SentInv /\ CommittedInv

(***************************************************************************)
(* Sums.                                                                   *)
(***************************************************************************)

LEMMA SmallestOf ==
  ASSUME NEW T \in SUBSET Nat, T # {}
  PROVE  \E n \in T : \A m \in T : n <= m
<1>1. PICK n \in T : \A m \in T : ~ (<<m, n>> \in OpToRel(<, Nat))
  BY NatLessThanWellFounded, WFMin
<1>2. \A m \in T : ~ (m < n)
  BY <1>1 DEF OpToRel
<1> QED
  BY <1>2

\* What holds of {}, and of a set when it holds of the set without one element,
\* holds of all subsets of a finite set.
LEMMA SubsetsByOne ==
  ASSUME NEW S, IsFiniteSet(S), NEW W, {} \in W,
         \A s \in SUBSET S : s # {} /\ (\A a \in s : s \ {a} \in W) => s \in W
  PROVE  SUBSET S \subseteq W
<1>1. \A s \in SUBSET S : IsFiniteSet(s) /\ Cardinality(s) \in Nat
  BY FS_Subset, FS_CardinalityType
<1> SUFFICES ASSUME NEW t \in SUBSET S, t \notin W PROVE FALSE
  OBVIOUS
<1> DEFINE sizes == {n \in Nat : \E s \in SUBSET S : s \notin W /\ Cardinality(s) = n}
<1>2. sizes # {}
  BY <1>1
<1>3. PICK n \in sizes : \A m \in sizes : n <= m
  BY <1>2, SmallestOf
<1>4. PICK s \in SUBSET S : s \notin W /\ Cardinality(s) = n
  BY <1>3
<1>5. PICK a \in s : s \ {a} \notin W
  BY <1>4
<1>6. Cardinality(s \ {a}) = n - 1 /\ s \ {a} \in SUBSET S
  BY <1>1, <1>4, <1>5, FS_RemoveElement
<1>7. n - 1 \in sizes /\ n \in Nat
  BY <1>1, <1>5, <1>6
<1>8. n <= n - 1
  BY <1>3, <1>7
<1> QED
  BY <1>7, <1>8

\* The element the folds of the library take out of a set.
First(s) == CHOOSE x \in s : TRUE

LEMMA FirstIs ==
  ASSUME NEW s, s # {}
  PROVE  First(s) \in s
<1>1. \E x \in s : TRUE
  OBVIOUS
<1> QED
  BY <1>1, Zenon DEF First

\* Sums of f over the subsets of S, element by element as the folds take them.
FoldStep(g, f, s) == IF s = {} THEN 0 ELSE f[First(s)] + g[s \ {First(s)}]

IsFold(g, f, S) == g = [s \in SUBSET S |-> FoldStep(g, f, s)]

\* The sum of a function is what the recursion of MapThenFoldSet computes, which
\* is defined on every finite set and stays in any set of numbers closed under +.
LEMMA FoldsExist ==
  ASSUME NEW S, IsFiniteSet(S), NEW T, 0 \in T, \A a, b \in T : a + b \in T,
         NEW f \in [S -> T]
  PROVE  \E g \in [SUBSET S -> T] : IsFold(g, f, S)
<1> DEFINE upTo(n) == {s \in SUBSET S : Cardinality(s) <= n}
           sums(n) == \E g \in [upTo(n) -> T] : \A s \in upTo(n) : g[s] = FoldStep(g, f, s)
<1>1. \A s \in SUBSET S : IsFiniteSet(s) /\ Cardinality(s) \in Nat
  BY FS_Subset, FS_CardinalityType
<1>2. \A n \in Nat : sums(n)
  <2> SUFFICES ASSUME {n \in Nat : ~ sums(n)} # {} PROVE FALSE
    OBVIOUS
  <2> HIDE DEF sums
  <2>1. PICK n \in Nat : ~ sums(n) /\ \A m \in Nat : ~ sums(m) => n <= m
    BY SmallestOf
  <2>2. CASE n = 0
    <3>1. upTo(0) = {{}}
      BY <1>1, FS_EmptySet
    <3>2. sums(0)
      <4> DEFINE g == [s \in upTo(0) |-> 0]
      <4>1. g \in [upTo(0) -> T] /\ \A s \in upTo(0) : g[s] = FoldStep(g, f, s)
        BY <3>1 DEF FoldStep
      <4> QED
        BY <4>1 DEF sums
    <3> QED
      BY <2>1, <2>2, <3>2
  <2>3. CASE n # 0
    <3>1. n - 1 \in Nat /\ sums(n - 1)
      BY <2>1, <2>3
    <3>2. PICK g \in [upTo(n - 1) -> T] : \A s \in upTo(n - 1) : g[s] = FoldStep(g, f, s)
      BY <3>1 DEF sums
    <3> DEFINE h == [s \in upTo(n) |-> FoldStep(g, f, s)]
    <3>3. ASSUME NEW s \in upTo(n), s # {} PROVE First(s) \in s /\ s \ {First(s)} \in upTo(n - 1)
      <4>1. First(s) \in s
        BY <3>3, FirstIs
      <4>2. Cardinality(s \ {First(s)}) = Cardinality(s) - 1
        BY <1>1, <4>1, FS_RemoveElement
      <4> QED
        BY <1>1, <2>1, <4>1, <4>2
    <3>4. h \in [upTo(n) -> T]
      BY <3>2, <3>3 DEF FoldStep
    <3>5. \A s \in upTo(n - 1) : s \in upTo(n) /\ h[s] = g[s]
      BY <1>1, <2>1, <3>2
    <3>6. \A s \in upTo(n) : h[s] = FoldStep(h, f, s)
      <4> SUFFICES ASSUME NEW s \in upTo(n) PROVE FoldStep(g, f, s) = FoldStep(h, f, s)
        OBVIOUS
      <4>1. CASE s = {}
        BY <4>1 DEF FoldStep
      <4>2. CASE s # {}
        <5>1. g[s \ {First(s)}] = h[s \ {First(s)}]
          BY <3>3, <3>5, <4>2
        <5> QED
          BY <4>2, <5>1 DEF FoldStep
      <4> QED
        BY <4>1, <4>2
    <3> QED
      BY <2>1, <3>4, <3>6 DEF sums
  <2> QED
    BY <2>2, <2>3
<1>3. Cardinality(S) \in Nat /\ upTo(Cardinality(S)) = SUBSET S
  BY <1>1, FS_Subset, FS_CardinalityType
<1>4. sums(Cardinality(S))
  <2> HIDE DEF sums
  <2> QED
    BY <1>2, <1>3
<1>5. PICK g \in [SUBSET S -> T] : \A s \in SUBSET S : g[s] = FoldStep(g, f, s)
  BY <1>3, <1>4
<1>6. IsFold(g, f, S)
  BY <1>5 DEF IsFold
<1> QED
  BY <1>5, <1>6

LEMMA FoldsAgree ==
  ASSUME NEW S, IsFiniteSet(S), NEW f, NEW g, IsFold(g, f, S), NEW h, IsFold(h, f, S)
  PROVE  g = h
<1> DEFINE W == {s \in SUBSET S : g[s] = h[s]}
<1>1. \A s \in SUBSET S : g[s] = FoldStep(g, f, s) /\ h[s] = FoldStep(h, f, s)
  BY DEF IsFold
<1>2. {} \in W
  BY <1>1 DEF FoldStep
<1>3. \A s \in SUBSET S : s # {} /\ (\A a \in s : s \ {a} \in W) => s \in W
  BY <1>1, FirstIs DEF FoldStep
<1> HIDE DEF W
<1>4. SUBSET S \subseteq W
  BY <1>2, <1>3, SubsetsByOne
<1> QED
  BY <1>4 DEF W, IsFold

\* What the library computes is such a function.
LEMMA FoldIs ==
  ASSUME NEW S, NEW f, DOMAIN f = S, \E g : IsFold(g, f, S)
  PROVE  \E g : IsFold(g, f, S) /\ SumFunction(f) = g[S]
<1> DEFINE fold == CHOOSE g : IsFold(g, f, S)
<1>1. IsFold(fold, f, S)
  BY Zenon
<1>2. SumFunction(f) = fold[S]
  BY Zenon DEF SumFunction, SumFunctionOnSet, FoldFunctionOnSet, MapThenFoldSet, IsFold, FoldStep, First
<1> QED
  BY <1>1, <1>2, Zenon

LEMMA SumIsIn ==
  ASSUME NEW S, IsFiniteSet(S), NEW T, 0 \in T, \A a, b \in T : a + b \in T,
         NEW f \in [S -> T]
  PROVE  SumFunction(f) \in T
<1>1. PICK g \in [SUBSET S -> T] : IsFold(g, f, S)
  BY FoldsExist
<1>2. PICK h : IsFold(h, f, S) /\ SumFunction(f) = h[S]
  BY <1>1, FoldIs
<1>3. g = h
  BY <1>1, <1>2, FoldsAgree
<1> QED
  BY <1>1, <1>2, <1>3

LEMMA SumIsInt ==
  ASSUME NEW S, IsFiniteSet(S), NEW f \in [S -> Int]
  PROVE  SumFunction(f) \in Int
<1>1. 0 \in Int /\ \A a, b \in Int : a + b \in Int
  OBVIOUS
<1> QED
  BY <1>1, SumIsIn

\* Sums of f over the subsets of S, in whatever order its elements are added.
Adds(g, f, S) ==
  /\ g \in [SUBSET S -> Int] /\ g[{}] = 0
  /\ \A s \in SUBSET S : \A a \in s : g[s] = f[a] + g[s \ {a}]

LEMMA SumAdds ==
  ASSUME NEW S, IsFiniteSet(S), NEW f \in [S -> Int]
  PROVE  \E g : Adds(g, f, S) /\ SumFunction(f) = g[S]
<1>1. 0 \in Int /\ \A a, b \in Int : a + b \in Int
  OBVIOUS
<1>2. PICK g \in [SUBSET S -> Int] : IsFold(g, f, S)
  BY <1>1, FoldsExist
<1>3. PICK h : IsFold(h, f, S) /\ SumFunction(f) = h[S]
  BY <1>2, FoldIs
<1>4. g = h
  BY <1>2, <1>3, FoldsAgree
<1>5. \A s \in SUBSET S : s # {} => First(s) \in s /\ g[s] = f[First(s)] + g[s \ {First(s)}]
  BY <1>2, FirstIs DEF IsFold, FoldStep
<1>6. g[{}] = 0
  BY <1>2 DEF IsFold, FoldStep
<1> DEFINE W == {s \in SUBSET S : \A a \in s : g[s] = f[a] + g[s \ {a}]}
<1>7. {} \in W
  OBVIOUS
<1>8. \A s \in SUBSET S : s # {} /\ (\A a \in s : s \ {a} \in W) => s \in W
  <2> SUFFICES ASSUME NEW s \in SUBSET S, \A a \in s : s \ {a} \in W, NEW a \in s
               PROVE  g[s] = f[a] + g[s \ {a}]
    OBVIOUS
  <2>1. PICK b \in s : g[s] = f[b] + g[s \ {b}]
    BY <1>5
  <2>2. CASE a = b
    BY <2>1, <2>2
  <2>3. CASE a # b
    <3>1. (s \ {a}) \ {b} = (s \ {b}) \ {a}
      OBVIOUS
    <3>2. g[s \ {b}] = f[a] + g[(s \ {b}) \ {a}]
      BY <2>1, <2>3
    <3>3. g[s \ {a}] = f[b] + g[(s \ {b}) \ {a}]
      BY <2>1, <2>3, <3>1
    <3>4. g[(s \ {b}) \ {a}] \in Int /\ f[a] \in Int /\ f[b] \in Int
      OBVIOUS
    <3> QED
      BY <2>1, <3>2, <3>3, <3>4
  <2> QED
    BY <2>2, <2>3
<1> HIDE DEF W
<1>9. SUBSET S \subseteq W
  BY <1>7, <1>8, SubsetsByOne
<1>10. Adds(g, f, S)
  BY <1>6, <1>9 DEF Adds, W
<1> QED
  BY <1>3, <1>4, <1>10

\* Two sums, of functions that compare everywhere but at a.
LEMMA SumCompare ==
  ASSUME NEW S, IsFiniteSet(S), NEW f \in [S -> Int], NEW g \in [S -> Int], NEW a \in S,
         \A b \in S : b # a => f[b] <= g[b]
  PROVE  SumFunction(f) + g[a] <= SumFunction(g) + f[a]
<1>1. PICK j : Adds(j, f, S) /\ SumFunction(f) = j[S]
  BY SumAdds
<1>2. PICK k : Adds(k, g, S) /\ SumFunction(g) = k[S]
  BY SumAdds
<1>3. \A s \in SUBSET S : j[s] \in Int /\ k[s] \in Int
  BY <1>1, <1>2 DEF Adds
<1> DEFINE W == {s \in SUBSET S : /\ a \notin s => j[s] <= k[s]
                                  /\ a \in s => j[s] + g[a] <= k[s] + f[a]}
<1>4. {} \in W
  BY <1>1, <1>2 DEF Adds
<1>5. \A s \in SUBSET S : s # {} /\ (\A b \in s : s \ {b} \in W) => s \in W
  <2> SUFFICES ASSUME NEW s \in SUBSET S, \A c \in s : s \ {c} \in W, NEW b \in s PROVE s \in W
    OBVIOUS
  <2>1. j[s] = f[b] + j[s \ {b}] /\ k[s] = g[b] + k[s \ {b}]
    BY <1>1, <1>2 DEF Adds
  <2>2. f[b] \in Int /\ g[b] \in Int /\ f[a] \in Int /\ g[a] \in Int
        /\ j[s \ {b}] \in Int /\ k[s \ {b}] \in Int
    BY <1>3
  <2>3. s \ {b} \in W
    OBVIOUS
  <2>4. CASE a = b
    BY <2>1, <2>2, <2>3, <2>4
  <2>5. CASE a # b
    <3>1. f[b] <= g[b] /\ (a \in s <=> a \in s \ {b})
      BY <2>5
    <3> QED
      BY <2>1, <2>2, <2>3, <3>1
  <2> QED
    BY <2>4, <2>5
<1> HIDE DEF W
<1>6. S \in W
  BY <1>4, <1>5, SubsetsByOne
<1> QED
  BY <1>1, <1>2, <1>6 DEF W

LEMMA IdsFinite == MaxOrders \in Nat /\ IsFiniteSet(Ids) /\ Ids \subseteq Nat \ {0}
BY TradeOrdersAssumption, FS_Interval DEF Ids

LEMMA NetIsInt ==
  ASSUME NEW x \in Orders, NEW d \in Databases
  PROVE  NetIn(x, d) \in Int
<1> DEFINE share == [o \in Ids |-> IF d.rows[o].known /\ ~ d.rows[o].open
                                  THEN Sign(x[o].side) * d.rows[o].filled ELSE 0]
<1>1. share \in [Ids -> Int]
  <2> SUFFICES ASSUME NEW o \in Ids PROVE Sign(x[o].side) * d.rows[o].filled \in Int
    OBVIOUS
  <2>1. d.rows[o].filled \in Int /\ Sign(x[o].side) \in {1, -1}
    BY DEF Databases, Sign
  <2> QED
    BY <2>1
<1> HIDE DEF share
<1>2. SumFunction(share) \in Int
  BY <1>1, IdsFinite, SumIsInt
<1> QED
  BY <1>2 DEF share, NetIn

LEMMA NetIsNetIn ==
  ASSUME NEW d
  PROVE  Net(d) = NetIn(xo, d)
<1>1. [o \in Ids |-> Share(d, o)]
        = [o \in Ids |-> IF d.rows[o].known /\ ~ d.rows[o].open
                         THEN Sign(xo[o].side) * d.rows[o].filled ELSE 0]
  BY DEF Share, Known, OpenRows
<1> QED
  BY <1>1 DEF Net, NetIn

(***************************************************************************)
(* What the operators on databases return.                                 *)
(***************************************************************************)

Seen == [status : Status \cup {"none"}, filled : Nat]

Row(c) == [known |-> TRUE, open |-> c.status = "open", status |-> c.status, filled |-> c.filled]

LEMMA UpdateRowFacts ==
  ASSUME NEW d \in Databases, NEW o \in Ids, NEW c \in Seen
  PROVE  /\ UpdateRow(d, o, c) \in Databases
         /\ UpdateRow(d, o, c).rows = [d.rows EXCEPT ![o] = Row(c)]
         /\ UpdateRow(d, o, c).trade = d.trade
BY DEF UpdateRow, Databases, Seen, Row

LEMMA RecalcFacts ==
  ASSUME xo \in Orders, NEW d \in Databases
  PROVE  /\ Recalc(d) \in Databases /\ Recalc(d).rows = d.rows
         /\ Recalc(d).trade.st = d.trade.st
         /\ NetHeld(xo, Recalc(d))
         /\ d.trade.amount > 0 => Recalc(d).trade.amount > 0
<1>1. NetIn(xo, d) \in Int /\ Net(d) = NetIn(xo, d)
  BY NetIsInt, NetIsNetIn
<1>2. Recalc(d) \in Databases /\ Recalc(d).rows = d.rows /\ Recalc(d).trade.st = d.trade.st
  BY <1>1 DEF Recalc, Databases
<1>3. NetIn(xo, Recalc(d)) = NetIn(xo, d)
  BY <1>2 DEF NetIn
<1>4. NetIn(xo, d) > 0 => Recalc(d).trade.amount = NetIn(xo, d)
  BY <1>1 DEF Recalc, Databases
<1>5. ~ (NetIn(xo, d) > 0) => Recalc(d) = d
  BY <1>1 DEF Recalc
<1> QED
  BY <1>2, <1>3, <1>4, <1>5 DEF NetHeld

LEMMA UpdateTradeFacts ==
  ASSUME xo \in Orders, NEW d \in Databases, NEW o \in Ids, NEW closes \in BOOLEAN
  PROVE  LET e == UpdateTrade(d, o, closes)
         IN  /\ e \in Databases /\ e.rows = d.rows
             /\ d.rows[o].open => e = d
             /\ ~ d.rows[o].open => NetHeld(xo, e)
             /\ d.trade.amount > 0 /\ d.rows[o].filled > 0 => e.trade.amount > 0
<1>1. CASE d.rows[o].open
  BY <1>1 DEF UpdateTrade
<1>2. CASE ~ d.rows[o].open /\ xo[o].side = "entry"
  <2> DEFINE u == [d EXCEPT !.trade.amount = d.rows[o].filled]
  <2>1. u \in Databases /\ u.rows = d.rows /\ u.trade.amount = d.rows[o].filled
    BY DEF Databases
  <2>2. UpdateTrade(d, o, closes) = Recalc(u)
    BY <1>2 DEF UpdateTrade
  <2> HIDE DEF u
  <2> QED
    BY <1>2, <2>1, <2>2, RecalcFacts
<1>3. CASE ~ d.rows[o].open /\ xo[o].side # "entry"
  <2> DEFINE u == IF closes THEN [d EXCEPT !.trade.st = "closed"] ELSE d
  <2>1. u \in Databases /\ u.rows = d.rows /\ u.trade.amount = d.trade.amount
    BY DEF Databases
  <2>2. UpdateTrade(d, o, closes) = Recalc(u)
    BY <1>3 DEF UpdateTrade
  <2> HIDE DEF u
  <2> QED
    BY <1>3, <2>1, <2>2, RecalcFacts
<1> QED
  BY <1>1, <1>2, <1>3

\* update_trade_state rewrites one row, and the trade only when that row is done.
LEMMA UpdateStateFacts ==
  ASSUME xo \in Orders, NEW d \in Databases, NEW o \in Ids, NEW c \in Seen
  PROVE  LET e == UpdateTradeState(d, o, c)
         IN  /\ e \in Databases /\ e.rows = [d.rows EXCEPT ![o] = Row(c)]
             /\ CanceledEmpty(c) \/ c.status = "open" => e.trade = d.trade
             /\ ~ (CanceledEmpty(c) \/ c.status = "open") => NetHeld(xo, e)
             /\ d.trade.amount > 0 => e.trade.amount > 0
<1> DEFINE u == UpdateRow(d, o, c)
<1>1. u \in Databases /\ u.rows = [d.rows EXCEPT ![o] = Row(c)] /\ u.trade = d.trade
  BY UpdateRowFacts
<1>2. u.rows[o] = Row(c) /\ u.rows[o].open = (c.status = "open") /\ u.rows[o].filled = c.filled
  BY <1>1 DEF Databases, Row
<1>3. UpdateTradeState(d, o, c) = IF CanceledEmpty(c) THEN u ELSE UpdateTrade(u, o, ClosesTrade(u, o))
  BY DEF UpdateTradeState
<1> HIDE DEF u
<1>4. CASE CanceledEmpty(c)
  BY <1>1, <1>3, <1>4
<1>5. CASE ~ CanceledEmpty(c)
  <2>1. ClosesTrade(u, o) \in BOOLEAN
    BY DEF ClosesTrade
  <2>2. c.status = "open" \/ c.filled > 0
    BY <1>5 DEF CanceledEmpty, Seen
  <2> DEFINE e == UpdateTrade(u, o, ClosesTrade(u, o))
  <2>3. /\ e \in Databases /\ e.rows = u.rows
        /\ u.rows[o].open => e = u
        /\ ~ u.rows[o].open => NetHeld(xo, e)
        /\ u.trade.amount > 0 /\ u.rows[o].filled > 0 => e.trade.amount > 0
    BY <1>1, <2>1, UpdateTradeFacts
  <2> HIDE DEF e
  <2>4. UpdateTradeState(d, o, c) = e
    BY <1>3, <1>5 DEF e
  <2> QED
    BY <1>1, <1>2, <1>5, <2>2, <2>3, <2>4
<1> QED
  BY <1>4, <1>5

(***************************************************************************)
(* Databases that fit the orders.                                          *)
(***************************************************************************)

\* What may happen to orders: one that is done stays as it is.
OrdersStep(x, y) ==
  \A o \in Ids : x[o].status # "none" =>
    /\ y[o].status # "none" /\ y[o].amount = x[o].amount
    /\ Sign(y[o].side) = Sign(x[o].side)
    /\ x[o].status # "open" => y[o].status = x[o].status /\ y[o].filled = x[o].filled

\* Answer c on order o agrees with the orders y.
Told(y, o, c) ==
  /\ c.filled <= y[o].amount
  /\ AnswersAreTrue /\ c.status # "open" => y[o].status # "open" /\ y[o].filled = c.filled

LEMMA FitsEmpty ==
  ASSUME NEW x \in Orders
  PROVE  Fits(x, EmptyDb)
<1>1. EmptyDb \in Databases /\ \A o \in Ids : EmptyDb.rows[o] = NoRow
  BY DEF EmptyDb, Databases, NoRow, NoTrade
<1>2. EmptyDb.trade.st # "open"
  BY DEF EmptyDb, NoTrade
<1> QED
  BY <1>1, <1>2 DEF Fits, NoRow, FinalIn, NetHeld

LEMMA FitsFrame ==
  ASSUME NEW x \in Orders, NEW y \in Orders, OrdersStep(x, y), NEW d, Fits(x, d)
  PROVE  Fits(y, d)
<1>1. FinalIn(x, d) => FinalIn(y, d)
  BY DEF FinalIn, OrdersStep, Fits
<1>2. NetIn(y, d) = NetIn(x, d)
  <2>1. \A o \in Ids : d.rows[o].known => Sign(y[o].side) = Sign(x[o].side)
    BY DEF OrdersStep, Fits
  <2>2. [o \in Ids |-> IF d.rows[o].known /\ ~ d.rows[o].open
                       THEN Sign(y[o].side) * d.rows[o].filled ELSE 0]
          = [o \in Ids |-> IF d.rows[o].known /\ ~ d.rows[o].open
                           THEN Sign(x[o].side) * d.rows[o].filled ELSE 0]
    BY <2>1
  <2> QED
    BY <2>2 DEF NetIn
<1> QED
  BY <1>1, <1>2 DEF Fits, NetHeld, OrdersStep

\* The amount of a trade stays right when a row that counts for nothing is
\* replaced by another one.
LEMMA NetOfNothing ==
  ASSUME NEW x \in Orders, NEW d \in Databases, NEW e \in Databases, NEW o \in Ids, NEW c \in Seen,
         e.rows = [d.rows EXCEPT ![o] = Row(c)],
         CanceledEmpty(c) \/ c.status = "open",
         d.rows[o].known /\ ~ d.rows[o].open => d.rows[o].filled = 0
  PROVE  NetIn(x, e) = NetIn(x, d)
<1> DEFINE share(b) == [p \in Ids |-> IF b.rows[p].known /\ ~ b.rows[p].open
                                     THEN Sign(x[p].side) * b.rows[p].filled ELSE 0]
<1>1. \A p \in Ids : p # o => e.rows[p] = d.rows[p]
  BY DEF Databases
<1>2. /\ e.rows[o] = Row(c)
      /\ (Row(c).open <=> c.status = "open") /\ Row(c).filled = c.filled
  BY DEF Databases, Row
<1>3. share(d)[o] = 0
  <2>1. Sign(x[o].side) * 0 = 0
    BY DEF Sign
  <2> QED
    BY <2>1
<1>4. share(e)[o] = 0
  <2>1. Sign(x[o].side) * 0 = 0
    BY DEF Sign
  <2>2. (e.rows[o].open <=> c.status = "open") /\ e.rows[o].filled = c.filled
    BY <1>2
  <2>3. ~ e.rows[o].open => e.rows[o].filled = 0
    BY <2>2 DEF CanceledEmpty
  <2> QED
    BY <2>1, <2>3
<1>5. share(e) = share(d)
  BY <1>1, <1>3, <1>4
<1> QED
  BY <1>5 DEF NetIn

\* One row of a database that fits is brought up to date.
LEMMA FitsRow ==
  ASSUME NEW y \in Orders, OrdersFit(xo), OrdersStep(xo, y),
         NEW d, Fits(xo, d), NEW e \in Databases,
         NEW o \in Ids, xo[o].status # "none",
         NEW c \in Seen, Told(y, o, c),
         c.status = "open" /\ d.rows[o].known => xo[o].status = "open",
         e.rows = [d.rows EXCEPT ![o] = Row(c)],
         \/ (CanceledEmpty(c) \/ c.status = "open") /\ e.trade = d.trade
         \/ NetHeld(xo, e)
         \/ Crashes # 0
  PROVE  Fits(y, e)
<1>1. d \in Databases /\ xo \in Orders
  BY DEF Fits, OrdersFit
<1>2. e.rows[o] = Row(c) /\ \A p \in Ids : p # o => e.rows[p] = d.rows[p]
  BY <1>1 DEF Databases
<1>3. Row(c).known /\ (Row(c).open <=> c.status = "open") /\ Row(c).filled = c.filled
  BY DEF Row
<1>4. Fits(y, d)
  BY <1>1, FitsFrame
<1>5. \A p \in Ids : e.rows[p].known => y[p].status # "none" /\ e.rows[p].filled <= y[p].amount
  BY <1>2, <1>3, <1>4 DEF Fits, OrdersStep, Told
<1>6. \A p \in Ids : ~ e.rows[p].known => e.rows[p].filled = 0
  BY <1>2, <1>3, <1>4 DEF Fits
<1>7. ASSUME AnswersAreTrue PROVE FinalIn(y, e)
  BY <1>2, <1>3, <1>4, <1>7 DEF Fits, FinalIn, Told
<1>8. ASSUME AnswersAreTrue, Crashes = 0 PROVE NetHeld(y, e)
  <2>1. \A p \in Ids : e.rows[p].known => Sign(y[p].side) = Sign(xo[p].side)
    BY <1>2, <1>4 DEF Fits, OrdersStep
  <2>2. [p \in Ids |-> IF e.rows[p].known /\ ~ e.rows[p].open
                       THEN Sign(y[p].side) * e.rows[p].filled ELSE 0]
          = [p \in Ids |-> IF e.rows[p].known /\ ~ e.rows[p].open
                           THEN Sign(xo[p].side) * e.rows[p].filled ELSE 0]
    BY <2>1
  <2>3. NetIn(y, e) = NetIn(xo, e)
    BY <2>2 DEF NetIn
  <2>4. CASE (CanceledEmpty(c) \/ c.status = "open") /\ e.trade = d.trade
    <3>1. FinalIn(xo, d) /\ NetHeld(xo, d)
      BY <1>8 DEF Fits
    <3>2. d.rows[o].known /\ ~ d.rows[o].open => d.rows[o].filled = 0
      <4> SUFFICES ASSUME d.rows[o].known, ~ d.rows[o].open PROVE d.rows[o].filled = 0
        OBVIOUS
      <4>1. xo[o].status # "open" /\ d.rows[o].filled = xo[o].filled
        BY <3>1 DEF FinalIn
      <4>2. c.status # "open" /\ c.filled = 0
        BY <2>4, <4>1 DEF CanceledEmpty
      <4> QED
        BY <1>8, <4>1, <4>2 DEF Told, OrdersStep
    <3>3. NetIn(xo, e) = NetIn(xo, d)
      BY <1>1, <2>4, <3>2, NetOfNothing
    <3> QED
      BY <2>3, <2>4, <3>1, <3>3 DEF NetHeld
  <2>5. CASE NetHeld(xo, e)
    BY <2>3, <2>5 DEF NetHeld
  <2> QED
    BY <1>8, <2>4, <2>5
<1> QED
  BY <1>5, <1>6, <1>7, <1>8 DEF Fits

LEMMA FitsState ==
  ASSUME NEW y \in Orders, OrdersFit(xo), OrdersStep(xo, y),
         NEW d, Fits(xo, d), NEW o \in Ids, xo[o].status # "none",
         NEW c \in Seen, Told(y, o, c),
         c.status = "open" /\ d.rows[o].known => xo[o].status = "open"
  PROVE  Fits(y, UpdateTradeState(d, o, c)) /\ Fits(y, EmptyDb)
<1> DEFINE e == UpdateTradeState(d, o, c)
<1>1. /\ e \in Databases /\ e.rows = [d.rows EXCEPT ![o] = Row(c)]
      /\ CanceledEmpty(c) \/ c.status = "open" => e.trade = d.trade
      /\ ~ (CanceledEmpty(c) \/ c.status = "open") => NetHeld(xo, e)
  BY UpdateStateFacts DEF Fits, OrdersFit
<1> HIDE DEF e
<1>2. Fits(y, e)
  BY <1>1, FitsRow
<1> QED
  BY <1>2, FitsEmpty DEF e

\* The same for the row alone, when nothing came of the order or nothing has
\* come of it yet; or anyway, if the process may die before it sees to the trade.
LEMMA FitsNewRow ==
  ASSUME NEW y \in Orders, OrdersFit(xo), OrdersStep(xo, y),
         NEW d, Fits(xo, d), NEW o \in Ids, xo[o].status # "none",
         NEW c \in Seen, Told(y, o, c),
         c.status = "open" /\ d.rows[o].known => xo[o].status = "open",
         CanceledEmpty(c) \/ c.status = "open" \/ Crashes # 0
  PROVE  Fits(y, UpdateRow(d, o, c))
<1>1. d \in Databases
  BY DEF Fits
<1>2. /\ UpdateRow(d, o, c) \in Databases
      /\ UpdateRow(d, o, c).rows = [d.rows EXCEPT ![o] = Row(c)]
      /\ UpdateRow(d, o, c).trade = d.trade
  BY <1>1, UpdateRowFacts
<1> QED
  BY <1>2, FitsRow

\* Seen as it is.
LEMMA SnapFacts ==
  ASSUME OrdersFit(xo), NEW o \in Ids
  PROVE  /\ Snap(o) \in Seen /\ Told(xo, o, Snap(o)) /\ OrdersStep(xo, xo)
         /\ Snap(o).status = xo[o].status /\ Snap(o).filled = xo[o].filled
BY DEF OrdersFit, Orders, Snap, Seen, Told, OrdersStep

AnOrder == [side : Sides \cup {"none"}, amount : Nat, filled : Nat, status : Status \cup {"none"}]

\* An open order, changed and reported.
LEMMA CancelResultsFacts ==
  ASSUME OrdersFit(xo), Fits(xo, db), NEW o \in Ids, xo[o].status = "open",
         NEW r \in CancelResults(o), NEW y, y = [xo EXCEPT ![o] = r.to]
  PROVE  /\ y \in Orders /\ OrdersFit(y) /\ OrdersStep(xo, y) /\ UsedIn(y) = UsedIn(xo)
         /\ r.c \in Seen /\ Told(y, o, r.c)
         /\ \A p \in Ids : y[p].side = xo[p].side
<1> DEFINE x == xo[o]
           as(status, filled) == [x EXCEPT !.status = status, !.filled = filled]
           result(z) == [to |-> z, c |-> [status |-> z.status, filled |-> z.filled]]
           word == IF x.side = "stoploss" THEN db.rows[o].filled ELSE 0
           changed(z) == /\ z \in AnOrder /\ z.side = x.side /\ z.amount = x.amount
                         /\ z.status # "none" /\ z.filled <= x.amount
                         /\ z.status = "open" => z.filled < x.amount
<1>1. /\ xo \in Orders /\ x \in AnOrder /\ x.amount \in Nat /\ x.filled \in Nat /\ x.filled < x.amount
      /\ word \in Nat /\ word <= x.amount /\ x.status = "open"
  <2>1. xo \in Orders /\ x \in AnOrder /\ x.amount \in Nat /\ x.filled \in Nat /\ x.filled < x.amount
    BY DEF OrdersFit, Orders, AnOrder
  <2>2. db.rows[o].filled \in Nat
    BY DEF Fits, Databases
  <2>3. db.rows[o].filled <= x.amount
    BY <2>1 DEF Fits
  <2> QED
    BY <2>1, <2>2, <2>3
<1>2. \/ \E f \in x.filled .. x.amount - 1 : r = result(as("canceled", f))
      \/ r = result(as("closed", x.amount))
      \/ r = result(x)
      \/ /\ "forgotten" \in Answers
         /\ r = [to |-> as("canceled", x.filled), c |-> [status |-> "canceled", filled |-> word]]
  BY DEF CancelResults
<1>3. /\ changed(r.to)
      /\ r.c \in Seen /\ r.c.filled <= x.amount
      /\ AnswersAreTrue => r.c.status = r.to.status /\ r.c.filled = r.to.filled
  <2>1. ASSUME NEW f \in Nat, f <= x.amount PROVE changed(as("canceled", f))
    <3> HIDE DEF x
    <3> QED
      BY <1>1, <2>1 DEF AnOrder, Status
  <2>2. changed(as("closed", x.amount)) /\ changed(x)
    <3>1. x.amount <= x.amount /\ x.filled <= x.amount /\ x.status # "none"
      BY <1>1
    <3>2. changed(x)
      <4> HIDE DEF x
      <4> QED
        BY <1>1, <3>1
    <3>3. changed(as("closed", x.amount))
      <4> HIDE DEF x
      <4> QED
        BY <1>1, <3>1 DEF AnOrder, Status
    <3> QED
      BY <3>2, <3>3
  <2>3. ASSUME NEW z, changed(z)
        PROVE  /\ result(z).to = z /\ result(z).c \in Seen
               /\ result(z).c.status = z.status /\ result(z).c.filled = z.filled
    BY <2>3 DEF Seen, AnOrder
  <2>4. [status |-> "canceled", filled |-> word] \in Seen
    <3> HIDE DEF word
    <3> QED
      BY <1>1 DEF Seen, Status
  <2> HIDE DEF word, as, result
  <2>5. CASE \/ \E f \in x.filled .. x.amount - 1 : r = result(as("canceled", f))
             \/ r = result(as("closed", x.amount))
             \/ r = result(x)
    <3>1. \A f \in x.filled .. x.amount - 1 : f \in Nat /\ f <= x.amount
      BY <1>1
    <3>2. PICK z : r = result(z) /\ changed(z)
      <4> HIDE DEF changed, x
      <4> QED
        BY <2>1, <2>2, <2>5, <3>1
    <3>3. r.to = z /\ r.c \in Seen /\ r.c.status = z.status /\ r.c.filled = z.filled
      <4> HIDE DEF changed, x
      <4> QED
        BY <2>3, <3>2
    <3> QED
      BY <3>2, <3>3
  <2>6. CASE /\ "forgotten" \in Answers
             /\ r = [to |-> as("canceled", x.filled), c |-> [status |-> "canceled", filled |-> word]]
    <3>1. ~ AnswersAreTrue
      BY <2>6 DEF AnswersAreTrue
    <3>2. r.to = as("canceled", x.filled) /\ r.c = [status |-> "canceled", filled |-> word]
      BY <2>6
    <3>3. changed(r.to)
      <4>1. x.filled <= x.amount
        BY <1>1
      <4> HIDE DEF changed, x
      <4> QED
        BY <1>1, <2>1, <3>2, <4>1
    <3>4. r.c \in Seen /\ r.c.filled = word
      BY <2>4, <3>2
    <3> QED
      BY <1>1, <3>1, <3>3, <3>4
  <2> QED
    BY <1>2, <2>5, <2>6
<1>4. y[o] = r.to /\ \A p \in Ids : p # o => y[p] = xo[p]
  BY <1>1 DEF Orders
<1>5. y \in Orders
  BY <1>1, <1>3 DEF Orders, AnOrder
<1>6. OrdersStep(xo, y) /\ \A p \in Ids : y[p].side = xo[p].side
  BY <1>1, <1>3, <1>4 DEF OrdersStep
<1>7. UsedIn(y) = UsedIn(xo)
  BY <1>1, <1>3, <1>4 DEF UsedIn
<1>8. OrdersFit(y)
  BY <1>3, <1>4, <1>5, <1>7 DEF OrdersFit
<1>9. Told(y, o, r.c)
  BY <1>3, <1>4 DEF Told
<1> QED
  BY <1>3, <1>5, <1>6, <1>7, <1>8, <1>9

\* What a cancellation leaves: the database as it was, none, or one row updated.
LEMMA HandleCancelFacts ==
  ASSUME NEW d, NEW o, NEW s, NEW c, NEW replacing
  PROVE  LET h == HandleCancel(d, o, s, c, replacing)
         IN  /\ \/ h.d = d /\ h.commit = FALSE /\ ~ h.ok
                \/ h.d = EmptyDb /\ h.commit = TRUE /\ ~ replacing
                \/ h.d = UpdateTradeState(d, o, c) /\ h.commit = TRUE
             /\ h.ok \in BOOLEAN
             /\ h.ok /\ xo[o].side = "entry" => c.filled = 0
<1> DEFINE kept    == [d |-> d, commit |-> FALSE, ok |-> FALSE]
           deleted == [d |-> EmptyDb, commit |-> TRUE, ok |-> TRUE]
           updated == [d |-> UpdateTradeState(d, o, c), commit |-> TRUE,
                       ok |-> IF xo[o].side = "entry" THEN Unfilled(c) ELSE s.status = "open"]
           h == HandleCancel(d, o, s, c, replacing)
           changes(g) == /\ \/ g.d = d /\ g.commit = FALSE /\ ~ g.ok
                            \/ g.d = EmptyDb /\ g.commit = TRUE /\ ~ replacing
                            \/ g.d = UpdateTradeState(d, o, c) /\ g.commit = TRUE
                         /\ g.ok \in BOOLEAN
                         /\ g.ok /\ xo[o].side = "entry" => c.filled = 0
<1>1. \/ h = kept
      \/ h = deleted /\ Unfilled(c) /\ ~ replacing
      \/ h = updated
  BY DEF HandleCancel, Deletable
<1>2. changes(kept)
  OBVIOUS
<1>3. Unfilled(c) /\ ~ replacing => changes(deleted)
  BY DEF Unfilled
<1>4. changes(updated)
  <2>1. updated.d = UpdateTradeState(d, o, c) /\ updated.commit = TRUE
    OBVIOUS
  <2>2. updated.ok \in BOOLEAN
    BY DEF Unfilled
  <2>3. updated.ok /\ xo[o].side = "entry" => c.filled = 0
    BY DEF Unfilled
  <2> HIDE DEF updated
  <2> QED
    BY <2>1, <2>2, <2>3
<1>5. changes(h)
  <2> HIDE DEF h, kept, deleted, updated, changes
  <2> QED
    BY <1>1, <1>2, <1>3, <1>4
<1> QED
  BY <1>5

(***************************************************************************)
(* Steps that leave the orders and the databases alone.                    *)
(***************************************************************************)

Jobs == [kind : Kinds, want : Nat, ready : BOOLEAN, entered : BOOLEAN, refinding : BOOLEAN]

LEMMA JobFacts ==
  /\ NoJob \in Jobs /\ NoJob.kind = "none" /\ ~ NoJob.ready /\ ~ NoJob.refinding
  /\ \A kind \in Kinds, want \in Nat :
       /\ Job(kind, want) \in Jobs
       /\ Job(kind, want).kind = kind /\ Job(kind, want).want = want
       /\ ~ Job(kind, want).ready /\ ~ Job(kind, want).refinding
BY DEF NoJob, Job, Jobs, Kinds

LEMMA RowSets ==
  ASSUME NEW d
  PROVE  /\ Known(d) \subseteq Ids
         /\ OpenRows(d) \subseteq Known(d)
         /\ OpenOrders(d) \subseteq Known(d)
         /\ OpenStops(d) \subseteq Known(d) /\ \A o \in OpenStops(d) : xo[o].side = "stoploss"
BY DEF Known, OpenRows, OpenOrders, OpenStops

LEMMA SameData ==
  ASSUME IInv, UNCHANGED <<xo, db, stored>>,
         TypeOK', JobInv', CancelsInv', SentInv', CommittedInv'
  PROVE  IInv'
BY DEF IInv

LEMMA StopDroppedKeeps ==
  ASSUME IInv, StopDropped PROVE IInv'
BY SameData, JobFacts, RowSets, TradeOrdersAssumption
DEF StopDropped, IInv, TypeOK, JobInv, CancelsInv, SentInv, CommittedInv,
    loop, handler, Quiet, Jobs, Kinds, EntryKinds, ExitKinds, Sections

LEMMA RpcForceExitKeeps ==
  ASSUME IInv, RpcForceExit PROVE IInv'
BY SameData, JobFacts, RowSets, TradeOrdersAssumption
DEF RpcForceExit, Command, IInv, TypeOK, JobInv, CancelsInv, SentInv, CommittedInv,
    loop, handler, Quiet, Jobs, Kinds, EntryKinds, ExitKinds, Sections

LEMMA JobReadyKeeps ==
  ASSUME IInv, JobReady PROVE IInv'
<1>1. db.trade.amount \in Nat /\ job \in Jobs
  BY DEF IInv, TypeOK, Databases, Jobs
<1>2. job.kind \in ExitKinds => ExitAmount \in Nat /\ ExitAmount > 0
  BY <1>1 DEF JobReady, ExitAmount, Jobs
<1>3. /\ job' \in Jobs /\ job'.kind = job.kind /\ job'.ready /\ job'.refinding = job.refinding
      /\ job.kind \in ExitKinds => job'.want > 0
      /\ job.kind \in EntryKinds => job'.want = job.want
  BY <1>1, <1>2 DEF JobReady, Jobs, ExitKinds, EntryKinds
<1>4. TypeOK'
  BY <1>3, RowSets DEF JobReady, IInv, TypeOK, loop, Jobs
<1>5. JobInv'
  BY <1>3, RowSets DEF JobReady, IInv, JobInv, loop, Quiet, NoJob, EntryKinds, ExitKinds
<1>6. CancelsInv'
  BY <1>3, RowSets DEF JobReady, IInv, CancelsInv, JobInv, loop, EntryKinds, ExitKinds
<1>7. SentInv' /\ CommittedInv'
  BY DEF JobReady, IInv, SentInv, CommittedInv, loop
<1> QED
  BY SameData, <1>4, <1>5, <1>6, <1>7 DEF JobReady

LEMMA PlaceUncoveredKeeps ==
  ASSUME IInv, PlaceUncovered PROVE IInv'
BY SameData, JobFacts, RowSets, TradeOrdersAssumption
DEF PlaceUncovered, Placing, IInv, TypeOK, JobInv, CancelsInv, SentInv, CommittedInv,
    loop, handler, Quiet, Jobs, Kinds, EntryKinds, ExitKinds, Sections

LEMMA RefindErrorKeeps ==
  ASSUME IInv, RefindError PROVE IInv'
BY SameData, JobFacts, RowSets, TradeOrdersAssumption
DEF RefindError, IInv, TypeOK, JobInv, CancelsInv, SentInv, CommittedInv,
    loop, handler, Quiet, Jobs, Kinds, EntryKinds, ExitKinds, Sections

LEMMA ForceExitGoesOnKeeps ==
  ASSUME IInv, ForceExitGoesOn PROVE IInv'
BY SameData, JobFacts, RowSets, TradeOrdersAssumption
DEF ForceExitGoesOn, StopsToCancel, IInv, TypeOK, JobInv, CancelsInv, SentInv, CommittedInv,
    loop, handler, Quiet, Jobs, Kinds, EntryKinds, ExitKinds, Sections

LEMMA AcquireKeeps ==
  ASSUME IInv, Acquire PROVE IInv'
<1>1. /\ pc' \in Sections \cup {"manage", "recover", "stops", "signal", "adjust", "enter"}
      /\ todo' \subseteq Known(db)
  <2>1. pc \in Sections /\ AfterExits \in Sections
    BY DEF Acquire, AfterExits, Sections
  <2>2. OpenOrders(db) \subseteq Known(db) /\ OpenStops(db) \subseteq Known(db)
    BY RowSets
  <2>3. CASE pc = "toManage"
    BY <2>2, <2>3 DEF Acquire
  <2>4. CASE pc = "toExits" /\ Open(db) /\ ~ CoinsMissing
    BY <2>2, <2>4 DEF Acquire, ToTrade
  <2>5. CASE pc = "toExits" /\ Open(db) /\ CoinsMissing
    BY <2>2, <2>5 DEF Acquire, ToTrade
  <2>6. CASE pc # "toManage" /\ ~ (pc = "toExits" /\ Open(db))
    BY <2>1, <2>6 DEF Acquire, Sections
  <2> QED
    BY <2>3, <2>4, <2>5, <2>6
<1>2. Quiet /\ holder = "free" /\ holder' = "main" /\ live' = {} /\ UNCHANGED <<xo, db, stored, handler, crashes>>
  BY DEF Acquire, IInv, JobInv
<1>3. Known(db) \subseteq Ids
  BY DEF Known
<1>4. TypeOK'
  BY <1>1, <1>2, <1>3 DEF IInv, TypeOK, handler
<1>5. JobInv'
  BY <1>1, <1>2, JobFacts DEF JobInv, Quiet, handler, ExitKinds, EntryKinds
<1>6. CancelsInv' /\ SentInv'
  BY <1>2 DEF CancelsInv, SentInv, Quiet, handler
<1>7. CommittedInv'
  BY <1>2 DEF IInv, CommittedInv
<1> QED
  BY SameData, <1>2, <1>4, <1>5, <1>6, <1>7

LEMMA AbortIterationKeeps ==
  ASSUME IInv, AbortIteration PROVE IInv'
<1>1. TypeOK'
  BY JobFacts, RowSets, TradeOrdersAssumption
  DEF AbortIteration, IterationAborted, IInv, TypeOK, loop, handler, Quiet, Jobs, Kinds, EntryKinds, ExitKinds, Sections
<1>2. JobInv'
  BY JobFacts, RowSets, TradeOrdersAssumption
  DEF AbortIteration, IterationAborted, IInv, TypeOK, JobInv, loop, handler, Quiet, Kinds, EntryKinds, ExitKinds, Sections
<1>3. CancelsInv'
  BY JobFacts, RowSets DEF AbortIteration, IterationAborted, IInv, CancelsInv, JobInv, loop, handler, Quiet, Kinds, EntryKinds, ExitKinds
<1>4. SentInv'
  BY JobFacts DEF AbortIteration, IterationAborted, IInv, SentInv, JobInv, loop, handler, Quiet
<1>5. CommittedInv'
  BY DEF AbortIteration, IterationAborted, IInv, CommittedInv, JobInv, loop, handler, Quiet, AfterExits, Sections
<1> QED
  BY SameData, <1>1, <1>2, <1>3, <1>4, <1>5 DEF AbortIteration, IterationAborted, handler, loop

LEMMA ManageDoneKeeps ==
  ASSUME IInv, ManageDone PROVE IInv'
<1>1. TypeOK'
  BY JobFacts, RowSets, TradeOrdersAssumption
  DEF ManageDone, IInv, TypeOK, loop, handler, Quiet, Jobs, Kinds, EntryKinds, ExitKinds, Sections
<1>2. JobInv'
  BY JobFacts, RowSets, TradeOrdersAssumption
  DEF ManageDone, IInv, TypeOK, JobInv, loop, handler, Quiet, Kinds, EntryKinds, ExitKinds, Sections
<1>3. CancelsInv'
  BY JobFacts, RowSets DEF ManageDone, IInv, CancelsInv, JobInv, loop, handler, Quiet, Kinds, EntryKinds, ExitKinds
<1>4. SentInv'
  BY JobFacts DEF ManageDone, IInv, SentInv, JobInv, loop, handler, Quiet
<1>5. CommittedInv'
  BY DEF ManageDone, IInv, CommittedInv, JobInv, loop, handler, Quiet, AfterExits, Sections
<1> QED
  BY SameData, <1>1, <1>2, <1>3, <1>4, <1>5 DEF ManageDone, handler, loop

LEMMA RecoverFailsKeeps ==
  ASSUME IInv, RecoverFails PROVE IInv'
<1>1. TypeOK'
  BY JobFacts, RowSets, TradeOrdersAssumption
  DEF RecoverFails, ToTrade, IInv, TypeOK, loop, handler, Quiet, Jobs, Kinds, EntryKinds, ExitKinds, Sections
<1>2. JobInv'
  BY JobFacts, RowSets, TradeOrdersAssumption
  DEF RecoverFails, ToTrade, IInv, TypeOK, JobInv, loop, handler, Quiet, Kinds, EntryKinds, ExitKinds, Sections
<1>3. CancelsInv'
  BY JobFacts, RowSets DEF RecoverFails, ToTrade, IInv, CancelsInv, JobInv, loop, handler, Quiet, Kinds, EntryKinds, ExitKinds
<1>4. SentInv'
  BY JobFacts DEF RecoverFails, ToTrade, IInv, SentInv, JobInv, loop, handler, Quiet
<1>5. CommittedInv'
  BY DEF RecoverFails, ToTrade, IInv, CommittedInv, JobInv, loop, handler, Quiet, AfterExits, Sections
<1> QED
  BY SameData, <1>1, <1>2, <1>3, <1>4, <1>5 DEF RecoverFails, ToTrade, handler, loop

LEMMA StopNotFetchedKeeps ==
  ASSUME IInv, NEW o \in Ids, StopNotFetched(o) PROVE IInv'
<1>1. TypeOK'
  BY JobFacts, RowSets, TradeOrdersAssumption
  DEF StopNotFetched, AfterExits, IInv, TypeOK, loop, handler, Quiet, Jobs, Kinds, EntryKinds, ExitKinds, Sections
<1>2. JobInv'
  BY JobFacts, RowSets, TradeOrdersAssumption
  DEF StopNotFetched, AfterExits, IInv, TypeOK, JobInv, loop, handler, Quiet, Kinds, EntryKinds, ExitKinds, Sections
<1>3. CancelsInv'
  BY JobFacts, RowSets DEF StopNotFetched, AfterExits, IInv, CancelsInv, JobInv, loop, handler, Quiet, Kinds, EntryKinds, ExitKinds
<1>4. SentInv'
  BY JobFacts DEF StopNotFetched, AfterExits, IInv, SentInv, JobInv, loop, handler, Quiet
<1>5. CommittedInv'
  BY DEF StopNotFetched, AfterExits, IInv, CommittedInv, JobInv, loop, handler, Quiet, AfterExits, Sections
<1> QED
  BY SameData, <1>1, <1>2, <1>3, <1>4, <1>5 DEF StopNotFetched, AfterExits, handler, loop

LEMMA StopDecidedKeeps ==
  ASSUME IInv, StopDecided PROVE IInv'
<1> DEFINE stop == [Job("stoploss", 0) EXCEPT !.ready = TRUE]
<1>1. stop \in Jobs /\ stop.kind = "stoploss" /\ stop.ready /\ ~ stop.refinding
  <2>1. Job("stoploss", 0) \in Jobs /\ Job("stoploss", 0).kind = "stoploss" /\ ~ Job("stoploss", 0).refinding
    BY JobFacts DEF Kinds
  <2> QED
    BY <2>1 DEF Jobs
<1>2. /\ Quiet /\ holder = "main" /\ pc' = "signal" /\ live' = {}
      /\ UNCHANGED <<xo, db, stored, holder, todo, sent, refind, crashes>>
  BY DEF StopDecided
<1>3. \/ UNCHANGED <<job, cancels>>
      \/ job' = stop /\ ~ NoStopNeeded /\ (cancels' = cancels \/ cancels' = OpenStops(db))
  BY DEF StopDecided
<1> HIDE DEF stop
<1>4. ~ NoStopNeeded => db.trade.amount > 0
  BY DEF NoStopNeeded, IInv, TypeOK, Databases
<1>5. TypeOK'
  BY <1>1, <1>2, <1>3, RowSets DEF IInv, TypeOK, Jobs
<1>6. JobInv'
  BY <1>1, <1>2, <1>3, <1>4, JobFacts DEF JobInv, Quiet, ExitKinds, EntryKinds
<1>7. CancelsInv'
  BY <1>2, <1>3, RowSets DEF CancelsInv, Quiet
<1>8. SentInv' /\ CommittedInv'
  BY <1>2 DEF SentInv, CommittedInv, Quiet
<1> QED
  BY SameData, <1>2, <1>5, <1>6, <1>7, <1>8

LEMMA ExitSignalKeeps ==
  ASSUME IInv, ExitSignal PROVE IInv'
BY SameData, JobFacts, RowSets, TradeOrdersAssumption
DEF ExitSignal, StopsToCancel, AfterExits, IInv, TypeOK, JobInv, CancelsInv, SentInv, CommittedInv,
    loop, handler, Quiet, Jobs, Kinds, EntryKinds, ExitKinds, Sections

LEMMA AdjustPositionKeeps ==
  ASSUME IInv, AdjustPosition PROVE IInv'
<1>1. TypeOK'
  BY JobFacts, RowSets, TradeOrdersAssumption
  DEF AdjustPosition, StopsToCancel, IInv, TypeOK, loop, handler, Quiet, Jobs, Kinds, EntryKinds, ExitKinds, Sections
<1>2. JobInv'
  BY JobFacts, RowSets, TradeOrdersAssumption
  DEF AdjustPosition, StopsToCancel, IInv, TypeOK, JobInv, loop, handler, Quiet, Kinds, EntryKinds, ExitKinds, Sections
<1>3. CancelsInv'
  BY JobFacts, RowSets DEF AdjustPosition, StopsToCancel, IInv, CancelsInv, JobInv, loop, handler, Quiet, Kinds, EntryKinds, ExitKinds
<1>4. SentInv'
  BY JobFacts DEF AdjustPosition, StopsToCancel, IInv, SentInv, JobInv, loop, handler, Quiet
<1>5. CommittedInv'
  BY DEF AdjustPosition, StopsToCancel, IInv, CommittedInv, JobInv, loop, handler, Quiet, AfterExits, Sections
<1> QED
  BY SameData, <1>1, <1>2, <1>3, <1>4, <1>5 DEF AdjustPosition, StopsToCancel, handler, loop

LEMMA EnterTradeKeeps ==
  ASSUME IInv, EnterTrade PROVE IInv'
<1>1. TypeOK'
  BY JobFacts, RowSets, TradeOrdersAssumption
  DEF EnterTrade, IInv, TypeOK, loop, handler, Quiet, Jobs, Kinds, EntryKinds, ExitKinds, Sections
<1>2. JobInv'
  BY JobFacts, RowSets, TradeOrdersAssumption
  DEF EnterTrade, IInv, TypeOK, JobInv, loop, handler, Quiet, Kinds, EntryKinds, ExitKinds, Sections
<1>3. CancelsInv'
  BY JobFacts, RowSets DEF EnterTrade, IInv, CancelsInv, JobInv, loop, handler, Quiet, Kinds, EntryKinds, ExitKinds
<1>4. SentInv'
  BY JobFacts DEF EnterTrade, IInv, SentInv, JobInv, loop, handler, Quiet
<1>5. CommittedInv'
  BY DEF EnterTrade, IInv, CommittedInv, JobInv, loop, handler, Quiet, AfterExits, Sections
<1> QED
  BY SameData, <1>1, <1>2, <1>3, <1>4, <1>5 DEF EnterTrade, handler, loop

LEMMA StartKeeps ==
  ASSUME IInv, Start PROVE IInv'
<1>1. TypeOK'
  BY JobFacts, RowSets, TradeOrdersAssumption
  DEF Start, IInv, TypeOK, loop, handler, Quiet, Jobs, Kinds, EntryKinds, ExitKinds, Sections
<1>2. JobInv'
  BY JobFacts, RowSets, TradeOrdersAssumption
  DEF Start, IInv, TypeOK, JobInv, loop, handler, Quiet, Kinds, EntryKinds, ExitKinds, Sections
<1>3. CancelsInv'
  BY JobFacts, RowSets DEF Start, IInv, CancelsInv, JobInv, loop, handler, Quiet, Kinds, EntryKinds, ExitKinds
<1>4. SentInv'
  BY JobFacts DEF Start, IInv, SentInv, JobInv, loop, handler, Quiet
<1>5. CommittedInv'
  BY DEF Start, IInv, CommittedInv, JobInv, loop, handler, Quiet, AfterExits, Sections
<1> QED
  BY SameData, <1>1, <1>2, <1>3, <1>4, <1>5 DEF Start, handler, loop

LEMMA StartupDoneKeeps ==
  ASSUME IInv, StartupDone PROVE IInv'
<1>1. TypeOK'
  BY JobFacts, RowSets, TradeOrdersAssumption
  DEF StartupDone, IInv, TypeOK, loop, handler, Quiet, Jobs, Kinds, EntryKinds, ExitKinds, Sections
<1>2. JobInv'
  BY JobFacts, RowSets, TradeOrdersAssumption
  DEF StartupDone, IInv, TypeOK, JobInv, loop, handler, Quiet, Kinds, EntryKinds, ExitKinds, Sections
<1>3. CancelsInv'
  BY JobFacts, RowSets DEF StartupDone, IInv, CancelsInv, JobInv, loop, handler, Quiet, Kinds, EntryKinds, ExitKinds
<1>4. SentInv'
  BY JobFacts DEF StartupDone, IInv, SentInv, JobInv, loop, handler, Quiet
<1>5. CommittedInv'
  BY DEF StartupDone, IInv, CommittedInv, JobInv, loop, handler, Quiet, AfterExits, Sections
<1> QED
  BY SameData, <1>1, <1>2, <1>3, <1>4, <1>5 DEF StartupDone, handler, loop

LEMMA RpcCancelOpenOrderKeeps ==
  ASSUME IInv, RpcCancelOpenOrder PROVE IInv'
BY SameData, JobFacts, RowSets, TradeOrdersAssumption
DEF RpcCancelOpenOrder, IInv, TypeOK, JobInv, CancelsInv, SentInv, CommittedInv,
    loop, handler, Quiet, Jobs, Kinds, EntryKinds, ExitKinds, Sections

LEMMA RpcDeleteKeeps ==
  ASSUME IInv, RpcDelete PROVE IInv'
BY SameData, JobFacts, RowSets, TradeOrdersAssumption
DEF RpcDelete, Command, IInv, TypeOK, JobInv, CancelsInv, SentInv, CommittedInv,
    loop, handler, Quiet, Jobs, Kinds, EntryKinds, ExitKinds, Sections

LEMMA ManageSkipKeeps ==
  ASSUME IInv, NEW o \in Ids, ManageSkip(o) PROVE IInv'
BY SameData, JobFacts
DEF ManageSkip, Managing, IInv, TypeOK, JobInv, CancelsInv, SentInv, CommittedInv, Quiet

LEMMA StartupSkipKeeps ==
  ASSUME IInv, NEW o \in Ids, StartupSkip(o) PROVE IInv'
BY SameData, JobFacts
DEF StartupSkip, Starting, IInv, TypeOK, JobInv, CancelsInv, SentInv, CommittedInv, Quiet

(***************************************************************************)
(* Steps of the exchange.                                                  *)
(***************************************************************************)

LEMMA OrdersMove ==
  ASSUME IInv, OrdersFit(xo'), OrdersStep(xo, xo'), UNCHANGED <<db, stored>>
  PROVE  Fits(xo', db') /\ Fits(xo', stored')
BY FitsFrame DEF IInv, OrdersFit

LEMMA OrdersMoveKeeps ==
  ASSUME IInv, OrdersFit(xo'), OrdersStep(xo, xo'), \A o \in Ids : xo'[o].side = xo[o].side,
         UNCHANGED <<db, stored, loop, handler, crashes>>
  PROVE  IInv'
<1>1. Fits(xo', db') /\ Fits(xo', stored')
  BY OrdersMove
<1>2. TypeOK'
  BY DEF IInv, TypeOK, OrdersFit, loop, handler
<1>3. JobInv' /\ CommittedInv'
  BY DEF IInv, JobInv, CommittedInv, Quiet, loop, handler
<1>4. CancelsInv'
  BY DEF IInv, TypeOK, CancelsInv, loop, handler
<1>5. SentInv'
  BY DEF IInv, SentInv, OrdersStep, loop, handler
<1> QED
  BY <1>1, <1>2, <1>3, <1>4, <1>5 DEF IInv

LEMMA ExchangeFillsKeeps ==
  ASSUME IInv, NEW o \in Ids, ExchangeFills(o) PROVE IInv'
<1> DEFINE x == xo[o]
           z == xo'[o]
           now == IF x.filled + 1 = x.amount THEN "closed" ELSE "open"
<1>1. /\ xo \in Orders /\ x \in AnOrder /\ x.status = "open" /\ x.filled < x.amount
      /\ x.filled \in Nat /\ x.amount \in Nat
  BY DEF IInv, OrdersFit, Orders, AnOrder, ExchangeFills
<1>2. /\ z = [x EXCEPT !.filled = x.filled + 1, !.status = now]
      /\ \A p \in Ids : p # o => xo'[p] = xo[p]
      /\ xo' = [xo EXCEPT ![o] = z]
  BY <1>1 DEF ExchangeFills, Orders
<1>3. /\ z \in AnOrder /\ z.side = x.side /\ z.amount = x.amount /\ z.filled = x.filled + 1
      /\ z.status = now /\ z.filled <= z.amount /\ (z.status = "open" => z.filled < z.amount)
  <2>1. now \in Status /\ x.filled + 1 \in Nat
    BY <1>1 DEF Status
  <2>2. /\ z \in AnOrder /\ z.side = x.side /\ z.amount = x.amount /\ z.filled = x.filled + 1
        /\ z.status = now
    <3> HIDE DEF x, z, now
    <3> QED
      BY <1>1, <1>2, <2>1 DEF AnOrder
  <2> QED
    BY <1>1, <2>2
<1>4. z.status # "none"
  BY <1>3
<1> HIDE DEF x, z, now
<1>5. xo' \in Orders
  BY <1>1, <1>2, <1>3 DEF Orders, AnOrder
<1>6. UsedIn(xo') = UsedIn(xo)
  BY <1>1, <1>2, <1>4 DEF UsedIn, x, z
<1>7. OrdersFit(xo')
  <2>1. \A p \in Ids : /\ xo'[p].filled <= xo'[p].amount
                       /\ xo'[p].status = "open" => xo'[p].filled < xo'[p].amount
    BY <1>2, <1>3 DEF IInv, OrdersFit, z
  <2> QED
    BY <1>5, <1>6, <2>1 DEF IInv, OrdersFit
<1>8. OrdersStep(xo, xo') /\ \A p \in Ids : xo'[p].side = xo[p].side
  BY <1>1, <1>2, <1>3, <1>4 DEF OrdersStep, x, z
<1> QED
  BY <1>7, <1>8, OrdersMoveKeeps DEF ExchangeFills

LEMMA ExchangeCancelsKeeps ==
  ASSUME IInv, NEW o \in Ids, ExchangeCancels(o) PROVE IInv'
<1>1. xo \in Orders /\ xo[o].status = "open" /\ xo' = [xo EXCEPT ![o].status = "canceled"]
  BY DEF IInv, OrdersFit, ExchangeCancels
<1>2. /\ xo'[o].status = "canceled" /\ xo'[o].side = xo[o].side /\ xo'[o].amount = xo[o].amount
      /\ xo'[o].filled = xo[o].filled /\ \A p \in Ids : p # o => xo'[p] = xo[p]
      /\ xo' \in Orders
  BY <1>1 DEF Orders, Status
<1>3. UsedIn(xo') = UsedIn(xo)
  BY <1>1, <1>2 DEF UsedIn
<1>4. OrdersFit(xo')
  BY <1>1, <1>2, <1>3 DEF IInv, OrdersFit
<1>5. OrdersStep(xo, xo') /\ \A p \in Ids : xo'[p].side = xo[p].side
  BY <1>1, <1>2 DEF OrdersStep
<1> QED
  BY <1>4, <1>5, OrdersMoveKeeps DEF ExchangeCancels

LEMMA DeleteCancelsKeeps ==
  ASSUME IInv, NEW o \in Ids, DeleteCancels(o) PROVE IInv'
<1>1. /\ job.kind = "delete" /\ cancels # {} /\ cancels' \subseteq cancels
      /\ UNCHANGED <<db, stored, loop, job, sent, refind, crashes>>
  BY DEF DeleteCancels
<1>2. OrdersFit(xo') /\ OrdersStep(xo, xo')
  <2>1. CASE xo' = xo
    BY <2>1 DEF IInv, OrdersStep
  <2>2. CASE xo' # xo
    <3>1. PICK r \in CancelResults(o) : xo[o].status = "open" /\ xo' = [xo EXCEPT ![o] = r.to]
      BY <2>2 DEF DeleteCancels
    <3> QED
      BY <3>1, CancelResultsFacts DEF IInv
  <2> QED
    BY <2>1, <2>2
<1>3. Fits(xo', db') /\ Fits(xo', stored')
  BY <1>1, <1>2, OrdersMove
<1>4. ~ job.ready /\ ~ job.refinding /\ sent = NotSent /\ job # NoJob
  BY <1>1 DEF IInv, JobInv, SentInv, ExitKinds, EntryKinds, NoJob
<1>5. TypeOK'
  BY <1>1, <1>2 DEF IInv, TypeOK, OrdersFit, loop
<1>6. JobInv' /\ CommittedInv'
  BY <1>1, <1>4 DEF IInv, JobInv, CommittedInv, Quiet, loop
<1>7. CancelsInv' /\ SentInv'
  BY <1>1, <1>4 DEF IInv, CancelsInv, SentInv
<1> QED
  BY <1>2, <1>3, <1>5, <1>6, <1>7 DEF IInv

(***************************************************************************)
(* Steps that end a job.                                                   *)
(***************************************************************************)

\* The session goes on with what it has, with what is committed, or with nothing.
LEMMA SessionReset ==
  ASSUME IInv, UNCHANGED xo,
         \/ UNCHANGED <<db, stored>>
         \/ db' = stored /\ stored' = stored
         \/ db' = EmptyDb /\ stored' = EmptyDb
  PROVE  /\ OrdersFit(xo') /\ Fits(xo', db') /\ Fits(xo', stored')
         /\ db' \in Databases /\ stored' \in Databases
         /\ \/ UNCHANGED <<db, stored>>
            \/ Known(db') = Known(stored') /\ db'.trade.st = stored'.trade.st
<1>1. Fits(xo, EmptyDb) /\ OrdersFit(xo)
  BY FitsEmpty DEF IInv, OrdersFit
<1>2. OrdersFit(xo') /\ Fits(xo', db') /\ Fits(xo', stored')
  BY <1>1 DEF IInv
<1> QED
  BY <1>2 DEF Fits

LEMMA JobEndsFacts ==
  ASSUME JobFails \/ JobEnds
  PROVE  /\ job' = NoJob
         /\ \/ UNCHANGED <<db, stored>>
            \/ db' = stored /\ stored' = stored
            \/ db' = EmptyDb /\ stored' = EmptyDb
BY DEF JobFails, JobEnds, Save, ReplaceFailed

\* Nothing is left to do after it.
LEMMA JobOver ==
  ASSUME IInv, UNCHANGED <<xo, loop, crashes>>,
         \/ UNCHANGED <<db, stored>>
         \/ db' = stored /\ stored' = stored
         \/ db' = EmptyDb /\ stored' = EmptyDb,
         pc # "stops", Quiet'
  PROVE  IInv'
<1>1. /\ OrdersFit(xo') /\ Fits(xo', db') /\ Fits(xo', stored')
      /\ db' \in Databases /\ stored' \in Databases
      /\ \/ UNCHANGED <<db, stored>>
         \/ Known(db') = Known(stored') /\ db'.trade.st = stored'.trade.st
  BY SessionReset
<1>2. job' \in Jobs /\ job'.kind = "none" /\ ~ job'.ready /\ ~ job'.refinding
  BY JobFacts DEF Quiet
<1>3. NotSent \in [id : Ids \cup {0}, c : [status : Status \cup {"none"}, filled : Nat]]
  BY DEF NotSent
<1>4. TypeOK'
  BY <1>1, <1>2, <1>3 DEF IInv, TypeOK, Quiet, loop, Jobs
<1>5. JobInv'
  BY <1>2 DEF IInv, JobInv, Quiet, loop, ExitKinds, EntryKinds
<1>6. CancelsInv' /\ SentInv'
  BY DEF CancelsInv, SentInv, Quiet
<1>7. CommittedInv'
  BY <1>1 DEF IInv, CommittedInv, loop
<1> QED
  BY <1>1, <1>4, <1>5, <1>6, <1>7 DEF IInv

LEMMA JobRefusedKeeps ==
  ASSUME IInv, JobRefused PROVE IInv'
<1>1. job.kind # "none" /\ ~ job.ready
  BY DEF JobRefused, ExitKinds
<1>2. pc # "stops" /\ sent = NotSent /\ refind = {}
  BY <1>1, JobFacts DEF IInv, JobInv, SentInv
<1>3. Quiet'
  BY <1>2, JobEndsFacts DEF JobRefused, Quiet
<1> QED
  BY <1>2, <1>3, JobEndsFacts, JobOver DEF JobRefused

LEMMA JobDroppedKeeps ==
  ASSUME IInv, JobDropped PROVE IInv'
<1>1. job.kind # "none" /\ ~ job.ready
  BY DEF JobDropped, ExitKinds, EntryKinds
<1>2. pc # "stops" /\ sent = NotSent /\ refind = {}
  BY <1>1, JobFacts DEF IInv, JobInv, SentInv
<1>3. Quiet'
  BY <1>2, JobEndsFacts DEF JobDropped, Quiet
<1> QED
  BY <1>2, <1>3, JobEndsFacts, JobOver DEF JobDropped

LEMMA RefindDoneKeeps ==
  ASSUME IInv, RefindDone PROVE IInv'
<1>1. pc # "stops" /\ sent = NotSent
  BY JobFacts DEF IInv, JobInv, SentInv, RefindDone
<1>2. Quiet'
  BY <1>1, JobEndsFacts DEF RefindDone, Quiet
<1> QED
  BY <1>1, <1>2, JobEndsFacts, JobOver DEF RefindDone

LEMMA DeleteTradeKeeps ==
  ASSUME IInv, DeleteTrade PROVE IInv'
<1>1. job.kind # "none" /\ ~ job.ready
  BY DEF IInv, JobInv, DeleteTrade, ExitKinds, EntryKinds
<1>2. pc # "stops" /\ sent = NotSent /\ refind = {}
  BY <1>1, JobFacts DEF IInv, JobInv, SentInv
<1>3. Quiet'
  BY <1>2 DEF DeleteTrade, Quiet
<1> QED
  BY <1>2, <1>3, JobOver DEF DeleteTrade, Save

LEMMA CancelErrorKeeps ==
  ASSUME IInv, CancelError PROVE IInv'
<1>1. /\ cancels # {} /\ ~ job.refinding /\ cancels' = {} /\ JobFails
      /\ UNCHANGED <<xo, live, sent, refind, crashes>>
  BY DEF CancelError
<1>2. sent = NotSent /\ refind = {} /\ holder # "free"
  BY <1>1 DEF IInv, JobInv, SentInv, Quiet
<1>3. Quiet'
  BY <1>1, <1>2, JobEndsFacts DEF Quiet
<1>4. /\ OrdersFit(xo') /\ Fits(xo', db') /\ Fits(xo', stored')
      /\ db' \in Databases /\ stored' \in Databases
      /\ \/ UNCHANGED <<db, stored>>
         \/ Known(db') = Known(stored') /\ db'.trade.st = stored'.trade.st
  BY <1>1, JobEndsFacts, SessionReset
<1>5. job' \in Jobs /\ job'.kind = "none" /\ ~ job'.ready /\ ~ job'.refinding
  BY <1>3, JobFacts DEF Quiet
<1>6. NotSent \in [id : Ids \cup {0}, c : [status : Status \cup {"none"}, filled : Nat]]
  BY DEF NotSent
<1>7. \/ pc' = "toManage" /\ pc = "manage" /\ holder' = "free" /\ todo' = {}
      \/ pc = "signal" /\ holder = "main" /\ pc' = AfterExits /\ UNCHANGED <<holder, todo>>
      \/ holder = "rpc" /\ todo' = {} /\ UNCHANGED <<pc, holder>>
      \/ holder = "main" /\ UNCHANGED <<pc, holder, todo>>
      \/ holder = "rpc" /\ job.kind = "emergency" /\ UNCHANGED <<pc, holder, todo>>
  <2>1. holder \in {"main", "rpc"}
    BY <1>2 DEF IInv, TypeOK
  <2>2. CASE holder = "main" /\ pc = "manage" /\ job = NoJob
    BY <2>2 DEF CancelError, IterationAborted
  <2>3. CASE holder = "main" /\ pc = "signal"
    BY <2>3 DEF CancelError
  <2>4. CASE holder = "rpc" /\ job.kind # "emergency"
    BY <2>4 DEF CancelError
  <2>5. CASE /\ ~ (holder = "main" /\ pc = "manage" /\ job = NoJob)
             /\ ~ (holder = "main" /\ pc = "signal")
             /\ ~ (holder = "rpc" /\ job.kind # "emergency")
    BY <2>1, <2>5 DEF CancelError
  <2> QED
    BY <2>2, <2>3, <2>4, <2>5
<1>8. AfterExits \in Sections /\ "toManage" \in Sections /\ AfterExits # "stops"
  BY DEF AfterExits, Sections
<1>9. TypeOK'
  BY <1>1, <1>3, <1>4, <1>5, <1>6, <1>7, <1>8 DEF IInv, TypeOK, Quiet, Jobs
<1>10. pc' = "stops" => todo' \subseteq Known(db')
  <2>1. CASE UNCHANGED <<db, stored>>
    BY <1>7, <1>8, <2>1, JobFacts DEF IInv, JobInv, Sections
  <2>2. CASE ~ UNCHANGED <<db, stored>> /\ pc' = "stops"
    <3>1. job = NoJob /\ holder = "main"
      BY <1>7, <1>8, <2>2, JobFacts DEF IInv, JobInv, Sections
    <3>2. FALSE
      BY <1>1, <2>2, <3>1 DEF JobFails, JobEnds, NoJob
    <3> QED
      BY <3>2
  <2> QED
    BY <2>1, <2>2
<1>11. JobInv'
  BY <1>3, <1>5, <1>7, <1>8, <1>10 DEF IInv, JobInv, Quiet, ExitKinds, EntryKinds
<1>12. CancelsInv' /\ SentInv'
  BY <1>3 DEF CancelsInv, SentInv, Quiet
<1>13. CommittedInv'
  <2>1. CASE UNCHANGED <<db, stored>>
    BY <1>7, <2>1 DEF IInv, CommittedInv, AfterExits
  <2> QED
    BY <1>4, <2>1 DEF CommittedInv
<1> QED
  BY <1>4, <1>9, <1>11, <1>12, <1>13 DEF IInv

\* A crash, and commands that drop their session.
LEMMA DiesKeeps ==
  ASSUME IInv, Dies, OrdersFit(xo'), Fits(xo', db'), stored' = db' PROVE IInv'
<1>1. xo' \in Orders /\ db' \in Databases /\ stored' \in Databases
  BY DEF OrdersFit, Fits
<1>2. Quiet' /\ job' \in Jobs /\ NotSent \in [id : Ids \cup {0}, c : [status : Status \cup {"none"}, filled : Nat]]
  BY JobFacts DEF Dies, Quiet, NotSent
<1>3. TypeOK'
  BY <1>1, <1>2, TradeOrdersAssumption DEF Dies, IInv, TypeOK, Quiet, Jobs
<1>4. JobInv' /\ CancelsInv' /\ SentInv'
  BY <1>2, JobFacts DEF Dies, JobInv, CancelsInv, SentInv, Quiet, ExitKinds, EntryKinds
<1>5. CommittedInv'
  BY DEF CommittedInv
<1> QED
  BY <1>3, <1>4, <1>5 DEF IInv

LEMMA CrashKeeps ==
  ASSUME IInv, Crash PROVE IInv'
<1>1. /\ OrdersFit(xo') /\ Fits(xo', db') /\ Fits(xo', stored') /\ db' = stored'
  BY SessionReset DEF Crash
<1> QED
  BY <1>1, DiesKeeps DEF Crash

LEMMA RpcVisitFailsKeeps ==
  ASSUME IInv, RpcVisitFails PROVE IInv'
<1>1. /\ OrdersFit(xo') /\ Fits(xo', db') /\ Fits(xo', stored')
      /\ db' \in Databases /\ stored' \in Databases /\ db' = stored'
  BY SessionReset DEF RpcVisitFails, Save
<1>2. Quiet /\ UNCHANGED handler /\ UNCHANGED <<xo, pc, holder, live, crashes>> /\ todo' = {}
  BY DEF RpcVisitFails
<1>3. TypeOK'
  BY <1>1, <1>2 DEF IInv, TypeOK, handler
<1>4. JobInv' /\ CancelsInv' /\ SentInv'
  BY <1>2, JobFacts DEF IInv, JobInv, CancelsInv, SentInv, Quiet, handler, ExitKinds, EntryKinds
<1>5. CommittedInv'
  BY <1>1 DEF CommittedInv
<1> QED
  BY <1>1, <1>3, <1>4, <1>5 DEF IInv

LEMMA ReleaseKeeps ==
  ASSUME IInv, Release PROVE IInv'
<1>1. /\ Quiet /\ holder # "free" /\ holder' = "free" /\ todo' = {} /\ live' = {}
      /\ UNCHANGED <<xo, db, pc, handler, crashes>>
      /\ holder = "main" => pc \in Sections
  BY DEF Release
<1>2. pc \in Sections
  BY <1>1 DEF IInv, TypeOK, JobInv
<1>3. \/ stored' = db
      \/ stored' = stored /\ holder # "rpc" /\ pc # AfterExits
  BY DEF Release, SectionCommit
<1>4. OrdersFit(xo') /\ Fits(xo', db') /\ Fits(xo', stored')
  BY <1>1, <1>3 DEF IInv
<1>5. TypeOK'
  BY <1>1, <1>3 DEF IInv, TypeOK, handler
<1>6. JobInv' /\ CancelsInv' /\ SentInv'
  BY <1>1, <1>2, JobFacts DEF JobInv, CancelsInv, SentInv, Quiet, handler, ExitKinds, EntryKinds, Sections
<1>7. CommittedInv'
  BY <1>1, <1>3 DEF IInv, CommittedInv, Sections
<1> QED
  BY <1>4, <1>5, <1>6, <1>7 DEF IInv

(***************************************************************************)
(* Steps that bring one order row up to date.                              *)
(***************************************************************************)

LEMMA StopsAfterFillFacts ==
  ASSUME NEW d, NEW o, NEW c
  PROVE  /\ StopsAfterFill(d, o, c) \subseteq Known(d)
         /\ \A p \in StopsAfterFill(d, o, c) : xo[p].side = "stoploss"
BY RowSets DEF StopsAfterFill

\* The session with the row of order o seen as c, the orders being as in xo'.
LEMMA ApplyFacts ==
  ASSUME IInv, NEW o \in Known(db), NEW c \in Seen, Apply(o, c),
         OrdersFit(xo'), OrdersStep(xo, xo'), Told(xo', o, c),
         c.status = "open" => xo[o].status = "open"
  PROVE  /\ Fits(xo', db') /\ Fits(xo', stored') /\ db' \in Databases /\ stored' \in Databases
         /\ Known(db') = Known(db)
         /\ db.trade.amount > 0 => db'.trade.amount > 0
         /\ stored' = db' \/ (stored' = stored /\ db'.trade.st = db.trade.st)
<1> DEFINE e == UpdateTradeState(db, o, c)
<1>1. /\ xo \in Orders /\ xo' \in Orders /\ db \in Databases /\ o \in Ids /\ db.rows[o].known
      /\ xo[o].status # "none" /\ OrdersFit(xo) /\ Fits(xo, db) /\ Fits(xo, stored)
  BY DEF IInv, OrdersFit, Fits, Known
<1>2. /\ e \in Databases /\ e.rows = [db.rows EXCEPT ![o] = Row(c)]
      /\ CanceledEmpty(c) \/ c.status = "open" => e.trade = db.trade
      /\ db.trade.amount > 0 => e.trade.amount > 0
  BY <1>1, UpdateStateFacts
<1>3. Fits(xo', e)
  BY <1>1, FitsState
<1>4. db' = e /\ stored' = e
  BY DEF Apply, Save
<1> HIDE DEF e
<1>5. Known(e) = Known(db)
  <2>1. e.rows[o] = Row(c) /\ \A p \in Ids : p # o => e.rows[p] = db.rows[p]
    BY <1>1, <1>2 DEF Databases
  <2>2. Row(c).known
    BY DEF Row
  <2>3. \A p \in Ids : e.rows[p].known <=> db.rows[p].known
    BY <1>1, <2>1, <2>2
  <2> QED
    BY <2>3 DEF Known
<1>6. Fits(xo', stored)
  BY <1>1, FitsFrame
<1>7. Fits(xo', stored')
  BY <1>3, <1>4, <1>6
<1>8. stored' = db' \/ (stored' = stored /\ db'.trade.st = db.trade.st)
  BY <1>2, <1>4
<1> QED
  BY <1>2, <1>3, <1>4, <1>5, <1>7, <1>8 DEF Fits

\* The same for an order seen as it is.
LEMMA ApplySnapFacts ==
  ASSUME IInv, NEW o \in Known(db), Apply(o, Snap(o)), UNCHANGED xo
  PROVE  /\ Fits(xo', db') /\ Fits(xo', stored') /\ db' \in Databases /\ stored' \in Databases
         /\ Known(db') = Known(db)
         /\ db.trade.amount > 0 => db'.trade.amount > 0
         /\ stored' = db' \/ (stored' = stored /\ db'.trade.st = db.trade.st)
         /\ OrdersFit(xo')
<1>1. OrdersFit(xo) /\ o \in Ids
  BY DEF IInv, Known
<1>2. /\ Snap(o) \in Seen /\ Told(xo, o, Snap(o)) /\ OrdersStep(xo, xo)
      /\ Snap(o).status = xo[o].status /\ Snap(o).filled = xo[o].filled
  BY <1>1, SnapFacts
<1> QED
  BY <1>1, <1>2, ApplyFacts

LEMMA CommittedStays ==
  ASSUME IInv, Known(db') = Known(db),
         stored' = db' \/ (stored' = stored /\ db'.trade.st = db.trade.st),
         \/ holder # "main" \/ pc \notin {"signal", AfterExits} \/ UNCHANGED <<holder, pc>>
  PROVE  CommittedInv'
BY DEF IInv, CommittedInv

LEMMA CancelStopKeeps ==
  ASSUME IInv, NEW o \in Ids, CancelStop(o) PROVE IInv'
<1>1. /\ o \in cancels /\ o \in Known(db) /\ o \in Ids /\ job.kind # "delete" /\ cancels' = cancels \ {o}
      /\ UNCHANGED <<pc, holder, todo, live, job, sent, refind, crashes>>
  BY DEF CancelStop, IInv, CancelsInv, Known, loop
<1>2. sent = NotSent /\ holder # "free"
  BY <1>1 DEF IInv, JobInv, SentInv, Quiet
<1>3. /\ OrdersFit(xo') /\ Fits(xo', db') /\ Fits(xo', stored')
      /\ db' \in Databases /\ stored' \in Databases
      /\ Known(db') = Known(db) /\ (db.trade.amount > 0 => db'.trade.amount > 0)
      /\ stored' = db' \/ (stored' = stored /\ db'.trade.st = db.trade.st)
      /\ \A p \in Ids : xo'[p].side = xo[p].side
  <2>1. CASE xo[o].status = "open"
    <3>1. PICK r \in CancelResults(o) : xo' = [xo EXCEPT ![o] = r.to] /\ Apply(o, r.c)
      BY <2>1 DEF CancelStop
    <3>2. /\ OrdersFit(xo') /\ OrdersStep(xo, xo') /\ r.c \in Seen /\ Told(xo', o, r.c)
          /\ \A p \in Ids : xo'[p].side = xo[p].side
      BY <2>1, <3>1, CancelResultsFacts DEF IInv
    <3> QED
      BY <1>1, <2>1, <3>1, <3>2, ApplyFacts
  <2>2. CASE xo[o].status # "open"
    BY <2>2 DEF CancelStop, IInv, TypeOK
  <2> QED
    BY <2>1, <2>2
<1>4. TypeOK'
  BY <1>1, <1>3 DEF IInv, TypeOK, OrdersFit
<1>5. JobInv'
  BY <1>1, <1>2, <1>3 DEF IInv, JobInv
<1>6. CancelsInv'
  BY <1>1, <1>3, RowSets DEF IInv, CancelsInv
<1>7. SentInv' /\ CommittedInv'
  BY <1>1, <1>2, <1>3, CommittedStays DEF SentInv
<1> QED
  BY <1>3, <1>4, <1>5, <1>6, <1>7 DEF IInv

LEMMA RefindKeeps ==
  ASSUME IInv, NEW o \in Ids, Refind(o) PROVE IInv'
<1>1. /\ o \in refind /\ o \in Known(db) /\ cancels = {} /\ refind' = refind \ {o}
      /\ UNCHANGED <<xo, pc, holder, todo, live, job, sent, crashes>>
  BY DEF Refind, IInv, CancelsInv, loop
<1>2. job.refinding /\ sent = NotSent /\ holder # "free" /\ pc # "stops"
  BY <1>1, JobFacts DEF IInv, JobInv, SentInv, Quiet
<1>3. /\ OrdersFit(xo') /\ Fits(xo', db') /\ Fits(xo', stored')
      /\ db' \in Databases /\ stored' \in Databases
      /\ Known(db') = Known(db)
      /\ stored' = db' \/ (stored' = stored /\ db'.trade.st = db.trade.st)
      /\ cancels' \subseteq Known(db') /\ \A p \in cancels' : xo[p].side = "stoploss"
  <2>1. CASE Apply(o, Snap(o)) /\ cancels' = StopsAfterFill(db', o, Snap(o))
    BY <1>1, <2>1, ApplySnapFacts, StopsAfterFillFacts
  <2>2. CASE UNCHANGED <<db, stored, cancels>>
    BY <1>1, <2>2 DEF IInv, TypeOK
  <2> QED
    BY <2>1, <2>2 DEF Refind
<1>4. TypeOK'
  BY <1>1, <1>3, RowSets DEF IInv, TypeOK
<1>5. JobInv'
  BY <1>1, <1>2 DEF IInv, JobInv
<1>6. CancelsInv'
  BY <1>1, <1>3 DEF IInv, CancelsInv
<1>7. SentInv' /\ CommittedInv'
  BY <1>1, <1>2, <1>3, CommittedStays DEF SentInv
<1> QED
  BY <1>3, <1>4, <1>5, <1>6, <1>7 DEF IInv

LEMMA ManageUpdateKeeps ==
  ASSUME IInv, NEW o \in Ids, ManageUpdate(o) PROVE IInv'
<1>1. /\ Quiet /\ o \in Known(db) /\ holder = "main" /\ pc = "manage" /\ todo' \subseteq todo
      /\ UNCHANGED <<xo, pc, holder, live, job, sent, refind, crashes>>
  BY DEF ManageUpdate, Managing
<1>2. Apply(o, Snap(o)) /\ cancels' = StopsAfterFill(db', o, Snap(o))
  BY DEF ManageUpdate
<1>3. /\ OrdersFit(xo') /\ Fits(xo', db') /\ Fits(xo', stored')
      /\ db' \in Databases /\ stored' \in Databases
      /\ Known(db') = Known(db)
      /\ stored' = db' \/ (stored' = stored /\ db'.trade.st = db.trade.st)
      /\ cancels' \subseteq Known(db') /\ \A p \in cancels' : xo[p].side = "stoploss"
  BY <1>1, <1>2, ApplySnapFacts, StopsAfterFillFacts
<1>4. TypeOK'
  BY <1>1, <1>3, RowSets DEF IInv, TypeOK
<1>5. JobInv' /\ SentInv'
  BY <1>1, JobFacts DEF JobInv, SentInv, Quiet, ExitKinds, EntryKinds
<1>6. CancelsInv'
  BY <1>1, <1>3 DEF CancelsInv, Quiet
<1>7. CommittedInv'
  BY <1>1, <1>3, CommittedStays
<1> QED
  BY <1>3, <1>4, <1>5, <1>6, <1>7 DEF IInv

LEMMA StartupUpdateKeeps ==
  ASSUME IInv, NEW o \in Ids, StartupUpdate(o) PROVE IInv'
<1>1. /\ Quiet /\ o \in Known(db) /\ pc = "startup" /\ todo' \subseteq todo /\ holder \in {"free", "main", "rpc"}
      /\ UNCHANGED <<xo, pc, holder, live, job, sent, refind, crashes>>
  BY DEF StartupUpdate, Starting, IInv, TypeOK
<1>2. Apply(o, Snap(o)) /\ cancels' = StopsAfterFill(db', o, Snap(o))
  BY DEF StartupUpdate
<1>3. /\ OrdersFit(xo') /\ Fits(xo', db') /\ Fits(xo', stored')
      /\ db' \in Databases /\ stored' \in Databases
      /\ Known(db') = Known(db)
      /\ stored' = db' \/ (stored' = stored /\ db'.trade.st = db.trade.st)
      /\ cancels' \subseteq Known(db') /\ \A p \in cancels' : xo[p].side = "stoploss"
  BY <1>1, <1>2, ApplySnapFacts, StopsAfterFillFacts
<1>4. TypeOK'
  BY <1>1, <1>3, RowSets DEF IInv, TypeOK
<1>5. JobInv' /\ SentInv'
  BY <1>1, JobFacts DEF IInv, JobInv, SentInv, Quiet, ExitKinds, EntryKinds, Sections
<1>6. CancelsInv'
  BY <1>1, <1>3 DEF CancelsInv, Quiet
<1>7. CommittedInv'
  BY <1>1, <1>3, CommittedStays
<1> QED
  BY <1>3, <1>4, <1>5, <1>6, <1>7 DEF IInv

LEMMA AssignFeesKeeps ==
  ASSUME IInv, AssignFees PROVE IInv'
<1>1. /\ holder = "free" /\ Quiet /\ pc = "toManage"
      /\ UNCHANGED <<xo, pc, holder, todo, live, cancels, job, sent, refind, crashes>>
  BY DEF AssignFees, IInv, JobInv, loop, handler
<1>2. PICK o \in EntriesSettled(db) : Apply(o, Snap(o))
  BY DEF AssignFees
<1>3. o \in Known(db)
  BY DEF EntriesSettled, SuccessfulEntries
<1>4. /\ OrdersFit(xo') /\ Fits(xo', db') /\ Fits(xo', stored')
      /\ db' \in Databases /\ stored' \in Databases
      /\ Known(db') = Known(db)
      /\ stored' = db' \/ (stored' = stored /\ db'.trade.st = db.trade.st)
  BY <1>1, <1>2, <1>3, ApplySnapFacts
<1>5. TypeOK'
  BY <1>1, <1>4 DEF IInv, TypeOK
<1>6. JobInv' /\ SentInv' /\ CancelsInv'
  BY <1>1, JobFacts DEF IInv, JobInv, SentInv, CancelsInv, Quiet, ExitKinds, EntryKinds
<1>7. CommittedInv'
  BY <1>1, <1>4, CommittedStays
<1> QED
  BY <1>4, <1>5, <1>6, <1>7 DEF IInv

LEMMA StopFetchedKeeps ==
  ASSUME IInv, NEW o \in Ids, StopFetched(o) PROVE IInv'
<1>1. /\ Quiet /\ o \in todo /\ holder = "main" /\ pc = "stops" /\ Apply(o, Snap(o))
      /\ UNCHANGED <<xo, holder, cancels, job, sent, refind, crashes>>
      /\ \/ pc' = AfterExits /\ todo' = {} /\ live' = {}
         \/ pc' = pc /\ todo' = todo \ {o} /\ live' = live \cup {o}
  BY DEF StopFetched, handler
<1>2. o \in Known(db) /\ todo \subseteq Known(db)
  BY <1>1 DEF IInv, JobInv
<1>3. /\ OrdersFit(xo') /\ Fits(xo', db') /\ Fits(xo', stored')
      /\ db' \in Databases /\ stored' \in Databases
      /\ Known(db') = Known(db)
      /\ stored' = db' \/ (stored' = stored /\ db'.trade.st = db.trade.st)
  BY <1>1, <1>2, ApplySnapFacts
<1>4. AfterExits \in Sections /\ AfterExits # "stops" /\ "stops" # "signal"
  BY DEF AfterExits, Sections
<1>5. TypeOK'
  BY <1>1, <1>3, <1>4 DEF IInv, TypeOK
<1>6. JobInv' /\ SentInv' /\ CancelsInv'
  BY <1>1, <1>2, <1>3, <1>4, JobFacts DEF JobInv, SentInv, CancelsInv, Quiet, ExitKinds, EntryKinds
<1>7. CommittedInv'
  BY <1>1, <1>3, <1>4, CommittedStays
<1> QED
  BY <1>3, <1>5, <1>6, <1>7 DEF IInv

(***************************************************************************)
(* Steps that cancel an order.                                             *)
(***************************************************************************)

\* The order and the result, whether or not a request was sent.
LEMMA ResultFacts ==
  ASSUME IInv, NEW o \in Ids, NEW r,
         \/ xo[o].status = "open" /\ r \in CancelResults(o)
         \/ r.to = xo[o] /\ r.c = Snap(o),
         xo' = [xo EXCEPT ![o] = r.to]
  PROVE  /\ xo' \in Orders /\ OrdersFit(xo') /\ OrdersStep(xo, xo') /\ UsedIn(xo') = UsedIn(xo)
         /\ r.c \in Seen /\ Told(xo', o, r.c)
         /\ xo[o].status = "open" \/ r.c.status # "open"
         /\ \A p \in Ids : xo'[p].side = xo[p].side
<1>1. OrdersFit(xo) /\ Fits(xo, db) /\ xo \in Orders
  BY DEF IInv, OrdersFit
<1>2. CASE xo[o].status = "open" /\ r \in CancelResults(o)
  BY <1>1, <1>2, CancelResultsFacts
<1>3. CASE r.to = xo[o] /\ r.c = Snap(o)
  <2>1. xo' = xo
    BY <1>1, <1>3 DEF Orders
  <2>2. /\ Snap(o) \in Seen /\ Told(xo, o, Snap(o)) /\ OrdersStep(xo, xo)
        /\ Snap(o).status = xo[o].status
    BY <1>1, SnapFacts
  <2> QED
    BY <1>1, <1>3, <2>1, <2>2
<1> QED
  BY <1>2, <1>3

LEMMA EmptyFacts ==
  /\ EmptyDb \in Databases /\ Known(EmptyDb) = {} /\ EmptyDb.trade.st = "none"
  /\ \A o \in Ids : EmptyDb.rows[o].filled = 0
BY DEF EmptyDb, Databases, NoRow, NoTrade, Known

LEMMA RowKnown ==
  ASSUME NEW d \in Databases, NEW e, NEW o \in Known(d), NEW c, e.rows = [d.rows EXCEPT ![o] = Row(c)]
  PROVE  Known(e) = Known(d) /\ e.rows[o] = Row(c) /\ Row(c).filled = c.filled
<1>1. o \in Ids /\ d.rows[o].known
  BY DEF Known
<1>2. e.rows[o] = Row(c) /\ \A p \in Ids : p # o => e.rows[p] = d.rows[p]
  BY <1>1 DEF Databases
<1>3. Row(c).known /\ Row(c).filled = c.filled
  BY DEF Row
<1>4. \A p \in Ids : e.rows[p].known <=> d.rows[p].known
  BY <1>1, <1>2, <1>3
<1> QED
  BY <1>2, <1>3, <1>4 DEF Known

LEMMA CancelHandled ==
  ASSUME OrdersFit(xo), NEW y \in Orders, OrdersStep(xo, y), NEW d, Fits(xo, d), NEW o \in Known(d),
         NEW c \in Seen, Told(y, o, c), c.status = "open" => xo[o].status = "open",
         NEW s, NEW replacing
  PROVE  LET h == HandleCancel(d, o, s, c, replacing)
         IN  /\ Fits(y, h.d) /\ h.d \in Databases /\ h.ok \in BOOLEAN
             /\ Known(h.d) \subseteq Known(d)
             /\ ~ h.commit => Known(h.d) = Known(d) /\ h.d.trade.st = d.trade.st
             /\ h.ok /\ xo[o].side = "entry" => h.d.rows[o].filled = 0
<1> DEFINE h == HandleCancel(d, o, s, c, replacing)
           e == UpdateTradeState(d, o, c)
<1>1. /\ \/ h.d = d /\ h.commit = FALSE /\ ~ h.ok
         \/ h.d = EmptyDb /\ h.commit = TRUE /\ ~ replacing
         \/ h.d = e /\ h.commit = TRUE
      /\ h.ok \in BOOLEAN
      /\ h.ok /\ xo[o].side = "entry" => c.filled = 0
  BY HandleCancelFacts
<1>2. d \in Databases /\ xo \in Orders /\ o \in Ids /\ d.rows[o].known /\ xo[o].status # "none"
  BY DEF Fits, OrdersFit, Known
<1>3. Fits(y, e) /\ Fits(y, EmptyDb)
  BY <1>2, FitsState
<1>4. Fits(y, d)
  BY <1>2, FitsFrame
<1>5. /\ e \in Databases /\ e.rows = [d.rows EXCEPT ![o] = Row(c)]
      /\ CanceledEmpty(c) \/ c.status = "open" => e.trade = d.trade
  BY <1>2, UpdateStateFacts
<1> HIDE DEF e, h
<1>6. Known(e) = Known(d) /\ e.rows[o].filled = c.filled
  BY <1>2, <1>5, RowKnown
<1>7. Fits(y, h.d) /\ h.d \in Databases
  BY <1>1, <1>2, <1>3, <1>4, <1>5, EmptyFacts
<1>8. Known(h.d) \subseteq Known(d)
  BY <1>1, <1>6, EmptyFacts
<1>9. ~ h.commit => Known(h.d) = Known(d) /\ h.d.trade.st = d.trade.st
  BY <1>1, <1>5, <1>6
<1>10. h.ok /\ xo[o].side = "entry" => h.d.rows[o].filled = 0
  BY <1>1, <1>2, <1>6, EmptyFacts
<1> QED
  BY <1>1, <1>7, <1>8, <1>9, <1>10 DEF h

LEMMA CancelOrderKeeps ==
  ASSUME IInv, NEW o \in Ids, CancelOrder(o) PROVE IInv'
<1> DEFINE request == CancelRequested(db, o, Snap(o))
<1>1. /\ o \in cancels /\ o \in Known(db) /\ xo[o].side # "stoploss" /\ cancels # {}
      /\ UNCHANGED <<pc, holder, todo, live, sent, refind, crashes>>
  BY DEF CancelOrder, IInv, CancelsInv, loop
<1>2. /\ job.kind \notin {"none", "stoploss"} /\ ~ job.refinding /\ sent = NotSent /\ refind = {}
      /\ holder # "free" /\ pc # "stops"
  <2>1. job.kind \notin {"none", "stoploss"} /\ ~ job.refinding
    BY <1>1 DEF IInv, CancelsInv
  <2> QED
    BY <1>1, <2>1, JobFacts DEF IInv, JobInv, SentInv, Quiet
<1>3. request \in BOOLEAN /\ (request => xo[o].status = "open")
  BY DEF CancelRequested, Snap
<1>4. PICK r \in IF request THEN CancelResults(o) ELSE {[to |-> xo[o], c |-> Snap(o)]} :
        LET h == HandleCancel(db, o, Snap(o), r.c, job.kind # "force")
        IN  /\ xo' = [xo EXCEPT ![o] = r.to]
            /\ Save(h.d, h.commit)
            /\ cancels' = ((cancels \ {o}) \cap Known(h.d)) \cup StopsAfterFill(h.d, o, r.c)
            /\ job' = [job EXCEPT !.entered =
                         @ \/ (job.kind = "force" /\ xo[o].side = "entry" /\ h.ok)]
  BY DEF CancelOrder
<1> DEFINE h == HandleCancel(db, o, Snap(o), r.c, job.kind # "force")
<1> HIDE DEF request
<1>5. /\ xo' \in Orders /\ OrdersFit(xo') /\ OrdersStep(xo, xo')
      /\ r.c \in Seen /\ Told(xo', o, r.c)
      /\ xo[o].status = "open" \/ r.c.status # "open"
      /\ \A p \in Ids : xo'[p].side = xo[p].side
  <2>1. \/ xo[o].status = "open" /\ r \in CancelResults(o)
        \/ r.to = xo[o] /\ r.c = Snap(o)
    BY <1>3
  <2>2. xo' = [xo EXCEPT ![o] = r.to]
    BY <1>4
  <2> QED
    BY <2>1, <2>2, ResultFacts
<1>6. /\ Fits(xo', h.d) /\ h.d \in Databases /\ h.ok \in BOOLEAN
      /\ Known(h.d) \subseteq Known(db)
      /\ ~ h.commit => Known(h.d) = Known(db) /\ h.d.trade.st = db.trade.st
  BY <1>1, <1>5, CancelHandled DEF IInv
<1>7. /\ db' = h.d /\ stored' = IF h.commit THEN h.d ELSE stored
      /\ cancels' = ((cancels \ {o}) \cap Known(h.d)) \cup StopsAfterFill(h.d, o, r.c)
      /\ job' = [job EXCEPT !.entered =
                   @ \/ (job.kind = "force" /\ xo[o].side = "entry" /\ h.ok)]
  BY <1>4 DEF Save
<1> HIDE DEF h
<1>8. Fits(xo', db') /\ Fits(xo', stored')
  BY <1>5, <1>6, <1>7, FitsFrame DEF IInv, OrdersFit
<1>9. /\ job' \in Jobs /\ job'.kind = job.kind /\ job'.want = job.want /\ job'.ready = job.ready
      /\ job'.refinding = job.refinding
  <2>1. job \in Jobs
    BY DEF IInv, TypeOK, Jobs
  <2>2. (job.entered \/ (job.kind = "force" /\ xo[o].side = "entry" /\ h.ok)) \in BOOLEAN
    BY <1>6, <2>1 DEF Jobs
  <2> QED
    BY <1>7, <2>1, <2>2 DEF Jobs
<1>10. cancels' \subseteq Known(db')
  BY <1>7, StopsAfterFillFacts
<1>11. TypeOK'
  BY <1>1, <1>5, <1>6, <1>7, <1>8, <1>9, <1>10, RowSets DEF IInv, TypeOK, Fits, Jobs
<1>12. JobInv'
  BY <1>1, <1>2, <1>9 DEF IInv, JobInv
<1>13. CancelsInv' /\ SentInv'
  BY <1>1, <1>2, <1>9, <1>10 DEF CancelsInv, SentInv
<1>14. CommittedInv'
  <2>1. CASE h.commit
    BY <1>7, <2>1 DEF CommittedInv
  <2>2. CASE ~ h.commit
    BY <1>1, <1>6, <1>7, <2>2 DEF IInv, CommittedInv
  <2> QED
    BY <2>1, <2>2
<1> QED
  BY <1>5, <1>8, <1>11, <1>12, <1>13, <1>14 DEF IInv

LEMMA ReplaceFailedIs == ASSUME NEW d PROVE ReplaceFailed(d) \in {d, EmptyDb}
BY DEF ReplaceFailed

\* handle_cancel_order and what its callers do next, from a session d0 and a
\* database s0 with the same rows.
LEMMA CancelOpenFacts ==
  ASSUME IInv, NEW d0, Fits(xo, d0), NEW s0, Fits(xo, s0),
         Known(d0) = Known(s0), d0.trade.st = s0.trade.st,
         NEW o \in Known(d0), xo[o].status = "open",
         NEW why \in {"timeout", "drop", "replace"}, CancelOpen(o, why, d0, s0)
  PROVE  /\ OrdersFit(xo') /\ Fits(xo', db') /\ Fits(xo', stored')
         /\ db' \in Databases /\ stored' \in Databases
         /\ Known(db') = Known(stored') /\ db'.trade.st = stored'.trade.st
         /\ job' \in Jobs /\ ~ job'.ready /\ ~ job'.refinding
         /\ job'.kind \in {"none", "emergency", "reentry", "reexit"}
         /\ job'.kind = "reentry" => job'.want > 0
         /\ cancels' \subseteq Known(db') /\ \A p \in cancels' : xo'[p].side = "stoploss"
<1> DEFINE request == CancelRequested(d0, o, Snap(o))
           entry == xo[o].side = "entry"
<1>1. request \in BOOLEAN /\ (request => xo[o].status = "open")
  BY DEF CancelRequested, Snap
<1>2. PICK r \in IF request THEN CancelResults(o) ELSE {[to |-> xo[o], c |-> Snap(o)]} :
        LET h == HandleCancel(d0, o, Snap(o), r.c, why = "replace")
            d == IF why # "timeout" /\ ~ h.ok THEN ReplaceFailed(h.d) ELSE h.d
            emergency == ~ entry /\ why # "replace" /\ h.ok /\ EmergencyDue(d)
            again == why = "replace" /\ h.ok
        IN  /\ xo' = [xo EXCEPT ![o] = r.to]
            /\ db' = d /\ stored' = IF h.commit \/ d # h.d THEN d ELSE s0
            /\ job' = CASE emergency -> Job("emergency", xo[o].amount)
                        [] again /\ entry -> Job("reentry", xo[o].amount - d.rows[o].filled)
                        [] again /\ ~ entry -> Job("reexit", xo[o].amount - d.rows[o].filled)
                        [] OTHER -> NoJob
            /\ cancels' = StopsAfterFill(d, o, r.c)
                            \cup (IF job'.kind \in ExitKinds THEN StopsToCancel(d) ELSE {})
  BY DEF CancelOpen
<1> DEFINE h == HandleCancel(d0, o, Snap(o), r.c, why = "replace")
           d == IF why # "timeout" /\ ~ h.ok THEN ReplaceFailed(h.d) ELSE h.d
           emergency == ~ entry /\ why # "replace" /\ h.ok /\ EmergencyDue(d)
           again == why = "replace" /\ h.ok
           left == xo[o].amount - d.rows[o].filled
<1> HIDE DEF request
<1>3. o \in Ids /\ xo[o].amount \in Nat /\ xo[o].filled \in Nat /\ xo[o].filled < xo[o].amount
  BY DEF IInv, OrdersFit, Orders, Known
<1>4. /\ xo' \in Orders /\ OrdersFit(xo') /\ OrdersStep(xo, xo')
      /\ r.c \in Seen /\ Told(xo', o, r.c)
      /\ xo[o].status = "open" \/ r.c.status # "open"
      /\ \A p \in Ids : xo'[p].side = xo[p].side
  <2>1. \/ xo[o].status = "open" /\ r \in CancelResults(o)
        \/ r.to = xo[o] /\ r.c = Snap(o)
    BY <1>1
  <2>2. xo' = [xo EXCEPT ![o] = r.to]
    BY <1>2
  <2> QED
    BY <1>3, <2>1, <2>2, ResultFacts
<1>5. /\ Fits(xo', h.d) /\ h.d \in Databases /\ h.ok \in BOOLEAN
      /\ Known(h.d) \subseteq Known(d0)
      /\ ~ h.commit => Known(h.d) = Known(d0) /\ h.d.trade.st = d0.trade.st
      /\ h.ok /\ entry => h.d.rows[o].filled = 0
  BY <1>4, CancelHandled DEF IInv
<1>6. /\ db' = d /\ stored' = IF h.commit \/ d # h.d THEN d ELSE s0
      /\ job' = CASE emergency -> Job("emergency", xo[o].amount)
                  [] again /\ entry -> Job("reentry", left)
                  [] again /\ ~ entry -> Job("reexit", left)
                  [] OTHER -> NoJob
      /\ cancels' = StopsAfterFill(d, o, r.c)
                      \cup (IF job'.kind \in ExitKinds THEN StopsToCancel(d) ELSE {})
  BY <1>2
<1>7. d \in {h.d, EmptyDb}
  <2> HIDE DEF h
  <2> QED
    BY ReplaceFailedIs
<1>8. h.ok => d = h.d
  OBVIOUS
<1> HIDE DEF h, d
<1>9. Fits(xo', EmptyDb) /\ Fits(xo', s0)
  BY <1>4, FitsEmpty, FitsFrame DEF IInv, OrdersFit
<1>10. Fits(xo', db') /\ Fits(xo', stored') /\ db' \in Databases /\ stored' \in Databases
  BY <1>5, <1>6, <1>7, <1>9, EmptyFacts DEF Fits
<1>11. Known(db') = Known(stored') /\ db'.trade.st = stored'.trade.st
  BY <1>5, <1>6
<1>12. left \in Nat /\ (h.ok /\ entry => left > 0)
  <2>1. d.rows[o].filled \in Nat /\ d.rows[o].filled <= xo'[o].amount /\ xo'[o].amount = xo[o].amount
    <3>1. Fits(xo', d) /\ d \in Databases
      BY <1>6, <1>10
    <3>2. d.rows[o].filled \in Nat /\ xo'[o].amount = xo[o].amount
      BY <1>3, <1>4, <3>1 DEF Databases, OrdersStep
    <3>3. CASE d.rows[o].known
      BY <1>3, <3>1, <3>2, <3>3 DEF Fits
    <3>4. CASE ~ d.rows[o].known
      BY <1>3, <3>1, <3>2, <3>4 DEF Fits
    <3> QED
      BY <3>2, <3>3, <3>4
  <2> QED
    BY <1>3, <1>5, <1>8, <2>1
<1>13. \/ job' = Job("emergency", xo[o].amount)
       \/ job' = Job("reentry", left) /\ left > 0
       \/ job' = Job("reexit", left)
       \/ job' = NoJob
  <2> HIDE DEF left
  <2> QED
    BY <1>6, <1>12
<1> HIDE DEF left
<1>14. /\ job' \in Jobs /\ ~ job'.ready /\ ~ job'.refinding
       /\ job'.kind \in {"none", "emergency", "reentry", "reexit"}
       /\ job'.kind = "reentry" => job'.want > 0
  <2>1. {"emergency", "reentry", "reexit"} \subseteq Kinds
    BY DEF Kinds, ExitKinds, EntryKinds
  <2>2. CASE job' = Job("emergency", xo[o].amount)
    BY <1>3, <2>1, <2>2, JobFacts
  <2>3. CASE job' = Job("reentry", left) /\ left > 0
    BY <1>12, <2>1, <2>3, JobFacts
  <2>4. CASE job' = Job("reexit", left)
    BY <1>12, <2>1, <2>4, JobFacts
  <2>5. CASE job' = NoJob
    BY <2>5, JobFacts
  <2> QED
    BY <1>13, <2>2, <2>3, <2>4, <2>5
<1>15. cancels' \subseteq Known(d) /\ \A p \in cancels' : xo[p].side = "stoploss"
  BY <1>6, StopsAfterFillFacts, RowSets DEF StopsToCancel
<1>16. cancels' \subseteq Known(db') /\ \A p \in cancels' : xo'[p].side = "stoploss"
  BY <1>4, <1>6, <1>15 DEF Known
<1> QED
  BY <1>4, <1>10, <1>11, <1>14, <1>16

\* What is left to show of a step that ends like that, or with no job.
LEMMA CancellingKeeps ==
  ASSUME IInv, Quiet,
         OrdersFit(xo'), Fits(xo', db'), Fits(xo', stored'), db' \in Databases, stored' \in Databases,
         Known(db') = Known(stored'), db'.trade.st = stored'.trade.st,
         job' \in Jobs, ~ job'.ready, ~ job'.refinding,
         job'.kind \in {"none", "emergency", "reentry", "reexit"},
         job'.kind = "reentry" => job'.want > 0,
         cancels' \subseteq Known(db'), \A p \in cancels' : xo'[p].side = "stoploss",
         holder \in {"main", "rpc"}, pc # "stops", todo' \subseteq todo,
         UNCHANGED <<pc, holder, live, sent, refind, crashes>>
  PROVE  IInv'
<1>1. TypeOK'
  BY RowSets DEF IInv, TypeOK, OrdersFit, Jobs
<1>2. JobInv'
  BY DEF IInv, JobInv, Quiet, ExitKinds, EntryKinds
<1>3. CancelsInv' /\ SentInv' /\ CommittedInv'
  BY DEF CancelsInv, SentInv, CommittedInv, Quiet
<1> QED
  BY <1>1, <1>2, <1>3 DEF IInv

LEMMA ManageCancelKeeps ==
  ASSUME IInv, NEW o \in Ids, NEW why \in {"timeout", "drop", "replace"}, ManageCancel(o, why)
  PROVE  IInv'
<1> DEFINE d == UpdateTradeState(db, o, Snap(o))
<1>1. /\ Quiet /\ o \in Known(db) /\ holder = "main" /\ pc = "manage" /\ todo' \subseteq todo
      /\ xo[o].status = "open" /\ CancelOpen(o, why, d, d)
      /\ UNCHANGED <<pc, holder, live, sent, refind, crashes>>
  BY DEF ManageCancel, Managing
<1>2. OrdersFit(xo) /\ xo \in Orders /\ Fits(xo, db) /\ db \in Databases
  BY DEF IInv, OrdersFit, Fits
<1>3. /\ Snap(o) \in Seen /\ Told(xo, o, Snap(o)) /\ OrdersStep(xo, xo)
      /\ Snap(o).status = xo[o].status
  BY <1>2, SnapFacts
<1>4. Fits(xo, d)
  BY <1>1, <1>2, <1>3, FitsState
<1>5. Known(d) = Known(db)
  <2>1. d.rows = [db.rows EXCEPT ![o] = Row(Snap(o))]
    BY <1>2, <1>3, UpdateStateFacts
  <2> HIDE DEF d
  <2> QED
    BY <1>1, <1>2, <2>1, RowKnown
<1> HIDE DEF d
<1> QED
  BY <1>1, <1>4, <1>5, CancelOpenFacts, CancellingKeeps

LEMMA RpcVisitsKeeps ==
  ASSUME IInv, NEW o \in Ids, RpcVisits(o) PROVE IInv'
<1>1. /\ Quiet /\ o \in Known(db) /\ holder = "rpc" /\ todo' \subseteq todo
      /\ UNCHANGED <<pc, holder, live, sent, refind, crashes>>
  BY DEF RpcVisits
<1>2. /\ pc # "stops" /\ Known(db) = Known(stored) /\ db.trade.st = stored.trade.st
      /\ OrdersFit(xo) /\ xo \in Orders /\ Fits(xo, db) /\ Fits(xo, stored) /\ db \in Databases
      /\ stored \in Databases
  BY <1>1 DEF IInv, JobInv, CommittedInv, OrdersFit, Fits, Sections
<1>3. CASE xo[o].status = "open" /\ CancelOpen(o, "timeout", db, stored)
  BY <1>1, <1>2, <1>3, CancelOpenFacts, CancellingKeeps
<1>4. CASE /\ xo[o].status # "open"
           /\ LET h == HandleCancel(db, o, Snap(o), Snap(o), FALSE)
              IN  Save(h.d, h.commit) /\ cancels' = StopsAfterFill(h.d, o, Snap(o))
           /\ UNCHANGED <<xo, job>>
  <2> DEFINE replacing == FALSE
             h == HandleCancel(db, o, Snap(o), Snap(o), replacing)
  <2>1. /\ Snap(o) \in Seen /\ Told(xo, o, Snap(o)) /\ OrdersStep(xo, xo)
        /\ Snap(o).status = xo[o].status
    BY <1>2, SnapFacts
  <2>2. /\ Fits(xo, h.d) /\ h.d \in Databases
        /\ ~ h.commit => Known(h.d) = Known(db) /\ h.d.trade.st = db.trade.st
    <3> HIDE DEF replacing
    <3> QED
      BY <1>1, <1>2, <2>1, CancelHandled
  <2>3. /\ db' = h.d /\ stored' = IF h.commit THEN h.d ELSE stored
        /\ cancels' = StopsAfterFill(h.d, o, Snap(o)) /\ UNCHANGED <<xo, job>>
    BY <1>4 DEF Save
  <2> HIDE DEF h
  <2>4. /\ OrdersFit(xo') /\ Fits(xo', db') /\ Fits(xo', stored') /\ db' \in Databases /\ stored' \in Databases
        /\ Known(db') = Known(stored') /\ db'.trade.st = stored'.trade.st
    BY <1>2, <2>2, <2>3
  <2>5. cancels' \subseteq Known(db') /\ \A p \in cancels' : xo'[p].side = "stoploss"
    BY <2>3, StopsAfterFillFacts
  <2>6. job' \in Jobs /\ ~ job'.ready /\ ~ job'.refinding /\ job'.kind = "none"
    BY <1>1, <2>3, JobFacts DEF Quiet
  <2> QED
    BY <1>1, <1>2, <2>4, <2>5, <2>6, CancellingKeeps
<1> QED
  BY <1>3, <1>4 DEF RpcVisits

LEMMA AssumedFacts ==
  ASSUME IInv, NEW o \in Known(db)
  PROVE  LET s == Assumed(o)
         IN  s \in Seen /\ s.status = "canceled" /\ s.filled <= xo[o].amount
BY DEF IInv, Assumed, Seen, Status, Databases, Fits, Known

LEMMA StartupUnknownKeeps ==
  ASSUME IInv, NEW o \in Ids, StartupUnknown(o) PROVE IInv'
<1> DEFINE s == Assumed(o)
           replacing == FALSE
           h == HandleCancel(db, o, s, s, replacing)
<1>1. /\ Quiet /\ o \in Known(db) /\ pc = "startup" /\ todo' \subseteq todo /\ ~ AnswersAreTrue
      /\ UNCHANGED <<xo, pc, holder, live, job, sent, refind, crashes>>
  BY DEF StartupUnknown, Starting, AnswersAreTrue
<1>2. /\ db' = h.d /\ stored' = IF h.commit THEN h.d ELSE stored
      /\ cancels' = StopsAfterFill(h.d, o, s)
  BY DEF StartupUnknown, Save
<1>3. /\ holder = "main" /\ Known(db) = Known(stored) /\ db.trade.st = stored.trade.st
      /\ OrdersFit(xo) /\ xo \in Orders /\ Fits(xo, db) /\ Fits(xo, stored) /\ db \in Databases
      /\ stored \in Databases
  BY <1>1 DEF IInv, TypeOK, JobInv, CommittedInv, OrdersFit, Sections, AfterExits
<1>4. s \in Seen /\ s.status = "canceled" /\ s.filled <= xo[o].amount
  BY <1>1, <1>3, AssumedFacts
<1> HIDE DEF s
<1>5. Told(xo, o, s) /\ OrdersStep(xo, xo)
  BY <1>1, <1>4 DEF Told, OrdersStep
<1>6. /\ Fits(xo, h.d) /\ h.d \in Databases
      /\ ~ h.commit => Known(h.d) = Known(db) /\ h.d.trade.st = db.trade.st
  <2> HIDE DEF replacing
  <2> QED
    BY <1>1, <1>3, <1>4, <1>5, CancelHandled
<1> HIDE DEF h
<1>7. /\ OrdersFit(xo') /\ Fits(xo', db') /\ Fits(xo', stored') /\ db' \in Databases /\ stored' \in Databases
      /\ Known(db') = Known(stored') /\ db'.trade.st = stored'.trade.st
  BY <1>1, <1>2, <1>3, <1>6
<1>8. cancels' \subseteq Known(db') /\ \A p \in cancels' : xo'[p].side = "stoploss"
  BY <1>1, <1>2, StopsAfterFillFacts
<1>9. job' \in Jobs /\ ~ job'.ready /\ ~ job'.refinding /\ job'.kind = "none"
  BY <1>1, JobFacts DEF Quiet
<1> QED
  BY <1>1, <1>3, <1>7, <1>8, <1>9, CancellingKeeps

LEMMA ManageCanceledKeeps ==
  ASSUME IInv, NEW o \in Ids, ManageCanceled(o) PROVE IInv'
<1> DEFINE u == UpdateRow(db, o, Snap(o))
           replacing == FALSE
           h == HandleCancel(u, o, Snap(o), Snap(o), replacing)
<1>1. /\ Quiet /\ o \in Known(db) /\ holder = "main" /\ pc = "manage" /\ todo' \subseteq todo
      /\ CanceledEmpty(Snap(o))
      /\ UNCHANGED <<xo, pc, holder, live, cancels, job, sent, refind, crashes>>
      /\ db' = h.d /\ stored' = IF h.commit THEN h.d ELSE stored
  BY DEF ManageCanceled, Managing, Save
<1>2. /\ Known(db) = Known(stored) /\ db.trade.st = stored.trade.st
      /\ OrdersFit(xo) /\ xo \in Orders /\ Fits(xo, db) /\ Fits(xo, stored) /\ db \in Databases
      /\ stored \in Databases /\ xo[o].status # "none"
  BY <1>1 DEF IInv, CommittedInv, OrdersFit, Fits, AfterExits, Known
<1>3. /\ Snap(o) \in Seen /\ Told(xo, o, Snap(o)) /\ OrdersStep(xo, xo)
      /\ Snap(o).status = xo[o].status
  BY <1>2, SnapFacts
<1>4. u \in Databases /\ u.rows = [db.rows EXCEPT ![o] = Row(Snap(o))] /\ u.trade = db.trade
  BY <1>2, <1>3, UpdateRowFacts
<1>5. Fits(xo, u)
  BY <1>1, <1>2, <1>3, FitsNewRow
<1> HIDE DEF u
<1>6. Known(u) = Known(db)
  BY <1>1, <1>2, <1>4, RowKnown
<1>7. /\ Fits(xo, h.d) /\ h.d \in Databases
      /\ ~ h.commit => Known(h.d) = Known(u) /\ h.d.trade.st = u.trade.st
  <2> HIDE DEF replacing
  <2> QED
    BY <1>1, <1>2, <1>3, <1>5, <1>6, CancelHandled
<1> HIDE DEF h
<1>8. /\ OrdersFit(xo') /\ Fits(xo', db') /\ Fits(xo', stored') /\ db' \in Databases /\ stored' \in Databases
      /\ Known(db') = Known(stored') /\ db'.trade.st = stored'.trade.st
  BY <1>1, <1>2, <1>4, <1>6, <1>7
<1>9. cancels' \subseteq Known(db') /\ \A p \in cancels' : xo'[p].side = "stoploss"
  BY <1>1 DEF Quiet
<1>10. job' \in Jobs /\ ~ job'.ready /\ ~ job'.refinding /\ job'.kind = "none"
  BY <1>1, JobFacts DEF Quiet
<1> QED
  BY <1>1, <1>8, <1>9, <1>10, CancellingKeeps

(***************************************************************************)
(* Steps that create an order and record it.                               *)
(***************************************************************************)

\* Order ids are handed out one by one.
LEMMA NextIdIsNew ==
  ASSUME OrdersFit(xo)
  PROVE  /\ NextId \in Nat \ {0}
         /\ UsedIn(xo) = 1 .. NextId - 1
         /\ NextId <= MaxOrders => NextId \in Ids /\ xo[NextId].status = "none"
<1>1. PICK n \in 0 .. MaxOrders : UsedIn(xo) = 1 .. n
  BY DEF OrdersFit
<1>2. MaxOrders \in Nat /\ n \in Nat
  BY IdsFinite
<1>3. Used = 1 .. n
  BY <1>1 DEF Used, UsedIn
<1>4. Cardinality(1 .. n) = n
  BY <1>2, FS_Interval
<1>5. NextId = n + 1
  BY <1>3, <1>4 DEF NextId
<1>6. NextId <= MaxOrders => NextId \in Ids /\ NextId \notin 1 .. n
  BY <1>2, <1>5 DEF Ids
<1>7. NextId <= MaxOrders => xo[NextId].status = "none"
  BY <1>1, <1>6 DEF UsedIn
<1> QED
  BY <1>1, <1>2, <1>5, <1>6, <1>7

LEMMA NewOrderFits ==
  ASSUME OrdersFit(xo), NextId <= MaxOrders, NEW x \in AnOrder, x.status # "none", x.filled <= x.amount,
         x.status = "open" => x.filled < x.amount,
         xo' = [xo EXCEPT ![NextId] = x]
  PROVE  /\ OrdersFit(xo') /\ OrdersStep(xo, xo') /\ xo'[NextId] = x
         /\ \A p \in Ids : p # NextId => xo'[p] = xo[p]
<1> DEFINE new == NextId
<1>1. /\ new \in Nat \ {0} /\ UsedIn(xo) = 1 .. new - 1 /\ new \in Ids /\ xo[new].status = "none"
      /\ new <= MaxOrders /\ MaxOrders \in Nat /\ xo \in Orders /\ xo' = [xo EXCEPT ![new] = x]
  BY NextIdIsNew, IdsFinite DEF OrdersFit
<1> HIDE DEF new
<1>2. xo' \in Orders
  BY <1>1 DEF Orders, AnOrder
<1>3. xo'[new] = x /\ \A p \in Ids : p # new => xo'[p] = xo[p]
  BY <1>1 DEF Orders
<1>4. UsedIn(xo') = 1 .. new
  <2>1. \A p \in Ids : xo'[p].status # "none" <=> (p = new \/ xo[p].status # "none")
    BY <1>3
  <2>2. \A p \in Ids : xo[p].status # "none" <=> p \in 1 .. new - 1
    BY <1>1 DEF UsedIn
  <2>3. \A p \in Ids : xo'[p].status # "none" <=> p \in 1 .. new
    BY <1>1, <2>1, <2>2 DEF Ids
  <2>4. 1 .. new \subseteq Ids
    BY <1>1 DEF Ids
  <2> QED
    BY <2>3, <2>4 DEF UsedIn
<1>5. \A p \in Ids : /\ xo'[p].filled <= xo'[p].amount
                     /\ xo'[p].status = "open" => xo'[p].filled < xo'[p].amount
  BY <1>3 DEF OrdersFit
<1>6. new \in 0 .. MaxOrders
  BY <1>1
<1>7. OrdersFit(xo')
  BY <1>2, <1>4, <1>5, <1>6 DEF OrdersFit
<1>8. OrdersStep(xo, xo')
  BY <1>1, <1>3 DEF OrdersStep
<1> QED
  BY <1>3, <1>7, <1>8 DEF new

\* The orders the exchange may make of what is asked for.
LEMMA NewOrderFacts ==
  ASSUME IInv, Placing
  PROVE  /\ PlacedAmount \in Nat /\ PlacedAmount > 0
         /\ \A x \in NewOrders \cup {Order("open", 0)} :
              /\ x \in AnOrder /\ x.status # "none" /\ x.filled <= x.amount
              /\ x.status = "open" => x.filled < x.amount
              /\ job.kind = "stoploss" => x.status = "open"
<1>1. /\ job \in Jobs /\ db.trade.amount \in Nat
      /\ job.kind \in ExitKinds \cup EntryKinds \cup {"stoploss"}
  BY DEF IInv, TypeOK, JobInv, Placing, Jobs, Databases
<1>2. PlacedAmount \in Nat /\ PlacedAmount > 0
  BY <1>1 DEF IInv, JobInv, Placing, PlacedAmount, Jobs
<1>3. Side(job.kind) \in Sides
  BY <1>1 DEF Side, Sides
<1> DEFINE good(x) == /\ x \in AnOrder /\ x.status # "none" /\ x.filled <= x.amount
                      /\ x.status = "open" => x.filled < x.amount
<1>4. ASSUME NEW status \in Status, NEW f \in Nat, f <= PlacedAmount, status = "open" => f < PlacedAmount
      PROVE  good(Order(status, f)) /\ Order(status, f).status = status
  <2>1. status # "none"
    BY DEF Status
  <2> HIDE DEF Status
  <2> DEFINE x == Order(status, f)
  <2>2. x = [side |-> Side(job.kind), amount |-> PlacedAmount, filled |-> f, status |-> status]
    BY DEF Order
  <2>3. x \in AnOrder /\ x.status = status /\ x.filled = f /\ x.amount = PlacedAmount
    BY <1>2, <1>3, <2>2 DEF AnOrder
  <2> HIDE DEF x
  <2> QED
    BY <1>4, <2>1, <2>3 DEF x
<1>5. good(Order("open", 0)) /\ Order("open", 0).status = "open"
  BY <1>2, <1>4 DEF Status
<1>6. good(Order("closed", PlacedAmount))
  BY <1>2, <1>4 DEF Status
<1>7. \A f \in 0 .. PlacedAmount - 1 : good(Order("expired", f))
  BY <1>2, <1>4 DEF Status
<1> HIDE DEF good
<1>8. \A x \in NewOrders \cup {Order("open", 0)} : good(x) /\ (job.kind = "stoploss" => x.status = "open")
  BY <1>5, <1>6, <1>7 DEF NewOrders
<1> QED
  BY <1>2, <1>8 DEF good

LEMMA PlaceKeeps ==
  ASSUME IInv, Place PROVE IInv'
<1>1. /\ Placing /\ NextId <= MaxOrders /\ UNCHANGED <<db, stored, pc, holder, todo, live, cancels, job, refind, crashes>>
      /\ job.ready /\ ~ job.refinding /\ cancels = {} /\ sent = NotSent
      /\ job.kind = "stoploss" => Open(db)
  BY DEF Place, Placing, loop
<1>2. PICK x \in NewOrders :
        /\ xo' = [xo EXCEPT ![NextId] = x]
        /\ sent' = [id |-> NextId, c |-> [status |-> x.status, filled |-> x.filled]]
  BY DEF Place
<1>3. /\ x \in AnOrder /\ x.status # "none" /\ x.filled <= x.amount
      /\ x.status = "open" => x.filled < x.amount
      /\ job.kind = "stoploss" => x.status = "open"
  BY <1>1, NewOrderFacts
<1>4. /\ OrdersFit(xo') /\ OrdersStep(xo, xo') /\ xo'[NextId] = x
      /\ \A p \in Ids : p # NextId => xo'[p] = xo[p]
  BY <1>1, <1>2, <1>3, NewOrderFits DEF IInv
<1>5. Fits(xo', db') /\ Fits(xo', stored')
  BY <1>1, <1>4, OrdersMove
<1>6. NextId \in Ids /\ xo[NextId].status = "none"
  BY <1>1, NextIdIsNew DEF IInv
<1>7. ~ db.rows[NextId].known /\ ~ stored.rows[NextId].known
  BY <1>6 DEF IInv, Fits
<1>8. /\ sent'.id = NextId /\ sent'.c.status = x.status /\ sent'.c.filled = x.filled
      /\ sent' \in [id : Ids \cup {0}, c : [status : Status \cup {"none"}, filled : Nat]]
  BY <1>2, <1>3, <1>6 DEF AnOrder
<1>9. job # NoJob /\ holder # "free" /\ pc # "stops"
  BY <1>1, JobFacts DEF IInv, JobInv, Quiet
<1>10. TypeOK'
  BY <1>1, <1>4, <1>8 DEF IInv, TypeOK, OrdersFit
<1>11. JobInv' /\ CommittedInv'
  BY <1>1, <1>9 DEF IInv, JobInv, CommittedInv
<1>12. CancelsInv'
  BY <1>1 DEF IInv, CancelsInv
<1>13. SentInv'
  BY <1>1, <1>3, <1>4, <1>6, <1>7, <1>8 DEF SentInv, Open
<1> QED
  BY <1>4, <1>5, <1>10, <1>11, <1>12, <1>13 DEF IInv

LEMMA PlaceFailsKeeps ==
  ASSUME IInv, PlaceFails PROVE IInv'
<1>1. /\ Placing /\ UNCHANGED <<pc, holder, todo, live, sent, refind, crashes>>
      /\ job.ready /\ ~ job.refinding /\ cancels = {} /\ sent = NotSent
      /\ xo' = xo \/ (NextId <= MaxOrders /\ xo' = [xo EXCEPT ![NextId] = Order("open", 0)])
      /\ \/ JobFails /\ UNCHANGED cancels
         \/ /\ job' = Job("emergency", 0) /\ cancels' = OpenStops(db) /\ xo' = xo
            /\ UNCHANGED <<db, stored>>
  BY DEF PlaceFails, Placing, loop, StopsToCancel
<1>2. job # NoJob /\ holder # "free" /\ pc # "stops" /\ refind = {}
  BY <1>1, JobFacts DEF IInv, JobInv, Quiet
<1>3. OrdersFit(xo') /\ OrdersStep(xo, xo')
  <2>1. CASE xo' = xo
    BY <2>1 DEF IInv, OrdersStep
  <2>2. CASE NextId <= MaxOrders /\ xo' = [xo EXCEPT ![NextId] = Order("open", 0)]
    <3> DEFINE x == Order("open", 0)
    <3>1. /\ x \in AnOrder /\ x.status # "none" /\ x.filled <= x.amount
          /\ x.status = "open" => x.filled < x.amount
      BY <1>1, NewOrderFacts
    <3>2. xo' = [xo EXCEPT ![NextId] = x] /\ OrdersFit(xo)
      BY <2>2 DEF IInv
    <3> HIDE DEF x
    <3> QED
      BY <2>2, <3>1, <3>2, NewOrderFits
  <2> QED
    BY <1>1, <2>1, <2>2
<1>4. \/ UNCHANGED <<db, stored>>
      \/ db' = stored /\ stored' = stored
      \/ db' = EmptyDb /\ stored' = EmptyDb
  BY <1>1, JobEndsFacts
<1>5. /\ Fits(xo', db') /\ Fits(xo', stored') /\ db' \in Databases /\ stored' \in Databases
      /\ \/ UNCHANGED <<db, stored>>
         \/ Known(db') = Known(stored') /\ db'.trade.st = stored'.trade.st
  <2>1. Fits(xo, EmptyDb) /\ xo \in Orders /\ xo' \in Orders
    BY <1>3, FitsEmpty DEF IInv, OrdersFit
  <2>2. Fits(xo', EmptyDb) /\ Fits(xo', db) /\ Fits(xo', stored)
    BY <1>3, <2>1, FitsFrame DEF IInv
  <2> QED
    BY <1>4, <2>2 DEF Fits
<1>6. CASE JobFails /\ UNCHANGED cancels
  <2>1. Quiet' /\ job' = NoJob
    BY <1>1, <1>2, <1>6, JobEndsFacts DEF Quiet
  <2>2. TypeOK'
    BY <1>1, <1>3, <1>5, <1>6, <2>1, JobFacts DEF IInv, TypeOK, OrdersFit, Jobs
  <2>3. JobInv'
    BY <1>1, <1>2, <2>1, JobFacts DEF IInv, JobInv, Quiet, ExitKinds, EntryKinds
  <2>4. CancelsInv' /\ SentInv'
    BY <2>1 DEF CancelsInv, SentInv, Quiet
  <2>5. CommittedInv'
    BY <1>1, <1>5 DEF IInv, CommittedInv
  <2> QED
    BY <1>3, <1>5, <2>2, <2>3, <2>4, <2>5 DEF IInv
<1>7. CASE /\ job' = Job("emergency", 0) /\ cancels' = OpenStops(db) /\ xo' = xo
           /\ UNCHANGED <<db, stored>>
  <2>1. job' \in Jobs /\ job'.kind = "emergency" /\ ~ job'.ready /\ ~ job'.refinding
    BY <1>7, JobFacts DEF Kinds, ExitKinds
  <2>2. TypeOK'
    BY <1>1, <1>3, <1>5, <1>7, <2>1, RowSets DEF IInv, TypeOK, OrdersFit, Jobs
  <2>3. JobInv'
    BY <1>1, <1>2, <2>1 DEF IInv, JobInv, Quiet, ExitKinds, EntryKinds
  <2>4. CancelsInv' /\ SentInv'
    BY <1>1, <1>2, <1>7, RowSets DEF CancelsInv, SentInv
  <2>5. CommittedInv'
    BY <1>1, <1>7 DEF IInv, CommittedInv
  <2> QED
    BY <1>3, <1>5, <2>2, <2>3, <2>4, <2>5 DEF IInv
<1> QED
  BY <1>1, <1>6, <1>7

\* The answer waiting to be recorded.
LEMMA SentFacts ==
  ASSUME IInv, sent # NotSent
  PROVE  /\ sent.id \in Ids /\ sent.c \in Seen /\ ~ db.rows[sent.id].known
         /\ xo[sent.id].status # "none" /\ Told(xo, sent.id, sent.c)
         /\ OrdersStep(xo, xo) /\ OrdersFit(xo) /\ xo \in Orders /\ Fits(xo, db) /\ db \in Databases
         /\ job.ready /\ ~ job.refinding /\ cancels = {} /\ refind = {}
         /\ holder # "free" /\ pc # "stops"
<1>1. sent.id \in Ids /\ sent.c \in Seen /\ ~ db.rows[sent.id].known /\ xo[sent.id].status # "none"
  BY DEF IInv, TypeOK, SentInv, Seen
<1>2. Told(xo, sent.id, sent.c) /\ OrdersStep(xo, xo)
  BY <1>1 DEF IInv, SentInv, Told, OrdersStep
<1>3. job.ready /\ ~ job.refinding /\ cancels = {} /\ refind = {} /\ holder # "free" /\ pc # "stops"
  BY DEF IInv, JobInv, SentInv, Quiet
<1> QED
  BY <1>1, <1>2, <1>3 DEF IInv, OrdersFit, Fits

\* What is left to show of a step that records an order.
LEMMA RecordingKeeps ==
  ASSUME IInv, sent # NotSent, Fits(xo, db'), Fits(xo, stored'), CommittedInv',
         job' = NoJob, sent' = NotSent,
         cancels' \subseteq Known(db'), \A p \in cancels' : xo[p].side = "stoploss",
         UNCHANGED <<xo, loop, refind, crashes>>
  PROVE  IInv'
<1>1. NotSent \in [id : Ids \cup {0}, c : [status : Status \cup {"none"}, filled : Nat]]
  BY DEF NotSent
<1>2. refind = {} /\ holder # "free" /\ pc # "stops"
  BY SentFacts
<1>3. TypeOK'
  BY <1>1, JobFacts, RowSets DEF IInv, TypeOK, Fits, Jobs, loop
<1>4. JobInv'
  BY <1>2, JobFacts DEF IInv, JobInv, loop, ExitKinds, EntryKinds
<1>5. CancelsInv' /\ SentInv'
  BY <1>2 DEF CancelsInv, SentInv
<1> QED
  BY <1>3, <1>4, <1>5 DEF IInv

LEMMA RecordStopKeeps ==
  ASSUME IInv, RecordStop PROVE IInv'
<1>1. /\ sent # NotSent /\ job.kind = "stoploss" /\ job' = NoJob /\ sent' = NotSent
      /\ db' = UpdateRow(db, sent.id, sent.c) /\ stored' = stored
      /\ UNCHANGED <<xo, loop, cancels, refind, crashes>>
  BY DEF RecordStop, Save
<1>2. sent.c.status = "open" /\ holder = "main" /\ pc = "signal"
  BY <1>1 DEF IInv, JobInv, SentInv
<1>3. Fits(xo, db')
  BY <1>1, <1>2, SentFacts, FitsNewRow
<1>4. CommittedInv'
  BY <1>1, <1>2 DEF CommittedInv, loop
<1>5. cancels' = {}
  BY <1>1, SentFacts
<1> QED
  BY <1>1, <1>3, <1>4, <1>5, RecordingKeeps DEF IInv

LEMMA RecordExitKeeps ==
  ASSUME IInv, RecordExit PROVE IInv'
<1>1. /\ sent # NotSent /\ job' = NoJob /\ sent' = NotSent
      /\ db' = (IF sent.c.status = "open" THEN UpdateRow(db, sent.id, sent.c)
                ELSE UpdateTradeState(db, sent.id, sent.c))
      /\ stored' = db'
      /\ UNCHANGED <<xo, loop, cancels, refind, crashes>>
  BY DEF RecordExit, Save
<1>2. Fits(xo, db')
  <2>1. CASE sent.c.status = "open"
    BY <1>1, <2>1, SentFacts, FitsNewRow
  <2>2. CASE sent.c.status # "open"
    BY <1>1, <2>2, SentFacts, FitsState
  <2> QED
    BY <2>1, <2>2
<1>3. CommittedInv'
  BY <1>1 DEF CommittedInv
<1>4. cancels' = {}
  BY <1>1, SentFacts
<1> QED
  BY <1>1, <1>2, <1>3, <1>4, RecordingKeeps

\* The trade with the row of its new entry.
LEMMA EntryRecordedFits ==
  ASSUME IInv, sent # NotSent
  PROVE  /\ EntryRecorded \in Databases /\ Fits(xo, EntryRecorded)
         /\ EntryRecorded.rows = [db.rows EXCEPT ![sent.id] = Row(sent.c)]
<1> DEFINE u == UpdateRow(db, sent.id, sent.c)
           opened == [u EXCEPT !.trade.st = "open"]
           d == Recalc(opened)
<1>1. /\ sent.id \in Ids /\ sent.c \in Seen /\ ~ db.rows[sent.id].known
      /\ xo[sent.id].status # "none" /\ Told(xo, sent.id, sent.c)
      /\ OrdersStep(xo, xo) /\ OrdersFit(xo) /\ xo \in Orders /\ Fits(xo, db) /\ db \in Databases
  BY SentFacts
<1>2. d = EntryRecorded
  BY DEF EntryRecorded
<1>3. u \in Databases /\ u.rows = [db.rows EXCEPT ![sent.id] = Row(sent.c)]
  BY <1>1, UpdateRowFacts
<1>4. opened \in Databases /\ opened.rows = u.rows
  <2> HIDE DEF u
  <2> QED
    BY <1>3 DEF Databases
<1> HIDE DEF u, opened
<1>5. d \in Databases /\ d.rows = [db.rows EXCEPT ![sent.id] = Row(sent.c)] /\ NetHeld(xo, d)
  BY <1>1, <1>3, <1>4, RecalcFacts
<1> HIDE DEF d
<1>6. Fits(xo, d)
  BY <1>1, <1>5, FitsRow
<1> QED
  BY <1>2, <1>5, <1>6

LEMMA RecordEntryKeeps ==
  ASSUME IInv, RecordEntry PROVE IInv'
<1>1. sent # NotSent /\ sent' = NotSent /\ UNCHANGED <<xo, loop, refind, crashes>>
  BY DEF RecordEntry
<1>2. CASE CanceledEmpty(sent.c)
  <2>1. JobFails /\ UNCHANGED cancels
    BY <1>2 DEF RecordEntry
  <2>2. Quiet' /\ pc # "stops"
    BY <1>1, <2>1, SentFacts, JobEndsFacts DEF Quiet
  <2> QED
    BY <1>1, <2>1, <2>2, JobEndsFacts, JobOver
<1>3. CASE ~ CanceledEmpty(sent.c)
  <2> DEFINE d == EntryRecorded
             e == UpdateTradeState(d, sent.id, sent.c)
  <2>1. /\ db' = (IF sent.c.status = "open" THEN d ELSE e) /\ stored' = db'
        /\ cancels' = StopsAfterFill(d, sent.id, sent.c) /\ job' = NoJob
    BY <1>3 DEF RecordEntry, Save
  <2>2. /\ sent.id \in Ids /\ sent.c \in Seen /\ ~ db.rows[sent.id].known
        /\ xo[sent.id].status # "none" /\ Told(xo, sent.id, sent.c)
        /\ OrdersStep(xo, xo) /\ OrdersFit(xo) /\ xo \in Orders /\ Fits(xo, db) /\ db \in Databases
    BY <1>1, SentFacts
  <2>3. d \in Databases /\ d.rows = [db.rows EXCEPT ![sent.id] = Row(sent.c)] /\ Fits(xo, d)
    BY <1>1, EntryRecordedFits
  <2> HIDE DEF d
  <2>5. sent.c.status # "open" => Fits(xo, e)
    BY <2>2, <2>3, FitsState
  <2>6. sent.id \in Known(d)
    BY <2>2, <2>3 DEF Known, Row, Databases
  <2>7. sent.c.status # "open" => Known(e) = Known(d)
    <3>1. e.rows = [d.rows EXCEPT ![sent.id] = Row(sent.c)]
      BY <2>2, <2>3, UpdateStateFacts
    <3> HIDE DEF e
    <3> QED
      BY <2>3, <2>6, <3>1, RowKnown
  <2> HIDE DEF e
  <2>8. Fits(xo, db') /\ Fits(xo, stored') /\ CommittedInv'
    BY <2>1, <2>3, <2>5 DEF CommittedInv
  <2>9. cancels' \subseteq Known(db') /\ \A p \in cancels' : xo[p].side = "stoploss"
    BY <2>1, <2>7, StopsAfterFillFacts
  <2> QED
    BY <1>1, <2>1, <2>8, <2>9, RecordingKeeps
<1> QED
  BY <1>2, <1>3

(***************************************************************************)
(* Steps that reload the trade from the exchange's list.                   *)
(***************************************************************************)

\* The recursion of handle_onexchange_order is defined: the database after the
\* first n orders comes from the one after the first n - 1.
LEMMA ReloadedIs ==
  \A n \in 0 .. MaxOrders :
    Reloaded[n] = IF n = 0 THEN {db}
                  ELSE IF n \in Listed THEN {RecoverOrder(d, n) : d \in Reloaded[n - 1]}
                  ELSE Reloaded[n - 1]
<1> DEFINE body(g, n) == IF n = 0 THEN {db}
                         ELSE IF n \in Listed THEN {RecoverOrder(d, n) : d \in g[n - 1]}
                         ELSE g[n - 1]
           made(k) == \E g : g = [n \in 0 .. k |-> body(g, n)]
<1>1. \A k \in Nat : made(k)
  <2> SUFFICES ASSUME {k \in Nat : ~ made(k)} # {} PROVE FALSE
    OBVIOUS
  <2> HIDE DEF made
  <2>1. PICK k \in Nat : ~ made(k) /\ \A m \in Nat : ~ made(m) => k <= m
    BY SmallestOf
  <2>2. CASE k = 0
    <3> DEFINE g == [n \in 0 .. 0 |-> {db}]
    <3>1. g = [n \in 0 .. 0 |-> body(g, n)]
      OBVIOUS
    <3> QED
      BY <2>1, <2>2, <3>1 DEF made
  <2>3. CASE k # 0
    <3>1. k - 1 \in Nat /\ made(k - 1)
      BY <2>1, <2>3
    <3>2. PICK g : g = [n \in 0 .. k - 1 |-> body(g, n)]
      BY <3>1 DEF made
    <3> DEFINE h == [n \in 0 .. k |-> body(g, n)]
    <3> HIDE DEF body
    <3>3. \A n \in 0 .. k - 1 : g[n] = h[n]
      BY <2>1, <3>2
    <3>4. \A n \in 0 .. k : body(g, n) = body(h, n)
      <4> SUFFICES ASSUME NEW n \in 0 .. k PROVE body(g, n) = body(h, n)
        OBVIOUS
      <4> HIDE DEF h
      <4>1. n # 0 => n - 1 \in 0 .. k - 1
        BY <2>1
      <4>2. n # 0 => g[n - 1] = h[n - 1]
        BY <3>3, <4>1
      <4> QED
        BY <4>2 DEF body
    <3>5. h = [n \in 0 .. k |-> body(h, n)]
      BY <3>4
    <3> HIDE DEF h
    <3> QED
      BY <2>1, <3>5 DEF made
  <2> QED
    BY <2>2, <2>3
<1>2. MaxOrders \in Nat
  BY IdsFinite
<1>3. made(MaxOrders)
  <2> HIDE DEF made
  <2> QED
    BY <1>1, <1>2
<1> DEFINE is(g) == g = [n \in 0 .. MaxOrders |-> body(g, n)]
<1>4. \E g : is(g)
  BY <1>3
<1>5. is(Reloaded)
  <2>1. is(CHOOSE g : is(g))
    <3> HIDE DEF is
    <3> QED
      BY <1>4, Zenon
  <2>2. Reloaded = CHOOSE g : is(g)
    BY Zenon DEF Reloaded
  <2> HIDE DEF is
  <2> QED
    BY <2>1, <2>2, Zenon
<1> QED
  BY <1>5

LEMMA RecoverOrderFits ==
  ASSUME OrdersFit(xo), NEW d, Fits(xo, d), NEW o \in Ids, xo[o].status # "none"
  PROVE  Fits(xo, RecoverOrder(d, o)) /\ Known(d) \subseteq Known(RecoverOrder(d, o))
<1> DEFINE c == Snap(o)
           u == UpdateRow(d, o, c)
           e == RecoverOrder(d, o)
<1>1. d \in Databases /\ xo \in Orders
  BY DEF OrdersFit, Fits
<1>2. c \in Seen /\ Told(xo, o, c) /\ OrdersStep(xo, xo) /\ c.status = xo[o].status
  BY SnapFacts
<1> HIDE DEF c
<1>3. u \in Databases /\ u.rows = [d.rows EXCEPT ![o] = Row(c)] /\ u.trade = d.trade
  BY <1>1, <1>2, UpdateRowFacts
<1>4. u.rows[o] = Row(c) /\ (u.rows[o].open <=> c.status = "open") /\ \A p \in Ids : p # o => u.rows[p] = d.rows[p]
  BY <1>1, <1>3 DEF Databases, Row
<1>5. e = IF CanceledEmpty(c) THEN u ELSE UpdateTrade(u, o, ClosesExactly(u, o))
  BY DEF RecoverOrder, c
<1> HIDE DEF u, e
<1>6. /\ e \in Databases /\ e.rows = u.rows
      /\ \/ (CanceledEmpty(c) \/ c.status = "open") /\ e.trade = d.trade
         \/ NetHeld(xo, e)
  <2>1. CASE CanceledEmpty(c)
    BY <1>3, <1>5, <2>1
  <2>2. CASE ~ CanceledEmpty(c)
    <3> DEFINE closes == ClosesExactly(u, o)
    <3>1. closes \in BOOLEAN /\ e = UpdateTrade(u, o, closes)
      BY <1>5, <2>2 DEF ClosesExactly
    <3> HIDE DEF closes
    <3>2. /\ e \in Databases /\ e.rows = u.rows
          /\ u.rows[o].open => e = u
          /\ ~ u.rows[o].open => NetHeld(xo, e)
      BY <1>1, <1>3, <3>1, UpdateTradeFacts
    <3> QED
      BY <1>3, <1>4, <3>2
  <2> QED
    BY <2>1, <2>2
<1>7. Fits(xo, e)
  BY <1>1, <1>2, <1>3, <1>6, FitsRow
<1>8. Known(d) \subseteq Known(e)
  <2>1. Row(c).known
    BY DEF Row
  <2> QED
    BY <1>4, <1>6, <2>1 DEF Known
<1> QED
  BY <1>7, <1>8 DEF e

LEMMA ReloadedFits ==
  ASSUME IInv
  PROVE  \A n \in 0 .. MaxOrders : \A d \in Reloaded[n] : Fits(xo, d)
<1> DEFINE fit(n) == \A d \in Reloaded[n] : Fits(xo, d)
<1> SUFFICES ASSUME {n \in 0 .. MaxOrders : ~ fit(n)} # {} PROVE FALSE
  OBVIOUS
<1> HIDE DEF fit
<1>1. MaxOrders \in Nat
  BY IdsFinite
<1>2. PICK n \in 0 .. MaxOrders : ~ fit(n) /\ \A m \in 0 .. MaxOrders : ~ fit(m) => n <= m
  <2>1. {n \in 0 .. MaxOrders : ~ fit(n)} \in SUBSET Nat
    BY <1>1
  <2> QED
    BY <2>1, SmallestOf
<1>3. Reloaded[n] = IF n = 0 THEN {db}
                    ELSE IF n \in Listed THEN {RecoverOrder(d, n) : d \in Reloaded[n - 1]}
                    ELSE Reloaded[n - 1]
  BY ReloadedIs
<1>4. CASE n = 0
  BY <1>2, <1>3, <1>4 DEF fit, IInv
<1>5. CASE n # 0
  <2>1. n - 1 \in 0 .. MaxOrders /\ fit(n - 1)
    BY <1>1, <1>2, <1>5
  <2>2. CASE n \in Listed
    <3>1. n \in Ids /\ xo[n].status # "none" /\ OrdersFit(xo)
      BY <2>2 DEF Listed, Used, IInv
    <3>2. \A d \in Reloaded[n - 1] : Fits(xo, RecoverOrder(d, n))
      BY <2>1, <3>1, RecoverOrderFits DEF fit
    <3> QED
      BY <1>2, <1>3, <1>5, <2>2, <3>2 DEF fit
  <2>3. CASE n \notin Listed
    BY <1>2, <1>3, <1>5, <2>1, <2>3 DEF fit
  <2> QED
    BY <2>2, <2>3
<1> QED
  BY <1>4, <1>5

\* The orders after a reload: some stoploss orders are taken for exits.
LEMMA TakenFacts ==
  ASSUME IInv
  PROVE  LET y == TakenForExit
         IN  /\ OrdersFit(y) /\ OrdersStep(xo, y) /\ UsedIn(y) = UsedIn(xo)
             /\ \A o \in Ids : /\ y[o].filled = xo[o].filled
                               /\ y[o].side = "entry" <=> xo[o].side = "entry"
                               /\ o \in Known(db) => y[o].side = xo[o].side
<1> DEFINE y == TakenForExit
<1>1. xo \in Orders /\ OrdersFit(xo)
  BY DEF IInv, OrdersFit
<1>2. \A o \in Ids : \/ y[o] = xo[o]
                     \/ /\ o \notin Known(db) /\ xo[o].side = "stoploss"
                        /\ y[o] = [xo[o] EXCEPT !.side = "exit"]
  BY DEF TakenForExit
<1>3. y = [o \in Ids |-> y[o]]
  BY DEF TakenForExit
<1> HIDE DEF y
<1>4. \A o \in Ids : /\ y[o] \in AnOrder /\ y[o].amount = xo[o].amount /\ y[o].filled = xo[o].filled
                     /\ y[o].status = xo[o].status /\ Sign(y[o].side) = Sign(xo[o].side)
                     /\ y[o].side = "entry" <=> xo[o].side = "entry"
                     /\ o \in Known(db) => y[o].side = xo[o].side
  <2> SUFFICES ASSUME NEW o \in Ids
               PROVE  /\ y[o] \in AnOrder /\ y[o].amount = xo[o].amount /\ y[o].filled = xo[o].filled
                      /\ y[o].status = xo[o].status /\ Sign(y[o].side) = Sign(xo[o].side)
                      /\ y[o].side = "entry" <=> xo[o].side = "entry"
                      /\ o \in Known(db) => y[o].side = xo[o].side
    OBVIOUS
  <2>1. xo[o] \in AnOrder
    BY <1>1 DEF Orders, AnOrder
  <2>2. CASE y[o] = xo[o]
    BY <2>1, <2>2
  <2>3. CASE /\ o \notin Known(db) /\ xo[o].side = "stoploss"
             /\ y[o] = [xo[o] EXCEPT !.side = "exit"]
    BY <2>1, <2>3 DEF AnOrder, Sides, Sign
  <2> QED
    BY <1>2, <2>2, <2>3
<1>5. y \in Orders
  BY <1>3, <1>4 DEF Orders, AnOrder
<1>6. UsedIn(y) = UsedIn(xo)
  BY <1>4 DEF UsedIn
<1>7. OrdersFit(y)
  BY <1>1, <1>4, <1>5, <1>6 DEF OrdersFit
<1>8. OrdersStep(xo, y)
  BY <1>4 DEF OrdersStep
<1> QED
  BY <1>4, <1>6, <1>7, <1>8 DEF y

LEMMA RecoveredFacts ==
  ASSUME IInv, NEW d \in Recovered, xo' = TakenForExit, Save(d, TRUE), cancels' = StopsOfOtherAmount(d)
  PROVE  /\ OrdersFit(xo') /\ Fits(xo', db') /\ Fits(xo', stored')
         /\ db' = d /\ stored' = d /\ d \in Databases
         /\ cancels' \subseteq Known(d) /\ \A o \in cancels' : xo'[o].side = "stoploss"
<1>1. xo \in Orders /\ MaxOrders \in Nat
  BY IdsFinite DEF IInv, OrdersFit
<1>2. Fits(xo, d)
  <2>1. MaxOrders \in 0 .. MaxOrders
    BY <1>1
  <2>2. \A e \in Reloaded[MaxOrders] : Fits(xo, e)
    BY <2>1, ReloadedFits
  <2>3. d = EmptyDb \/ d \in Reloaded[MaxOrders]
    BY DEF Recovered
  <2> QED
    BY <1>1, <2>2, <2>3, FitsEmpty
<1>3. /\ OrdersFit(xo') /\ xo' \in Orders /\ OrdersStep(xo, xo')
      /\ \A o \in Known(db) : xo'[o].side = xo[o].side
  BY TakenFacts DEF OrdersFit, Known
<1>4. Fits(xo', d)
  BY <1>1, <1>2, <1>3, FitsFrame
<1>5. cancels' \subseteq Known(d) /\ \A o \in cancels' : o \in Known(db) /\ xo[o].side = "stoploss"
  BY RowSets DEF StopsOfOtherAmount
<1>6. \A o \in cancels' : xo'[o].side = "stoploss"
  BY <1>3, <1>5
<1> QED
  BY <1>3, <1>4, <1>5, <1>6 DEF Save, Fits

LEMMA RecoverKeeps ==
  ASSUME IInv, Recover PROVE IInv'
<1>1. /\ holder = "main" /\ pc = "recover" /\ Quiet
      /\ UNCHANGED <<holder, live, job, sent, refind, crashes>>
  BY DEF Recover
<1>2. PICK d \in Recovered :
        /\ xo' = TakenForExit /\ Save(d, TRUE) /\ cancels' = StopsOfOtherAmount(d)
        /\ IF Known(d) = {} THEN pc' = AfterExits /\ UNCHANGED todo ELSE ToTrade(d)
  BY DEF Recover
<1>3. /\ OrdersFit(xo') /\ Fits(xo', db') /\ Fits(xo', stored')
      /\ db' = d /\ stored' = d /\ d \in Databases
      /\ cancels' \subseteq Known(d) /\ \A o \in cancels' : xo'[o].side = "stoploss"
  BY <1>2, RecoveredFacts
<1>4. /\ pc' \in {AfterExits, "stops", "signal"} /\ todo' \subseteq Ids
      /\ pc' = "stops" => todo' \subseteq Known(d)
      /\ AfterExits \in Sections /\ AfterExits # "stops"
  <2>1. AfterExits \in Sections /\ AfterExits # "stops"
    BY DEF AfterExits, Sections
  <2>2. todo \subseteq Ids
    BY DEF IInv, TypeOK
  <2> QED
    BY <1>2, <2>1, <2>2, RowSets DEF ToTrade
<1>5. TypeOK'
  BY <1>1, <1>3, <1>4, RowSets DEF IInv, TypeOK, OrdersFit
<1>6. JobInv' /\ SentInv'
  BY <1>1, <1>3, <1>4, JobFacts DEF JobInv, SentInv, Quiet, ExitKinds, EntryKinds
<1>7. CancelsInv' /\ CommittedInv'
  BY <1>1, <1>3 DEF CancelsInv, CommittedInv, Quiet
<1> QED
  BY <1>3, <1>5, <1>6, <1>7 DEF IInv

LEMMA RpcReloadKeeps ==
  ASSUME IInv, RpcReload PROVE IInv'
<1>1. /\ holder = "free" /\ pc \in Sections /\ Quiet /\ holder' = "rpc"
      /\ UNCHANGED <<pc, todo, live, job, sent, refind, crashes>>
  BY DEF RpcReload, IInv, JobInv
<1>2. PICK d \in Recovered :
        xo' = TakenForExit /\ Save(d, TRUE) /\ cancels' = StopsOfOtherAmount(d)
  BY DEF RpcReload
<1>3. /\ OrdersFit(xo') /\ Fits(xo', db') /\ Fits(xo', stored')
      /\ db' = d /\ stored' = d /\ d \in Databases
      /\ cancels' \subseteq Known(d) /\ \A o \in cancels' : xo'[o].side = "stoploss"
  BY <1>2, RecoveredFacts
<1>4. TypeOK'
  BY <1>1, <1>3, RowSets DEF IInv, TypeOK, OrdersFit
<1>5. JobInv' /\ SentInv'
  BY <1>1, <1>3, JobFacts DEF JobInv, SentInv, Quiet, ExitKinds, EntryKinds, Sections
<1>6. CancelsInv' /\ CommittedInv'
  BY <1>1, <1>3 DEF CancelsInv, CommittedInv, Quiet
<1> QED
  BY <1>3, <1>4, <1>5, <1>6 DEF IInv

(***************************************************************************)
(* The process dies between the commit of a row and that of the trade.     *)
(***************************************************************************)

\* Orders that are visited are rows, and are not stoploss orders unless they
\* are to be fetched.
LEMMA VisitedIsKnown ==
  ASSUME IInv, NEW o \in Ids, Visited(o)
  PROVE  o \in Known(db)
BY DEF Visited, IInv, CancelsInv

\* The row of an order that is known already.
LEMMA RowKept ==
  ASSUME IInv, Crashes # 0, NEW o \in Known(db), NEW c \in Seen, NEW y \in Orders, OrdersStep(xo, y),
         Told(y, o, c), c.status = "open" => xo[o].status = "open"
  PROVE  Fits(y, UpdateRow(db, o, c))
<1>1. OrdersFit(xo) /\ Fits(xo, db) /\ o \in Ids /\ xo[o].status # "none"
  BY DEF IInv, Fits, Known
<1> QED
  BY <1>1, FitsNewRow

LEMMA CrashInUpdateKeeps ==
  ASSUME IInv, NEW o \in Ids, CrashInUpdate(o) PROVE IInv'
<1>1. Dies /\ stored' = db' /\ OrdersFit(xo) /\ xo \in Orders /\ Fits(xo, db)
  BY DEF CrashInUpdate, IInv, OrdersFit
<1>2. Crashes # 0
  BY <1>1, TradeOrdersAssumption DEF Dies, IInv, TypeOK
<1>3. CASE /\ Visited(o) /\ db' = UpdateRow(db, o, Snap(o)) /\ UNCHANGED xo
  <2>1. /\ Snap(o) \in Seen /\ Told(xo, o, Snap(o)) /\ OrdersStep(xo, xo)
        /\ Snap(o).status = xo[o].status
    BY <1>1, SnapFacts
  <2>2. Fits(xo, db')
    BY <1>1, <1>2, <1>3, <2>1, VisitedIsKnown, RowKept
  <2> QED
    BY <1>1, <1>3, <2>2, DiesKeeps
<1>4. CASE /\ o \in cancels /\ xo[o].status = "open"
           /\ \E r \in CancelResults(o) :
                db' = UpdateRow(db, o, r.c) /\ xo' = [xo EXCEPT ![o] = r.to]
  <2>1. PICK r \in CancelResults(o) : db' = UpdateRow(db, o, r.c) /\ xo' = [xo EXCEPT ![o] = r.to]
    BY <1>4
  <2>2. /\ xo' \in Orders /\ OrdersFit(xo') /\ OrdersStep(xo, xo') /\ r.c \in Seen /\ Told(xo', o, r.c)
    BY <1>1, <1>4, <2>1, CancelResultsFacts
  <2>3. o \in Known(db)
    BY <1>4 DEF IInv, CancelsInv
  <2>4. Fits(xo', db')
    BY <1>2, <1>4, <2>1, <2>2, <2>3, RowKept
  <2> QED
    BY <1>1, <2>2, <2>4, DiesKeeps
<1>5. CASE /\ o = sent.id /\ UNCHANGED xo
           /\ db' = UpdateRow(db, o, sent.c) \/ db' = EntryRecorded
  <2>1. sent # NotSent
    BY <1>5, IdsFinite DEF NotSent
  <2>2. /\ sent.c \in Seen /\ ~ db.rows[o].known /\ xo[o].status # "none" /\ Told(xo, o, sent.c)
        /\ OrdersStep(xo, xo)
    BY <1>5, <2>1, SentFacts
  <2>3. Fits(xo, UpdateRow(db, o, sent.c))
    BY <1>1, <1>2, <2>2, FitsNewRow
  <2>4. Fits(xo, EntryRecorded)
    BY <2>1, EntryRecordedFits
  <2> QED
    BY <1>1, <1>5, <2>3, <2>4, DiesKeeps
<1>6. CASE /\ "unknown" \in Answers /\ Quiet /\ o \in todo /\ db.rows[o].filled > 0
           /\ db' = UpdateRow(db, o, Assumed(o)) /\ UNCHANGED xo
  <2>1. ~ AnswersAreTrue
    BY <1>6 DEF AnswersAreTrue
  <2>2. o \in Known(db)
    BY <1>1, <1>6 DEF Fits, Known
  <2> DEFINE s == Assumed(o)
  <2>3. s \in Seen /\ s.status = "canceled" /\ s.filled <= xo[o].amount
    BY <2>2, AssumedFacts
  <2> HIDE DEF s
  <2>4. Told(xo, o, s) /\ OrdersStep(xo, xo)
    BY <2>1, <2>3 DEF Told, OrdersStep
  <2>5. Fits(xo, UpdateRow(db, o, s))
    BY <1>1, <1>2, <2>2, <2>3, <2>4, RowKept
  <2> QED
    BY <1>1, <1>6, <2>5, DiesKeeps DEF s
<1> QED
  BY <1>3, <1>4, <1>5, <1>6 DEF CrashInUpdate

LEMMA CrashInRecoveryKeeps ==
  ASSUME IInv, CrashInRecovery PROVE IInv'
<1>1. Dies /\ stored' = db' /\ xo' = TakenForExit /\ OrdersFit(xo) /\ xo \in Orders
  BY DEF CrashInRecovery, IInv, OrdersFit
<1>2. Crashes # 0 /\ MaxOrders \in Nat
  BY <1>1, TradeOrdersAssumption DEF Dies, IInv, TypeOK
<1>3. PICK n \in Listed :
        \E d \in Reloaded[n - 1] : db' \in {UpdateRow(d, n, Snap(n)), RecoverOrder(d, n)}
  BY DEF CrashInRecovery
<1>4. PICK d \in Reloaded[n - 1] : db' \in {UpdateRow(d, n, Snap(n)), RecoverOrder(d, n)}
  BY <1>3
<1>5. n \in Ids /\ n - 1 \in 0 .. MaxOrders /\ xo[n].status # "none"
  BY <1>2 DEF Listed, Used, Ids
<1>6. Fits(xo, d)
  BY <1>5, ReloadedFits
<1>7. /\ Snap(n) \in Seen /\ Told(xo, n, Snap(n)) /\ OrdersStep(xo, xo)
      /\ Snap(n).status = xo[n].status
  BY <1>1, <1>5, SnapFacts
<1>8. Fits(xo, UpdateRow(d, n, Snap(n)))
  BY <1>1, <1>2, <1>5, <1>6, <1>7, FitsNewRow
<1>9. Fits(xo, RecoverOrder(d, n))
  BY <1>1, <1>5, <1>6, RecoverOrderFits
<1>10. OrdersFit(xo') /\ xo' \in Orders /\ OrdersStep(xo, xo')
  BY <1>1, TakenFacts DEF OrdersFit
<1>11. Fits(xo, db')
  BY <1>4, <1>8, <1>9
<1>12. Fits(xo', db')
  BY <1>1, <1>10, <1>11, FitsFrame
<1> QED
  BY <1>1, <1>10, <1>12, DiesKeeps

(***************************************************************************)
(* The invariant is inductive, and what it gives.                          *)
(***************************************************************************)

LEMMA InitIInv == Init => IInv
<1> SUFFICES ASSUME Init PROVE IInv
  OBVIOUS
<1>1. MaxOrders \in Nat /\ Crashes \in Nat
  BY TradeOrdersAssumption
<1>2. xo \in Orders /\ \A o \in Ids : xo[o] = NoOrder
  BY DEF Init, Orders, NoOrder
<1>3. UsedIn(xo) = 1 .. 0
  BY <1>2 DEF UsedIn, NoOrder
<1>4. OrdersFit(xo)
  BY <1>1, <1>2, <1>3 DEF OrdersFit, NoOrder
<1>5. Fits(xo, db) /\ Fits(xo, stored) /\ db \in Databases /\ stored \in Databases
  BY <1>2, FitsEmpty, EmptyFacts DEF Init
<1>6. NotSent \in [id : Ids \cup {0}, c : [status : Status \cup {"none"}, filled : Nat]]
  BY DEF NotSent
<1>7. TypeOK
  BY <1>1, <1>2, <1>5, <1>6, JobFacts DEF Init, TypeOK, Jobs
<1>8. JobInv /\ CancelsInv /\ SentInv /\ CommittedInv
  BY JobFacts DEF Init, JobInv, CancelsInv, SentInv, CommittedInv, Quiet, ExitKinds, EntryKinds
<1> QED
  BY <1>4, <1>5, <1>7, <1>8 DEF IInv

LEMMA HandlerKeeps ==
  ASSUME IInv, Handler PROVE IInv'
<1>1. ASSUME NEW o \in Ids,
             CancelStop(o) \/ CancelOrder(o) \/ DeleteCancels(o) \/ Refind(o) \/ RpcVisits(o)
      PROVE  IInv'
  BY <1>1, CancelStopKeeps, CancelOrderKeeps, DeleteCancelsKeeps, RefindKeeps, RpcVisitsKeeps
<1>2. CASE RpcVisitFails
  BY <1>2, RpcVisitFailsKeeps
<1>3. CASE CancelError
  BY <1>3, CancelErrorKeeps
<1>4. CASE JobReady
  BY <1>4, JobReadyKeeps
<1>5. CASE JobRefused \/ JobDropped
  BY <1>5, JobRefusedKeeps, JobDroppedKeeps
<1>6. CASE Place \/ PlaceFails
  BY <1>6, PlaceKeeps, PlaceFailsKeeps
<1>7. CASE PlaceUncovered \/ RefindError \/ RefindDone
  BY <1>7, PlaceUncoveredKeeps, RefindErrorKeeps, RefindDoneKeeps
<1>8. CASE StopDropped
  BY <1>8, StopDroppedKeeps
<1>9. CASE RecordEntry \/ RecordExit \/ RecordStop
  BY <1>9, RecordEntryKeeps, RecordExitKeeps, RecordStopKeeps
<1>10. CASE ForceExitGoesOn
  BY <1>10, ForceExitGoesOnKeeps
<1>11. CASE DeleteTrade
  BY <1>11, DeleteTradeKeeps
<1> QED
  BY <1>1, <1>2, <1>3, <1>4, <1>5, <1>6, <1>7, <1>8, <1>9, <1>10, <1>11 DEF Handler

LEMMA MainThreadKeeps ==
  ASSUME IInv, MainThread PROVE IInv'
<1>1. CASE AssignFees \/ Acquire \/ Release
  BY <1>1, AssignFeesKeeps, AcquireKeeps, ReleaseKeeps
<1>2. ASSUME NEW o \in Ids, ManageSkip(o) \/ ManageUpdate(o) \/ ManageCanceled(o) PROVE IInv'
  BY <1>2, ManageSkipKeeps, ManageUpdateKeeps, ManageCanceledKeeps
<1>3. ASSUME NEW o \in Ids, NEW why \in {"timeout", "drop", "replace"}, ManageCancel(o, why) PROVE IInv'
  BY <1>3, ManageCancelKeeps
<1>4. CASE AbortIteration \/ ManageDone
  BY <1>4, AbortIterationKeeps, ManageDoneKeeps
<1>5. CASE Recover \/ RecoverFails
  BY <1>5, RecoverKeeps, RecoverFailsKeeps
<1>6. ASSUME NEW o \in Ids, StopFetched(o) \/ StopNotFetched(o) PROVE IInv'
  BY <1>6, StopFetchedKeeps, StopNotFetchedKeeps
<1>7. CASE StopDecided \/ ExitSignal
  BY <1>7, StopDecidedKeeps, ExitSignalKeeps
<1>8. CASE AdjustPosition \/ EnterTrade
  BY <1>8, AdjustPositionKeeps, EnterTradeKeeps
<1>9. CASE Start \/ StartupDone
  BY <1>9, StartKeeps, StartupDoneKeeps
<1>10. ASSUME NEW o \in Ids, StartupUpdate(o) \/ StartupSkip(o) \/ StartupUnknown(o) PROVE IInv'
  BY <1>10, StartupUpdateKeeps, StartupSkipKeeps, StartupUnknownKeeps
<1> QED
  BY <1>1, <1>2, <1>3, <1>4, <1>5, <1>6, <1>7, <1>8, <1>9, <1>10 DEF MainThread

LEMMA StutterKeeps ==
  ASSUME IInv, UNCHANGED vars PROVE IInv'
<1>1. UNCHANGED <<xo, db, stored, loop, handler, crashes>>
  BY DEF vars
<1>2. OrdersStep(xo, xo') /\ \A o \in Ids : xo'[o].side = xo[o].side
  BY <1>1 DEF OrdersStep
<1> QED
  BY <1>1, <1>2, OrdersMoveKeeps DEF IInv

LEMMA NextKeeps ==
  ASSUME IInv, [Next]_vars PROVE IInv'
<1>1. CASE Exchange
  BY <1>1, ExchangeFillsKeeps, ExchangeCancelsKeeps DEF Exchange
<1>2. CASE Handler
  BY <1>2, HandlerKeeps
<1>3. CASE MainThread
  BY <1>3, MainThreadKeeps
<1>4. CASE RpcThread
  BY <1>4, RpcForceExitKeeps, RpcCancelOpenOrderKeeps, RpcDeleteKeeps, RpcReloadKeeps DEF RpcThread
<1>5. CASE Dying
  BY <1>5, CrashKeeps, CrashInUpdateKeeps, CrashInRecoveryKeeps DEF Dying
<1>6. CASE UNCHANGED vars
  BY <1>6, StutterKeeps
<1> QED
  BY <1>1, <1>2, <1>3, <1>4, <1>5, <1>6 DEF Next

LEMMA Inductive == Spec => []IInv
<1>1. Init => IInv
  BY InitIInv
<1>2. IInv /\ [Next]_vars => IInv'
  BY NextKeeps
<1> QED
  BY <1>1, <1>2, PTL DEF Spec

\* Every variable keeps to its type, whatever the exchange answers and wherever
\* the process dies.
THEOREM TypesHold == Spec => []TypeOK
<1>1. IInv => TypeOK
  BY DEF IInv
<1> QED
  BY <1>1, Inductive, PTL

\* CommittedWhenIdle: between two handlers every order row is committed, so that
\* a crash can only lose an order of the handler it interrupts.
THEOREM RowsAreCommitted == Spec => []CommittedWhenIdle
<1>1. IInv => CommittedWhenIdle
  BY DEF IInv, CommittedInv, CommittedWhenIdle, Idle
<1> QED
  BY <1>1, Inductive, PTL

\* ClosedRowsAreFinal: if no answer denies what an order has traded, a row that
\* is no longer open says what became of the order.
THEOREM ClosedRowsStayTrue ==
  ASSUME AnswersAreTrue
  PROVE  Spec => []ClosedRowsAreFinal
<1>1. IInv => ClosedRowsAreFinal
  BY DEF IInv, Fits, FinalIn, ClosedRowsAreFinal, Known, OpenRows
<1> QED
  BY <1>1, Inductive, PTL

\* AmountIsNet: under the same assumption the amount of an open trade is what its
\* finished orders have traded, after every fill, lost answer, recovery and command,
\* as long as the process has not died.  It may die when the row of an order is
\* committed and the trade is not.  (Behaviours without a crash so far are those of
\* Crashes = 0.)
THEOREM AmountIsWhatOrdersTraded ==
  ASSUME AnswersAreTrue, Crashes = 0
  PROVE  Spec => []AmountIsNet
<1>1. IInv => AmountIsNet
  <2> SUFFICES ASSUME IInv, Open(db), Net(db) > 0 PROVE db.trade.amount = Net(db)
    BY DEF AmountIsNet
  <2>1. Net(db) = NetIn(xo, db)
    BY NetIsNetIn
  <2>2. NetHeld(xo, db)
    BY DEF IInv, Fits
  <2> QED
    BY <2>1, <2>2 DEF NetHeld, Open
<1> QED
  BY <1>1, Inductive, PTL

(***************************************************************************)
(* What a trade stands on: no coins and nothing to sell without an entry   *)
(* that bought something.                                                  *)
(***************************************************************************)

\* An entry of database d is done and has bought something.
BoughtIn(x, d) ==
  \E o \in Ids : d.rows[o].known /\ ~ d.rows[o].open /\ x[o].side = "entry" /\ d.rows[o].filled > 0

\* Only then has the trade an amount, and only then has anything been sold since
\* its first order; and a trade has orders.
Backed(x, d) ==
  /\ d.trade.amount > 0 => BoughtIn(x, d)
  /\ (\E k, o \in Ids : d.rows[k].known /\ k <= o /\ x[o].status # "none" /\ x[o].side # "entry")
       => BoughtIn(x, d)
  /\ d.trade.st # "none" => Known(d) # {}

\* There is something to wait for or to sell.
NonEmpty(x, d) ==
  d.trade.st = "open" =>
    BoughtIn(x, d) \/ \E o \in Ids : d.rows[o].known /\ d.rows[o].open /\ x[o].side # "stoploss"

\* The handler is about to sell what it has found.
Selling(j) == (j.kind \in ExitKinds /\ (j.ready \/ j.want > 0)) \/ j.kind = "stoploss"

\* The same entries have bought something in the session and in what is committed.
DataBacked ==
  /\ Backed(xo, db) /\ Backed(xo, stored)
  /\ BoughtIn(xo, db) <=> BoughtIn(xo, stored)

\* A handler sells what was bought, after the stoploss orders are out of the way;
\* what it has sent is the last order of all.
HandlerBacked ==
  /\ job.kind \notin {"reentry", "reexit"}
  /\ Selling(job) => BoughtIn(xo, db)
  /\ job.kind \in ExitKinds \cup EntryKinds /\ ~ job.ready
       => \A o \in cancels : xo[o].side = "stoploss"
  /\ sent # NotSent => /\ UsedIn(xo) = 1 .. sent.id
                       /\ job.kind \in EntryKinds => xo[sent.id].side = "entry"
  /\ pc = "recover" => job = NoJob /\ BoughtIn(xo, db)
  /\ pc = "stops" => \A o \in todo : xo[o].side # "entry"

BackedInv == DataBacked /\ HandlerBacked

\* No position adjustment, no crash and no reload: the first entry is the only
\* one, and what becomes of it is handled where it is seen.
OneEntryWatched == ~ Adjust /\ Crashes = 0 /\ "reload" \notin Commands

NonEmptyInv ==
  /\ NonEmpty(xo, db) /\ NonEmpty(xo, stored)
  /\ pc \in {"down", "startup"} => db = EmptyDb /\ stored = EmptyDb
  /\ pc \notin {"toAdjust", "adjust"}
  /\ job.kind \in EntryKinds => ~ Open(db) /\ ~ Open(stored) /\ pc \notin {"down", "startup"}

\* One step of RemovedIsEmpty.
RemovesEmpty ==
  Open(db) /\ db'.trade.st = "none" /\ pc' # "down" /\ job.kind # "delete"
    => \A o \in Known(db) : xo'[o].filled = 0

\* What holds before a step, and what the step has to leave.
Standing == AnswersAreTrue /\ ~ Replace /\ IInv /\ BackedInv

StaysBacked ==
  BackedInv' /\ RemovesEmpty /\ (OneEntryWatched /\ NonEmptyInv => NonEmptyInv')

\* As long as nothing is bought, what is done adds up to nothing.
LEMMA NetOfNone ==
  ASSUME NEW x \in Orders, NEW d \in Databases, ~ BoughtIn(x, d)
  PROVE  ~ (NetIn(x, d) > 0)
<1> DEFINE share == [o \in Ids |-> IF d.rows[o].known /\ ~ d.rows[o].open
                                  THEN Sign(x[o].side) * d.rows[o].filled ELSE 0]
           T == {i \in Int : i <= 0}
<1>1. share \in [Ids -> T]
  <2> SUFFICES ASSUME NEW o \in Ids, d.rows[o].known, ~ d.rows[o].open
               PROVE  Sign(x[o].side) * d.rows[o].filled \in T
    OBVIOUS
  <2>1. d.rows[o].filled \in Nat
    BY DEF Databases
  <2>2. CASE x[o].side = "entry"
    <3>1. d.rows[o].filled = 0 /\ Sign(x[o].side) = 1
      BY <2>1, <2>2 DEF BoughtIn, Sign
    <3> QED
      BY <3>1
  <2>3. CASE x[o].side # "entry"
    <3>1. Sign(x[o].side) = -1
      BY <2>3 DEF Sign
    <3> QED
      BY <2>1, <3>1
  <2> QED
    BY <2>2, <2>3
<1>2. 0 \in T /\ \A a, b \in T : a + b \in T
  OBVIOUS
<1> HIDE DEF share
<1>3. SumFunction(share) \in T
  <2> HIDE DEF T
  <2> QED
    BY <1>1, <1>2, IdsFinite, SumIsIn
<1> QED
  BY <1>3 DEF share, NetIn

LEMMA RecalcBacked ==
  ASSUME xo \in Orders, NEW d \in Databases
  PROVE  Recalc(d).trade.amount > 0 => d.trade.amount > 0 \/ BoughtIn(xo, d)
<1>1. Net(d) = NetIn(xo, d)
  BY NetIsNetIn
<1>2. ~ BoughtIn(xo, d) => Recalc(d) = d
  BY <1>1, NetOfNone DEF Recalc
<1> QED
  BY <1>2

LEMMA UpdateTradeBacked ==
  ASSUME xo \in Orders, NEW d \in Databases, NEW o \in Ids, d.rows[o].known, NEW closes \in BOOLEAN
  PROVE  LET e == UpdateTrade(d, o, closes)
         IN  /\ e.trade.amount > 0 => d.trade.amount > 0 \/ BoughtIn(xo, d)
             /\ e.trade.st \in {d.trade.st, "closed"}
<1>1. CASE d.rows[o].open
  BY <1>1 DEF UpdateTrade
<1>2. CASE ~ d.rows[o].open /\ xo[o].side = "entry"
  <2> DEFINE u == [d EXCEPT !.trade.amount = d.rows[o].filled]
  <2>1. u \in Databases /\ u.rows = d.rows /\ u.trade.amount = d.rows[o].filled /\ u.trade.st = d.trade.st
    BY DEF Databases
  <2>2. UpdateTrade(d, o, closes) = Recalc(u)
    BY <1>2 DEF UpdateTrade
  <2>3. u.trade.amount > 0 => BoughtIn(xo, d)
    BY <1>2, <2>1 DEF BoughtIn
  <2>4. BoughtIn(xo, u) = BoughtIn(xo, d)
    BY <2>1 DEF BoughtIn
  <2> HIDE DEF u
  <2> QED
    BY <2>1, <2>2, <2>3, <2>4, RecalcBacked, RecalcFacts
<1>3. CASE ~ d.rows[o].open /\ xo[o].side # "entry"
  <2> DEFINE u == IF closes THEN [d EXCEPT !.trade.st = "closed"] ELSE d
  <2>1. /\ u \in Databases /\ u.rows = d.rows /\ u.trade.amount = d.trade.amount
        /\ u.trade.st \in {d.trade.st, "closed"}
    BY DEF Databases
  <2>2. UpdateTrade(d, o, closes) = Recalc(u)
    BY <1>3 DEF UpdateTrade
  <2>3. BoughtIn(xo, u) = BoughtIn(xo, d)
    BY <2>1 DEF BoughtIn
  <2> HIDE DEF u
  <2> QED
    BY <2>1, <2>2, <2>3, RecalcBacked, RecalcFacts
<1> QED
  BY <1>1, <1>2, <1>3

LEMMA UpdateStateBacked ==
  ASSUME xo \in Orders, NEW d \in Databases, NEW o \in Ids, NEW c \in Seen
  PROVE  LET e == UpdateTradeState(d, o, c)
         IN  /\ e.trade.amount > 0 => d.trade.amount > 0 \/ BoughtIn(xo, e)
             /\ e.trade.st \in {d.trade.st, "closed"}
<1> DEFINE u == UpdateRow(d, o, c)
<1>1. u \in Databases /\ u.rows = [d.rows EXCEPT ![o] = Row(c)] /\ u.trade = d.trade
  BY UpdateRowFacts
<1>2. u.rows[o].known
  BY <1>1 DEF Databases, Row
<1>3. UpdateTradeState(d, o, c) = IF CanceledEmpty(c) THEN u ELSE UpdateTrade(u, o, ClosesTrade(u, o))
  BY DEF UpdateTradeState
<1> HIDE DEF u
<1>4. CASE CanceledEmpty(c)
  BY <1>1, <1>3, <1>4
<1>5. CASE ~ CanceledEmpty(c)
  <2> DEFINE closes == ClosesTrade(u, o)
             e == UpdateTrade(u, o, closes)
  <2>1. closes \in BOOLEAN
    BY DEF ClosesTrade
  <2> HIDE DEF closes
  <2>2. /\ e.trade.amount > 0 => u.trade.amount > 0 \/ BoughtIn(xo, u)
        /\ e.trade.st \in {u.trade.st, "closed"}
        /\ e.rows = u.rows
    BY <1>1, <1>2, <2>1, UpdateTradeBacked, UpdateTradeFacts
  <2>3. UpdateTradeState(d, o, c) = e
    BY <1>3, <1>5 DEF closes
  <2> HIDE DEF e
  <2>4. BoughtIn(xo, u) = BoughtIn(xo, e)
    BY <2>2 DEF BoughtIn
  <2> QED
    BY <1>1, <2>2, <2>3, <2>4
<1> QED
  BY <1>4, <1>5

(***************************************************************************)
(* The same after a step of the orders, and of one row.                    *)
(***************************************************************************)

LEMMA BoughtFrame ==
  ASSUME NEW x, NEW y, OrdersStep(x, y), NEW d, Fits(x, d)
  PROVE  BoughtIn(y, d) <=> BoughtIn(x, d)
<1>1. \A o \in Ids : d.rows[o].known => (y[o].side = "entry" <=> x[o].side = "entry")
  BY DEF OrdersStep, Fits, Sign
<1> QED
  BY <1>1 DEF BoughtIn

LEMMA BackedFrame ==
  ASSUME NEW x, NEW y, OrdersStep(x, y), UsedIn(y) = UsedIn(x), NEW d, Fits(x, d), Backed(x, d)
  PROVE  Backed(y, d)
<1>1. BoughtIn(y, d) <=> BoughtIn(x, d)
  BY BoughtFrame
<1>2. \A o \in Ids : y[o].status # "none" /\ y[o].side # "entry"
                       => x[o].status # "none" /\ x[o].side # "entry"
  BY DEF OrdersStep, UsedIn, Sign
<1> QED
  BY <1>1, <1>2 DEF Backed

LEMMA NonEmptyFrame ==
  ASSUME NEW x, NEW y, OrdersStep(x, y), NEW d, Fits(x, d), NonEmpty(x, d),
         \A o \in Ids : d.rows[o].known /\ x[o].side # "stoploss" => y[o].side # "stoploss"
  PROVE  NonEmpty(y, d)
<1>1. BoughtIn(y, d) <=> BoughtIn(x, d)
  BY BoughtFrame
<1> QED
  BY <1>1 DEF NonEmpty

\* Order o, seen as c, becomes or updates a row of d, the orders being as in y.
LEMMA RowBacked ==
  ASSUME AnswersAreTrue, NEW y, OrdersStep(xo, y), NEW d, Fits(xo, d), Backed(y, d), NEW e,
         NEW o \in Ids, xo[o].status # "none", NEW c \in Seen, Told(y, o, c),
         c.status = "open" /\ d.rows[o].known => xo[o].status = "open",
         e.rows = [d.rows EXCEPT ![o] = Row(c)],
         e.trade.amount > 0 => d.trade.amount > 0 \/ BoughtIn(y, e),
         \/ BoughtIn(y, d)
         \/ \E k \in Known(d) : k <= o
         \/ \A p \in Ids : o <= p /\ y[p].status # "none" => y[p].side = "entry"
  PROVE  /\ Backed(y, e)
         /\ BoughtIn(y, d) => BoughtIn(y, e)
         /\ CanceledEmpty(c) \/ c.status = "open" => (BoughtIn(y, e) <=> BoughtIn(y, d))
<1>1. d \in Databases /\ FinalIn(xo, d)
  BY DEF Fits
<1>2. /\ e.rows[o] = Row(c) /\ \A p \in Ids : p # o => e.rows[p] = d.rows[p]
      /\ Row(c).known /\ (Row(c).open <=> c.status = "open") /\ Row(c).filled = c.filled
  BY <1>1 DEF Databases, Row
<1>3. BoughtIn(y, d) => BoughtIn(y, e)
  <2> SUFFICES ASSUME NEW p \in Ids, d.rows[p].known, ~ d.rows[p].open, y[p].side = "entry",
                      d.rows[p].filled > 0
               PROVE  BoughtIn(y, e)
    BY DEF BoughtIn
  <2>1. CASE p # o
    BY <1>2, <2>1 DEF BoughtIn
  <2>2. CASE p = o
    <3>1. xo[o].status # "open" /\ d.rows[o].filled = xo[o].filled
      BY <1>1, <2>2 DEF FinalIn
    <3>2. c.status # "open" /\ c.filled = xo[o].filled
      BY <2>2, <3>1 DEF Told, OrdersStep
    <3> QED
      BY <1>2, <2>2, <3>1, <3>2 DEF BoughtIn
  <2> QED
    BY <2>1, <2>2
<1>4. CanceledEmpty(c) \/ c.status = "open" => (BoughtIn(y, e) => BoughtIn(y, d))
  <2> SUFFICES ASSUME CanceledEmpty(c) \/ c.status = "open",
                      NEW p \in Ids, e.rows[p].known, ~ e.rows[p].open, y[p].side = "entry",
                      e.rows[p].filled > 0
               PROVE  BoughtIn(y, d)
    BY DEF BoughtIn
  <2>1. p # o
    BY <1>2 DEF CanceledEmpty
  <2> QED
    BY <1>2, <2>1 DEF BoughtIn
<1>5. Backed(y, e)
  <2>1. e.trade.amount > 0 => BoughtIn(y, e)
    BY <1>3 DEF Backed
  <2>2. ASSUME NEW k \in Ids, NEW p \in Ids, e.rows[k].known, k <= p, y[p].status # "none", y[p].side # "entry"
        PROVE  BoughtIn(y, e)
    <3>1. CASE k # o \/ BoughtIn(y, d)
      BY <1>2, <1>3, <2>2, <3>1 DEF Backed
    <3>2. CASE k = o /\ \E m \in Known(d) : m <= o
      <4>1. PICK m \in Known(d) : m <= o
        BY <3>2
      <4>2. m \in Ids /\ d.rows[m].known /\ m <= p
        BY <2>2, <3>2, <4>1, IdsFinite DEF Known
      <4> QED
        BY <1>3, <2>2, <4>2 DEF Backed
    <3>3. CASE k = o /\ \A m \in Ids : o <= m /\ y[m].status # "none" => y[m].side = "entry"
      BY <2>2, <3>3
    <3> QED
      BY <3>1, <3>2, <3>3
  <2>3. o \in Known(e)
    BY <1>2 DEF Known
  <2> QED
    BY <2>1, <2>2, <2>3 DEF Backed
<1> QED
  BY <1>3, <1>4, <1>5

\* update_trade_state for a row that is there.
LEMMA StateBacked ==
  ASSUME AnswersAreTrue, NEW y \in Orders, OrdersFit(xo), OrdersStep(xo, y),
         NEW d, Fits(xo, d), Backed(y, d),
         NEW o \in Known(d), NEW c \in Seen, Told(y, o, c), c.status = "open" => xo[o].status = "open"
  PROVE  LET e == UpdateTradeState(d, o, c)
         IN  /\ Backed(y, e)
             /\ BoughtIn(y, d) => BoughtIn(y, e)
             /\ CanceledEmpty(c) \/ c.status = "open" => (BoughtIn(y, e) <=> BoughtIn(y, d))
             /\ e.trade.st \in {d.trade.st, "closed"}
<1> DEFINE e == UpdateTradeState(d, o, c)
<1>1. d \in Databases /\ xo \in Orders /\ o \in Ids /\ d.rows[o].known /\ xo[o].status # "none"
  BY DEF Fits, OrdersFit, Known
<1>2. /\ e \in Databases /\ e.rows = [d.rows EXCEPT ![o] = Row(c)]
      /\ e.trade.amount > 0 => d.trade.amount > 0 \/ BoughtIn(xo, e)
      /\ e.trade.st \in {d.trade.st, "closed"}
  BY <1>1, UpdateStateFacts, UpdateStateBacked
<1>3. Fits(y, e)
  BY <1>1, FitsState
<1> HIDE DEF e
<1>4. BoughtIn(xo, e) => BoughtIn(y, e)
  <2>1. \A p \in Ids : e.rows[p].known => xo[p].status # "none"
    <3>1. \A p \in Ids : p # o => e.rows[p] = d.rows[p]
      BY <1>1, <1>2 DEF Databases
    <3> QED
      BY <1>1, <3>1 DEF Fits
  <2>2. \A p \in Ids : e.rows[p].known /\ xo[p].side = "entry" => y[p].side = "entry"
    BY <2>1 DEF OrdersStep, Sign
  <2> QED
    BY <2>2 DEF BoughtIn
<1>5. o <= o
  BY <1>1, IdsFinite
<1>6. /\ Backed(y, e)
      /\ BoughtIn(y, d) => BoughtIn(y, e)
      /\ CanceledEmpty(c) \/ c.status = "open" => (BoughtIn(y, e) <=> BoughtIn(y, d))
  BY <1>1, <1>2, <1>4, <1>5, RowBacked
<1> QED
  BY <1>2, <1>6 DEF e

\* nr_of_successful_entries and BoughtIn are about the same orders.
LEMMA SuccessfulIsBought ==
  ASSUME NEW d PROVE SuccessfulEntries(d) # {} <=> BoughtIn(xo, d)
BY DEF SuccessfulEntries, BoughtIn, Known

\* A row of a sold order says that something was bought.
LEMMA SoldWasBought ==
  ASSUME NEW x, NEW d, Fits(x, d), Backed(x, d), NEW o \in Known(d), x[o].side # "entry"
  PROVE  BoughtIn(x, d)
<1>1. o \in Ids /\ d.rows[o].known /\ o <= o /\ x[o].status # "none"
  BY IdsFinite DEF Known, Fits
<1> QED
  BY <1>1 DEF Backed

\* update_trade_state leaves something, unless an entry comes to nothing.
LEMMA StateNonEmpty ==
  ASSUME AnswersAreTrue, NEW y \in Orders, OrdersFit(xo), OrdersStep(xo, y),
         NEW d, Fits(xo, d), Backed(y, d), NonEmpty(y, d),
         NEW o \in Known(d), NEW c \in Seen, Told(y, o, c), c.status = "open" => xo[o].status = "open",
         \/ ~ CanceledEmpty(c) \/ y[o].side # "entry" \/ BoughtIn(y, d)
         \/ \E p \in OpenRows(d) : p # o
  PROVE  NonEmpty(y, UpdateTradeState(d, o, c))
<1> DEFINE e == UpdateTradeState(d, o, c)
<1>1. d \in Databases /\ xo \in Orders /\ o \in Ids /\ d.rows[o].known /\ xo[o].status # "none" /\ Fits(y, d)
  BY FitsFrame DEF Fits, OrdersFit, Known
<1>2. /\ e.rows = [d.rows EXCEPT ![o] = Row(c)]
      /\ BoughtIn(y, d) => BoughtIn(y, e)
      /\ e.trade.st \in {d.trade.st, "closed"}
  BY <1>1, UpdateStateFacts, StateBacked
<1> HIDE DEF e
<1>3. /\ e.rows[o] = Row(c) /\ \A p \in Ids : p # o => e.rows[p] = d.rows[p]
      /\ Row(c).known /\ (Row(c).open <=> c.status = "open") /\ Row(c).filled = c.filled
  BY <1>1, <1>2 DEF Databases, Row
<1>4. y[o].side # "entry" => BoughtIn(y, d)
  BY <1>1, SoldWasBought
<1>5. NonEmpty(y, e)
  <2>1. CASE BoughtIn(y, d)
    BY <1>2, <2>1 DEF NonEmpty
  <2>2. CASE y[o].side = "entry" /\ c.status = "open"
    BY <1>1, <1>3, <2>2 DEF NonEmpty
  <2>3. CASE y[o].side = "entry" /\ c.status # "open" /\ ~ CanceledEmpty(c)
    <3>1. c.filled > 0
      BY <2>3 DEF CanceledEmpty, Seen
    <3> QED
      BY <1>1, <1>3, <2>3, <3>1 DEF NonEmpty, BoughtIn
  <2>4. CASE ~ BoughtIn(y, d) /\ \E p \in OpenRows(d) : p # o
    <3>1. PICK p \in OpenRows(d) : p # o
      BY <2>4
    <3>2. p \in Known(d) /\ p \in Ids /\ d.rows[p].known /\ d.rows[p].open
      BY <3>1 DEF OpenRows, Known
    <3>3. y[p].side = "entry"
      BY <1>1, <2>4, <3>2, SoldWasBought
    <3> QED
      BY <1>3, <3>1, <3>2, <3>3 DEF NonEmpty
  <2> QED
    BY <1>4, <2>1, <2>2, <2>3, <2>4
<1> QED
  BY <1>5 DEF e

\* handle_cancel_enter and handle_cancel_exit: a trade that is deleted has traded
\* nothing, and a trade that is left with nothing is deleted.
LEMMA CancelBacked ==
  ASSUME AnswersAreTrue, NEW y \in Orders, OrdersFit(xo), OrdersStep(xo, y),
         \A p \in Ids : y[p].side = xo[p].side,
         NEW d, Fits(xo, d), Backed(y, d),
         NEW o \in Known(d), NEW c \in Seen, Told(y, o, c), c.status = "open" => xo[o].status = "open",
         NEW s, NEW replacing
  PROVE  LET h == HandleCancel(d, o, s, c, replacing)
         IN  /\ Backed(y, h.d)
             /\ ~ h.commit => (BoughtIn(y, h.d) <=> BoughtIn(y, d))
             /\ \/ h.d.trade.st \in {d.trade.st, "closed"} /\ (BoughtIn(y, d) => BoughtIn(y, h.d))
                \/ h.d = EmptyDb /\ ~ replacing /\ \A p \in Known(d) : y[p].filled = 0
             /\ NonEmpty(y, d) /\ (~ replacing \/ BoughtIn(y, d) \/ d.trade.st # "open")
                  => NonEmpty(y, h.d)
<1> DEFINE e == UpdateTradeState(d, o, c)
           entry == xo[o].side = "entry"
           h == HandleCancel(d, o, s, c, replacing)
           kept    == [d |-> d, commit |-> FALSE, ok |-> FALSE]
           deleted == [d |-> EmptyDb, commit |-> TRUE, ok |-> TRUE]
           updated == [d |-> e, commit |-> TRUE,
                       ok |-> IF entry THEN Unfilled(c) ELSE s.status = "open"]
<1>1. \/ h = kept
      \/ h = deleted /\ c.status # "open" /\ Unfilled(c) /\ Deletable(d, o, replacing)
      \/ h = updated /\ ~ (entry /\ c.status # "open" /\ Unfilled(c) /\ Deletable(d, o, replacing))
  BY DEF HandleCancel
<1>2. d \in Databases /\ xo \in Orders /\ o \in Ids /\ d.rows[o].known /\ xo[o].status # "none" /\ Fits(y, d)
  BY FitsFrame DEF Fits, OrdersFit, Known
<1>3. /\ Backed(y, e)
      /\ BoughtIn(y, d) => BoughtIn(y, e)
      /\ CanceledEmpty(c) \/ c.status = "open" => (BoughtIn(y, e) <=> BoughtIn(y, d))
      /\ e.trade.st \in {d.trade.st, "closed"}
  BY StateBacked
<1>4. SuccessfulEntries(d) # {} <=> BoughtIn(y, d)
  BY SuccessfulIsBought, BoughtFrame
<1> HIDE DEF h
<1>5. CASE h = kept
  BY <1>5 DEF h
<1>6. CASE h = deleted /\ c.status # "open" /\ Unfilled(c) /\ Deletable(d, o, replacing)
  <2>1. ~ replacing /\ OpenRows(d) \subseteq {o} /\ SuccessfulEntries(d) = {} /\ c.filled = 0
    BY <1>6 DEF Deletable, Unfilled
  <2>2. ASSUME NEW p \in Known(d) PROVE y[p].filled = 0
    <3>1. CASE p = o
      BY <1>6, <2>1, <3>1 DEF Told
    <3>2. CASE p # o
      <4>1. p \in Ids /\ d.rows[p].known /\ ~ d.rows[p].open
        BY <2>1, <2>2, <3>2 DEF Known, OpenRows
      <4>2. y[p].side = "entry"
        BY <1>2, <1>4, <2>1, <2>2, SoldWasBought
      <4>3. d.rows[p].filled = 0
        <5>1. d.rows[p].filled \in Nat /\ xo[p].side = "entry"
          BY <1>2, <4>1, <4>2 DEF Databases
        <5> QED
          BY <2>1, <2>2, <4>1, <5>1 DEF SuccessfulEntries
      <4>4. FinalIn(xo, d)
        BY DEF Fits
      <4> QED
        BY <1>2, <4>1, <4>3, <4>4 DEF FinalIn, OrdersStep, Fits
    <3> QED
      BY <3>1, <3>2
  <2>3. /\ Backed(y, EmptyDb)
        /\ EmptyDb.trade.st = "none"
    BY DEF Backed, EmptyDb, NoTrade, NoRow
  <2> QED
    BY <1>6, <2>1, <2>2, <2>3 DEF NonEmpty, h
<1>7. CASE h = updated /\ ~ (entry /\ c.status # "open" /\ Unfilled(c) /\ Deletable(d, o, replacing))
  <2>1. h.d = e /\ h.commit = TRUE
    BY <1>7
  <2>2. ASSUME NonEmpty(y, d), ~ replacing \/ BoughtIn(y, d) \/ d.trade.st # "open"
        PROVE  NonEmpty(y, e)
    <3>1. CASE d.trade.st # "open"
      BY <1>3, <3>1 DEF NonEmpty
    <3>2. CASE d.trade.st = "open"
      <4>1. \/ ~ CanceledEmpty(c) \/ y[o].side # "entry" \/ BoughtIn(y, d)
            \/ \E p \in OpenRows(d) : p # o
        <5> SUFFICES ASSUME CanceledEmpty(c), y[o].side = "entry", ~ BoughtIn(y, d)
                     PROVE  \E p \in OpenRows(d) : p # o
          OBVIOUS
        <5>1. ~ Deletable(d, o, replacing) /\ ~ replacing /\ SuccessfulEntries(d) = {}
          BY <1>2, <1>4, <1>7, <2>2, <3>2 DEF CanceledEmpty, Unfilled
        <5> QED
          BY <5>1 DEF Deletable
      <4> QED
        BY <2>2, <4>1, StateNonEmpty
    <3> QED
      BY <3>1, <3>2
  <2> HIDE DEF e
  <2> QED
    BY <1>3, <2>1, <2>2 DEF h
<1> QED
  BY <1>1, <1>5, <1>6, <1>7 DEF h

(***************************************************************************)
(* Steps that leave the orders and the databases alone.                    *)
(***************************************************************************)

\* What such a step may do to where process() is and to the job.
MovesOn ==
  NonEmptyInv =>
    /\ pc' \in {"down", "startup"} => pc \in {"down", "startup"}
    /\ pc' \notin {"toAdjust", "adjust"}
    /\ job'.kind \in EntryKinds
         => ~ Open(db) /\ ~ Open(stored) /\ pc' \notin {"down", "startup"}

LEMMA SameDataBacked ==
  ASSUME Standing, UNCHANGED <<xo, db, stored>>, HandlerBacked', OneEntryWatched => MovesOn
  PROVE  StaysBacked
<1>1. BackedInv'
  BY DEF Standing, BackedInv, DataBacked
<1>2. RemovesEmpty
  BY DEF RemovesEmpty, Open
<1>3. OneEntryWatched /\ NonEmptyInv => NonEmptyInv'
  BY DEF MovesOn, NonEmptyInv, Open
<1> QED
  BY <1>1, <1>2, <1>3 DEF StaysBacked

LEMMA StopDroppedBacked ==
  ASSUME Standing, StopDropped PROVE StaysBacked
BY SameDataBacked, JobFacts
DEF StopDropped, Standing, BackedInv, HandlerBacked, MovesOn, NonEmptyInv, Selling, loop,
    ExitKinds, EntryKinds

LEMMA RpcForceExitBacked ==
  ASSUME Standing, RpcForceExit PROVE StaysBacked
BY SameDataBacked, JobFacts
DEF RpcForceExit, Command, Standing, BackedInv, HandlerBacked, MovesOn, NonEmptyInv, Selling, loop,
    ExitKinds, EntryKinds, Kinds, Sections

LEMMA RpcDeleteBacked ==
  ASSUME Standing, RpcDelete PROVE StaysBacked
BY SameDataBacked, JobFacts
DEF RpcDelete, Command, Standing, BackedInv, HandlerBacked, MovesOn, NonEmptyInv, Selling, loop,
    ExitKinds, EntryKinds, Kinds, Sections

LEMMA RpcCancelOpenOrderBacked ==
  ASSUME Standing, RpcCancelOpenOrder PROVE StaysBacked
BY SameDataBacked
DEF RpcCancelOpenOrder, Standing, BackedInv, HandlerBacked, MovesOn, NonEmptyInv, handler, Sections

LEMMA JobReadyBacked ==
  ASSUME Standing, JobReady PROVE StaysBacked
<1>1. db.trade.amount \in Nat /\ job \in Jobs /\ Backed(xo, db)
  BY DEF Standing, BackedInv, DataBacked, IInv, TypeOK, Databases, Jobs
<1>2. job.kind \in ExitKinds => BoughtIn(xo, db)
  BY <1>1 DEF JobReady, ExitAmount, Jobs, Backed, Standing, BackedInv, HandlerBacked, Selling
<1>3. job'.kind = job.kind /\ job'.ready
  BY <1>1 DEF JobReady, Jobs
<1> QED
  BY <1>2, <1>3, JobFacts, SameDataBacked
  DEF JobReady, Standing, BackedInv, HandlerBacked, MovesOn, NonEmptyInv, Selling, loop,
      ExitKinds, EntryKinds

LEMMA PlaceUncoveredBacked ==
  ASSUME Standing, PlaceUncovered PROVE StaysBacked
<1>1. job \in Jobs
  BY DEF Standing, IInv, TypeOK, Jobs
<1>2. job'.kind = job.kind /\ job'.ready = job.ready /\ job'.want = job.want
  BY <1>1 DEF PlaceUncovered, Jobs
<1> QED
  BY <1>2, JobFacts, SameDataBacked
  DEF PlaceUncovered, Placing, Standing, BackedInv, HandlerBacked, MovesOn, NonEmptyInv, Selling, loop

LEMMA RefindErrorBacked ==
  ASSUME Standing, RefindError PROVE StaysBacked
BY SameDataBacked
DEF RefindError, Standing, BackedInv, HandlerBacked, MovesOn, NonEmptyInv, loop

\* A part of an amount is sold only where there is an amount.
LEMMA ForceExitGoesOnBacked ==
  ASSUME Standing, ForceExitGoesOn PROVE StaysBacked
<1>1. db.trade.amount \in Nat /\ Backed(xo, db)
  BY DEF Standing, BackedInv, DataBacked, IInv, TypeOK, Databases
<1>2. CASE job' = NoJob /\ UNCHANGED cancels
  BY <1>2, SameDataBacked, JobFacts
  DEF ForceExitGoesOn, Standing, BackedInv, HandlerBacked, MovesOn, NonEmptyInv, Selling, loop,
      ExitKinds, EntryKinds
<1>3. CASE /\ \E k \in {0} \cup 1 .. db.trade.amount - 1 : job' = Job("exit", k)
           /\ cancels' = StopsToCancel(db)
  <2>1. PICK k \in {0} \cup 1 .. db.trade.amount - 1 : job' = Job("exit", k)
    BY <1>3
  <2>2. k \in Nat /\ (k > 0 => BoughtIn(xo, db))
    BY <1>1 DEF Backed
  <2>3. job'.kind = "exit" /\ ~ job'.ready /\ job'.want = k
    BY <2>1, <2>2, JobFacts DEF Kinds, ExitKinds
  <2>4. \A o \in cancels' : xo[o].side = "stoploss"
    BY <1>3, RowSets DEF StopsToCancel
  <2> QED
    BY <2>2, <2>3, <2>4, JobFacts, SameDataBacked
    DEF ForceExitGoesOn, Standing, BackedInv, HandlerBacked, MovesOn, NonEmptyInv, Selling, loop,
        ExitKinds, EntryKinds
<1> QED
  BY <1>2, <1>3 DEF ForceExitGoesOn

LEMMA ToTradeBacked ==
  ASSUME ToTrade(db)
  PROVE  /\ pc' \in {"stops", "signal"} /\ todo' \subseteq Known(db)
         /\ \A o \in todo' : xo[o].side = "stoploss"
BY RowSets DEF ToTrade

LEMMA AcquireBacked ==
  ASSUME Standing, Acquire PROVE StaysBacked
<1>1. /\ pc' \in {"manage", "recover", "stops", "signal", "adjust", "enter", AfterExits}
      /\ pc' = "adjust" => pc = "toAdjust"
      /\ pc' = "recover" => SuccessfulEntries(db) # {}
      /\ pc' = "stops" => \A o \in todo' : xo[o].side = "stoploss"
  <2>1. pc \in Sections
    BY DEF Acquire
  <2>2. CASE pc = "toExits" /\ Open(db) /\ ~ CoinsMissing
    BY <2>2, ToTradeBacked DEF Acquire
  <2>3. CASE pc = "toExits" /\ Open(db) /\ CoinsMissing
    BY <2>3, ToTradeBacked DEF Acquire, CoinsMissing
  <2>4. CASE pc = "toExits" /\ ~ Open(db)
    BY <2>4 DEF Acquire, AfterExits
  <2>5. CASE pc # "toExits"
    BY <2>1, <2>5 DEF Acquire, Sections
  <2> QED
    BY <2>2, <2>3, <2>4, <2>5
<1>2. UNCHANGED <<xo, db, stored, handler>> /\ job = NoJob
  BY DEF Acquire, Standing, IInv, JobInv, Quiet
<1>3. HandlerBacked'
  BY <1>1, <1>2, SuccessfulIsBought
  DEF Standing, BackedInv, HandlerBacked, handler, AfterExits
<1>4. OneEntryWatched => MovesOn
  BY <1>1, <1>2 DEF MovesOn, NonEmptyInv, handler, OneEntryWatched, AfterExits
<1> QED
  BY <1>2, <1>3, <1>4, SameDataBacked

LEMMA AbortIterationBacked ==
  ASSUME Standing, AbortIteration PROVE StaysBacked
BY SameDataBacked
DEF AbortIteration, IterationAborted, Standing, BackedInv, HandlerBacked, MovesOn, NonEmptyInv, handler

LEMMA ManageDoneBacked ==
  ASSUME Standing, ManageDone PROVE StaysBacked
BY SameDataBacked
DEF ManageDone, Standing, BackedInv, HandlerBacked, MovesOn, NonEmptyInv, handler

LEMMA RecoverFailsBacked ==
  ASSUME Standing, RecoverFails PROVE StaysBacked
BY SameDataBacked, ToTradeBacked
DEF RecoverFails, Standing, BackedInv, HandlerBacked, MovesOn, NonEmptyInv, handler

LEMMA StopNotFetchedBacked ==
  ASSUME Standing, NEW o \in Ids, StopNotFetched(o) PROVE StaysBacked
<1>1. /\ (pc' = pc /\ todo' \subseteq todo) \/ pc' = AfterExits
      /\ UNCHANGED <<xo, db, stored, handler>> /\ pc = "stops"
  BY DEF StopNotFetched
<1> QED
  BY <1>1, SameDataBacked
  DEF Standing, BackedInv, HandlerBacked, MovesOn, NonEmptyInv, handler, OneEntryWatched, AfterExits

LEMMA StopDecidedBacked ==
  ASSUME Standing, StopDecided PROVE StaysBacked
<1> DEFINE stop == [Job("stoploss", 0) EXCEPT !.ready = TRUE]
<1>1. stop.kind = "stoploss"
  BY DEF Job, NoJob
<1>2. /\ pc' = "signal" /\ UNCHANGED <<xo, db, stored, sent>>
      /\ job' = job \/ (job' = stop /\ ~ NoStopNeeded)
      /\ job = NoJob /\ cancels = {}
  BY DEF StopDecided, Quiet
<1>3. ~ NoStopNeeded => BoughtIn(xo, db)
  <2>1. db.trade.amount \in Nat /\ Backed(xo, db)
    BY DEF Standing, BackedInv, DataBacked, IInv, TypeOK, Databases
  <2> QED
    BY <2>1 DEF NoStopNeeded, Backed
<1>4. job'.kind \in {"none", "stoploss"}
  BY <1>1, <1>2, JobFacts
<1> HIDE DEF stop
<1>5. HandlerBacked'
  BY <1>1, <1>2, <1>3, <1>4, JobFacts
  DEF Standing, BackedInv, HandlerBacked, Selling, ExitKinds, EntryKinds
<1>6. MovesOn
  BY <1>2, <1>4 DEF MovesOn, EntryKinds
<1> QED
  BY <1>2, <1>5, <1>6, SameDataBacked

LEMMA ExitSignalBacked ==
  ASSUME Standing, ExitSignal PROVE StaysBacked
<1>1. /\ pc' = AfterExits /\ UNCHANGED <<xo, db, stored, sent>>
      /\ job' = NoJob \/ (job' = Job("exit", 0) /\ \A o \in cancels' : xo[o].side = "stoploss")
  BY RowSets DEF ExitSignal, Quiet, StopsToCancel
<1>2. /\ job'.kind \in {"none", "exit"} /\ ~ job'.ready
      /\ job'.kind = "exit" => job'.want = 0 /\ \A o \in cancels' : xo[o].side = "stoploss"
  BY <1>1, JobFacts DEF Kinds, ExitKinds
<1>3. HandlerBacked'
  BY <1>1, <1>2 DEF Standing, BackedInv, HandlerBacked, Selling, ExitKinds, EntryKinds, AfterExits
<1>4. OneEntryWatched => MovesOn
  BY <1>1, <1>2 DEF MovesOn, EntryKinds, OneEntryWatched, AfterExits
<1> QED
  BY <1>1, <1>3, <1>4, SameDataBacked

LEMMA AdjustPositionBacked ==
  ASSUME Standing, AdjustPosition PROVE StaysBacked
<1>1. /\ pc = "adjust" /\ pc' = "toEnter" /\ UNCHANGED <<xo, db, stored, sent>>
      /\ job = NoJob /\ cancels = {} /\ sent = NotSent
  BY DEF AdjustPosition, Quiet
<1>2. /\ job'.kind \in {"none", "entry", "exit"} /\ ~ job'.ready
      /\ job'.kind = "exit" /\ job'.want > 0 => BoughtIn(xo, db)
      /\ \A o \in cancels' : xo[o].side = "stoploss"
  <2>1. CASE UNCHANGED <<job, cancels>>
    BY <1>1, <2>1, JobFacts
  <2>2. CASE job' = Job("entry", EntryAmount) /\ UNCHANGED cancels
    BY <1>1, <2>2, JobFacts, TradeOrdersAssumption DEF Kinds, EntryKinds
  <2>3. CASE /\ \E k \in 1 .. db.trade.amount : job' = Job("exit", k)
             /\ cancels' = StopsToCancel(db)
    <3>1. db.trade.amount \in Nat /\ Backed(xo, db)
      BY DEF Standing, BackedInv, DataBacked, IInv, TypeOK, Databases
    <3>2. PICK k \in 1 .. db.trade.amount : job' = Job("exit", k)
      BY <2>3
    <3>3. k \in Nat /\ BoughtIn(xo, db)
      BY <3>1, <3>2 DEF Backed
    <3> QED
      BY <2>3, <3>2, <3>3, JobFacts, RowSets DEF Kinds, ExitKinds, StopsToCancel
  <2> QED
    BY <2>1, <2>2, <2>3 DEF AdjustPosition
<1>3. HandlerBacked'
  BY <1>1, <1>2 DEF Standing, BackedInv, HandlerBacked, Selling, ExitKinds, EntryKinds
<1>4. MovesOn
  BY <1>1 DEF MovesOn, NonEmptyInv
<1> QED
  BY <1>1, <1>3, <1>4, SameDataBacked

\* The rows of the trade are committed when the pair is entered.
LEMMA EnterTradeBacked ==
  ASSUME Standing, EnterTrade PROVE StaysBacked
<1>1. /\ pc = "enter" /\ pc' = "toManage" /\ UNCHANGED <<xo, db, stored, sent, cancels>>
      /\ job = NoJob /\ cancels = {}
      /\ job' = NoJob \/ (db.trade.st = "none" /\ job' = Job("entry", EntryAmount))
      /\ sent = NotSent
  BY DEF EnterTrade, Quiet
<1>2. /\ job'.kind \in {"none", "entry"}
      /\ job'.kind = "entry" => db.trade.st = "none"
  BY <1>1, JobFacts, TradeOrdersAssumption DEF Kinds, EntryKinds
<1>3. db.trade.st = stored.trade.st
  BY <1>1 DEF Standing, IInv, CommittedInv, AfterExits
<1>4. HandlerBacked'
  BY <1>1, <1>2 DEF Standing, BackedInv, HandlerBacked, Selling, ExitKinds, EntryKinds
<1>5. MovesOn
  BY <1>1, <1>2, <1>3 DEF MovesOn, Open, EntryKinds, NonEmptyInv
<1> QED
  BY <1>1, <1>4, <1>5, SameDataBacked

LEMMA StartBacked ==
  ASSUME Standing, Start PROVE StaysBacked
BY SameDataBacked
DEF Start, Standing, BackedInv, HandlerBacked, MovesOn, NonEmptyInv, handler

LEMMA StartupDoneBacked ==
  ASSUME Standing, StartupDone PROVE StaysBacked
BY SameDataBacked
DEF StartupDone, Standing, BackedInv, HandlerBacked, MovesOn, NonEmptyInv, handler

LEMMA ManageSkipBacked ==
  ASSUME Standing, NEW o \in Ids, ManageSkip(o) PROVE StaysBacked
BY SameDataBacked
DEF ManageSkip, Managing, Standing, BackedInv, HandlerBacked, MovesOn, NonEmptyInv

LEMMA StartupSkipBacked ==
  ASSUME Standing, NEW o \in Ids, StartupSkip(o) PROVE StaysBacked
BY SameDataBacked
DEF StartupSkip, Starting, Standing, BackedInv, HandlerBacked, MovesOn, NonEmptyInv

LEMMA StutterBacked ==
  ASSUME Standing, UNCHANGED vars PROVE StaysBacked
BY SameDataBacked
DEF vars, loop, handler, Standing, BackedInv, HandlerBacked, MovesOn, NonEmptyInv

(***************************************************************************)
(* Steps of the exchange.                                                  *)
(***************************************************************************)

LEMMA OrdersMoveBacked ==
  ASSUME Standing, OrdersStep(xo, xo'), UsedIn(xo') = UsedIn(xo),
         \A o \in Ids : xo'[o].side = xo[o].side,
         UNCHANGED <<db, stored, pc, todo, job, sent>>, cancels' \subseteq cancels
  PROVE  StaysBacked
<1>1. Fits(xo, db) /\ Fits(xo, stored) /\ cancels \subseteq Ids /\ todo \subseteq Ids
  BY DEF Standing, IInv, TypeOK
<1>2. sent # NotSent => sent.id \in Ids
  BY DEF Standing, IInv, SentInv
<1>3. Backed(xo', db) /\ Backed(xo', stored)
  BY <1>1, BackedFrame DEF Standing, BackedInv, DataBacked
<1>4. (BoughtIn(xo', db) <=> BoughtIn(xo, db)) /\ (BoughtIn(xo', stored) <=> BoughtIn(xo, stored))
  BY <1>1, BoughtFrame
<1>5. DataBacked'
  BY <1>3, <1>4 DEF DataBacked, Standing, BackedInv
<1>6. HandlerBacked'
  BY <1>1, <1>2, <1>4 DEF HandlerBacked, Standing, BackedInv
<1>7. RemovesEmpty
  BY DEF RemovesEmpty, Open
<1>8. NonEmptyInv => NonEmptyInv'
  <2>1. NonEmpty(xo, db) => NonEmpty(xo', db)
    BY <1>1, NonEmptyFrame
  <2>2. NonEmpty(xo, stored) => NonEmpty(xo', stored)
    BY <1>1, NonEmptyFrame
  <2> QED
    BY <2>1, <2>2 DEF NonEmptyInv, Open
<1> QED
  BY <1>5, <1>6, <1>7, <1>8 DEF StaysBacked, BackedInv

LEMMA ExchangeBacked ==
  ASSUME Standing, NEW o \in Ids, ExchangeFills(o) \/ ExchangeCancels(o) PROVE StaysBacked
<1>1. xo \in Orders /\ xo[o].status = "open"
  BY DEF Standing, IInv, OrdersFit, ExchangeFills, ExchangeCancels
<1>2. /\ xo'[o].side = xo[o].side /\ xo'[o].amount = xo[o].amount
      /\ xo'[o].status \in {"open", "closed", "canceled"} /\ \A p \in Ids : p # o => xo'[p] = xo[p]
  <2>1. CASE ExchangeFills(o)
    BY <1>1, <2>1 DEF Orders, ExchangeFills
  <2>2. CASE ExchangeCancels(o)
    BY <1>1, <2>2 DEF Orders, ExchangeCancels
  <2> QED
    BY <2>1, <2>2
<1>3. OrdersStep(xo, xo') /\ \A p \in Ids : xo'[p].side = xo[p].side
  BY <1>1, <1>2 DEF OrdersStep
<1>4. UsedIn(xo') = UsedIn(xo)
  BY <1>1, <1>2 DEF UsedIn
<1> QED
  BY <1>3, <1>4, OrdersMoveBacked DEF ExchangeFills, ExchangeCancels, loop, handler

LEMMA DeleteCancelsBacked ==
  ASSUME Standing, NEW o \in Ids, DeleteCancels(o) PROVE StaysBacked
<1>1. /\ UNCHANGED <<db, stored, loop, job, sent>> /\ cancels' \subseteq cancels
      /\ OrdersFit(xo) /\ Fits(xo, db)
  BY DEF DeleteCancels, Standing, IInv
<1>2. /\ OrdersStep(xo, xo') /\ UsedIn(xo') = UsedIn(xo)
      /\ \A p \in Ids : xo'[p].side = xo[p].side
  <2>1. CASE xo' = xo
    BY <2>1 DEF OrdersStep
  <2>2. CASE xo' # xo
    <3>1. PICK r \in CancelResults(o) : xo[o].status = "open" /\ xo' = [xo EXCEPT ![o] = r.to]
      BY <2>2 DEF DeleteCancels
    <3> QED
      BY <1>1, <3>1, CancelResultsFacts
  <2> QED
    BY <2>1, <2>2
<1> QED
  BY <1>1, <1>2, OrdersMoveBacked DEF loop

(***************************************************************************)
(* Steps that end a job.                                                   *)
(***************************************************************************)

\* Nothing is replaced here, so that an end of a job drops the session or
\* leaves it.
LEMMA JobEndsBacked ==
  ASSUME Standing, JobFails \/ JobEnds
  PROVE  /\ job' = NoJob /\ stored' = stored
         /\ db' = db \/ (db' = stored /\ stored.trade.st = db.trade.st)
<1>1. job.kind \notin {"reentry", "reexit"}
  BY DEF Standing, BackedInv, HandlerBacked
<1>2. holder = "rpc" => stored.trade.st = db.trade.st
  BY DEF Standing, IInv, CommittedInv
<1> QED
  BY <1>1, <1>2 DEF JobFails, JobEnds, Save

LEMMA SessionResetBacked ==
  ASSUME Standing, UNCHANGED <<xo, sent>> \/ (UNCHANGED xo /\ sent' = NotSent),
         \/ UNCHANGED <<db, stored>>
         \/ /\ db' = stored /\ stored' = stored
            /\ stored.trade.st = db.trade.st \/ pc' = "down"
         \/ db' = db /\ stored' = db,
         job' = NoJob, pc' # "stops", pc' = "recover" => pc = "recover",
         NonEmptyInv /\ OneEntryWatched
           => /\ pc' \notin {"toAdjust", "adjust"}
              /\ pc' \in {"down", "startup"} => pc \in {"down", "startup"}
  PROVE  StaysBacked
<1>1. DataBacked'
  BY DEF Standing, BackedInv, DataBacked
<1>2. HandlerBacked'
  <2>1. BoughtIn(xo, db) => BoughtIn(xo', db')
    BY DEF Standing, BackedInv, DataBacked
  <2>2. job'.kind = "none" /\ ~ Selling(job')
    BY JobFacts DEF Selling, ExitKinds
  <2>3. pc' = "recover" => BoughtIn(xo', db')
    BY <2>1 DEF Standing, BackedInv, HandlerBacked
  <2> QED
    BY <2>2, <2>3 DEF Standing, BackedInv, HandlerBacked, ExitKinds, EntryKinds
<1>3. RemovesEmpty
  BY DEF RemovesEmpty, Open
<1>4. NonEmptyInv /\ OneEntryWatched => NonEmptyInv'
  BY JobFacts DEF NonEmptyInv, Open, EntryKinds
<1> QED
  BY <1>1, <1>2, <1>3, <1>4 DEF StaysBacked, BackedInv

LEMMA JobRefusedBacked ==
  ASSUME Standing, JobRefused PROVE StaysBacked
<1>1. job # NoJob /\ pc # "stops"
  BY JobFacts DEF Standing, IInv, JobInv, JobRefused, ExitKinds
<1> QED
  BY <1>1, JobEndsBacked, SessionResetBacked DEF JobRefused, loop, NonEmptyInv

LEMMA JobDroppedBacked ==
  ASSUME Standing, JobDropped PROVE StaysBacked
<1>1. job # NoJob /\ pc # "stops"
  BY JobFacts DEF Standing, IInv, JobInv, JobDropped, ExitKinds, EntryKinds
<1> QED
  BY <1>1, JobEndsBacked, SessionResetBacked DEF JobDropped, loop, NonEmptyInv

LEMMA RefindDoneBacked ==
  ASSUME Standing, RefindDone PROVE StaysBacked
<1>1. job # NoJob /\ pc # "stops"
  BY JobFacts DEF Standing, IInv, JobInv, RefindDone
<1> QED
  BY <1>1, JobEndsBacked, SessionResetBacked DEF RefindDone, loop, NonEmptyInv

LEMMA EmptyBacked ==
  ASSUME NEW x
  PROVE  /\ Backed(x, EmptyDb) /\ ~ BoughtIn(x, EmptyDb) /\ NonEmpty(x, EmptyDb)
         /\ EmptyDb.trade.st = "none" /\ ~ Open(EmptyDb) /\ Known(EmptyDb) = {}
BY DEF Backed, BoughtIn, NonEmpty, Open, Known, EmptyDb, NoTrade, NoRow

LEMMA DeleteTradeBacked ==
  ASSUME Standing, DeleteTrade PROVE StaysBacked
<1>1. /\ db' = EmptyDb /\ stored' = EmptyDb /\ job' = NoJob /\ job.kind = "delete"
      /\ UNCHANGED <<xo, pc, todo, cancels, sent>>
  BY DEF DeleteTrade, Save, loop
<1>2. pc # "stops" /\ sent = NotSent /\ pc # "recover"
  BY <1>1, JobFacts
  DEF Standing, IInv, JobInv, SentInv, BackedInv, HandlerBacked, ExitKinds, EntryKinds
<1>3. DataBacked'
  BY <1>1, EmptyBacked DEF DataBacked
<1>4. HandlerBacked'
  BY <1>1, <1>2, JobFacts DEF Standing, BackedInv, HandlerBacked, Selling, ExitKinds, EntryKinds
<1>5. RemovesEmpty
  BY <1>1 DEF RemovesEmpty
<1>6. NonEmptyInv => NonEmptyInv'
  BY <1>1, EmptyBacked, JobFacts DEF NonEmptyInv, Open, EntryKinds
<1> QED
  BY <1>3, <1>4, <1>5, <1>6 DEF StaysBacked, BackedInv

LEMMA CancelErrorBacked ==
  ASSUME Standing, CancelError PROVE StaysBacked
<1>1. holder # "free" /\ (pc = "stops" => job = NoJob /\ cancels = cancels)
  BY DEF CancelError, Standing, IInv, JobInv, Quiet
<1>2. /\ job' = NoJob /\ stored' = stored
      /\ db' = db \/ (db' = stored /\ stored.trade.st = db.trade.st)
      /\ UNCHANGED <<xo, sent>> /\ cancels' = {}
  BY JobEndsBacked DEF CancelError
<1>3. pc' \in {pc, "toManage", AfterExits}
  <2>1. CASE holder = "main" /\ pc = "manage" /\ job = NoJob
    BY <2>1 DEF CancelError, IterationAborted
  <2>2. CASE holder = "main" /\ pc = "signal"
    BY <2>2 DEF CancelError
  <2>3. CASE /\ ~ (holder = "main" /\ pc = "manage" /\ job = NoJob)
             /\ ~ (holder = "main" /\ pc = "signal")
    BY <2>3 DEF CancelError
  <2> QED
    BY <2>1, <2>2, <2>3
<1>4. CASE pc' # "stops"
  BY <1>2, <1>3, <1>4, SessionResetBacked DEF AfterExits, OneEntryWatched, NonEmptyInv
<1>5. CASE pc' = "stops"
  <2>1. pc = "stops" /\ job = NoJob /\ holder = "main"
    BY <1>1, <1>3, <1>5 DEF AfterExits, Standing, IInv, TypeOK, JobInv, Sections
  <2>2. UNCHANGED <<db, stored, job, todo>>
    BY <1>2, <1>5, <2>1, JobFacts
    DEF CancelError, JobFails, JobEnds, IterationAborted, AfterExits
  <2> QED
    BY <1>2, <1>5, <2>1, <2>2, SameDataBacked
    DEF Standing, BackedInv, HandlerBacked, MovesOn, NonEmptyInv
<1> QED
  BY <1>4, <1>5

\* There is no crash where NonEmptyInv is kept.
LEMMA DiesBacked ==
  ASSUME Standing, Dies, Backed(xo', db'), stored' = db' PROVE StaysBacked
<1>1. ~ OneEntryWatched
  <2>1. crashes \in Nat /\ crashes < Crashes
    BY TradeOrdersAssumption DEF Dies, Standing, IInv, TypeOK
  <2> QED
    BY <2>1, TradeOrdersAssumption DEF OneEntryWatched
<1>2. DataBacked'
  BY DEF DataBacked
<1>3. HandlerBacked'
  BY JobFacts DEF Dies, HandlerBacked, Selling, ExitKinds, EntryKinds
<1>4. RemovesEmpty
  BY DEF Dies, RemovesEmpty
<1> QED
  BY <1>1, <1>2, <1>3, <1>4 DEF StaysBacked, BackedInv

LEMMA CrashBacked ==
  ASSUME Standing, Crash PROVE StaysBacked
BY DiesBacked DEF Crash, Standing, BackedInv, DataBacked

LEMMA RpcVisitFailsBacked ==
  ASSUME Standing, RpcVisitFails PROVE StaysBacked
<1>1. /\ db' = stored /\ stored' = stored /\ UNCHANGED <<xo, pc, job, sent>>
      /\ Quiet /\ holder = "rpc"
  BY DEF RpcVisitFails, Save, handler
<1>2. stored.trade.st = db.trade.st /\ pc # "stops"
  BY <1>1 DEF Standing, IInv, CommittedInv, JobInv, Sections
<1> QED
  BY <1>1, <1>2, SessionResetBacked DEF Quiet, NonEmptyInv

LEMMA ReleaseBacked ==
  ASSUME Standing, Release PROVE StaysBacked
<1>1. /\ Quiet /\ UNCHANGED <<xo, db, pc, job, sent>>
      /\ stored' \in {db, stored} /\ holder # "free"
      /\ holder = "main" => pc \in Sections
  BY DEF Release, SectionCommit, handler
<1>2. pc \in Sections
  BY <1>1 DEF Standing, IInv, TypeOK, JobInv
<1> QED
  BY <1>1, <1>2, SessionResetBacked DEF Quiet, Sections, NonEmptyInv

(***************************************************************************)
(* Steps that bring one order row up to date.                              *)
(***************************************************************************)

\* What the session has is backed, and what is committed is the same or has
\* bought the same.
LEMMA KeptData ==
  ASSUME Standing, OrdersStep(xo, xo'), UsedIn(xo') = UsedIn(xo), Backed(xo', db'),
         \/ stored' = db'
         \/ stored' = stored /\ (BoughtIn(xo', db') <=> BoughtIn(xo', db))
  PROVE  DataBacked'
<1>1. CASE stored' = db'
  BY <1>1 DEF DataBacked
<1>2. CASE stored' = stored /\ (BoughtIn(xo', db') <=> BoughtIn(xo', db))
  <2>1. Fits(xo, db) /\ Fits(xo, stored) /\ Backed(xo, stored)
    BY DEF Standing, IInv, BackedInv, DataBacked
  <2>2. Backed(xo', stored)
    BY <2>1, BackedFrame
  <2>3. (BoughtIn(xo', db) <=> BoughtIn(xo, db)) /\ (BoughtIn(xo', stored) <=> BoughtIn(xo, stored))
    BY <2>1, BoughtFrame
  <2>4. BoughtIn(xo, db) <=> BoughtIn(xo, stored)
    BY DEF Standing, BackedInv, DataBacked
  <2>5. BoughtIn(xo', db') <=> BoughtIn(xo', stored')
    BY <1>2, <2>3, <2>4
  <2>6. Backed(xo', stored')
    BY <1>2, <2>2
  <2> QED
    BY <2>5, <2>6 DEF DataBacked
<1> QED
  BY <1>1, <1>2

\* The handler goes on as it was.
LEMMA KeptHandler ==
  ASSUME Standing, UsedIn(xo') = UsedIn(xo), \A o \in Ids : xo'[o].side = xo[o].side,
         BoughtIn(xo, db) => BoughtIn(xo', db') \/ (~ Selling(job) /\ pc # "recover"),
         UNCHANGED <<job, sent>>, cancels' \subseteq Ids,
         \A o \in cancels' : o \in cancels \/ xo[o].side = "stoploss",
         pc' = pc \/ pc' \notin {"recover", "stops"}, todo' \subseteq todo
  PROVE  HandlerBacked'
<1>1. sent # NotSent => sent.id \in Ids
  BY DEF Standing, IInv, SentInv
<1>2. todo \subseteq Ids
  BY DEF Standing, IInv, TypeOK
<1>3. Selling(job') => BoughtIn(xo', db')
  BY DEF Standing, BackedInv, HandlerBacked
<1>4. pc' = "recover" => job' = NoJob /\ BoughtIn(xo', db')
  BY DEF Standing, BackedInv, HandlerBacked
<1> QED
  BY <1>1, <1>2, <1>3, <1>4 DEF Standing, BackedInv, HandlerBacked

LEMMA KeptNonEmpty ==
  ASSUME NonEmptyInv, NonEmpty(xo', db'), NonEmpty(xo', stored'), pc' \notin {"down", "startup", "toAdjust", "adjust"},
         job'.kind \in EntryKinds => job' = job /\ ~ Open(db') /\ ~ Open(stored')
  PROVE  NonEmptyInv'
BY DEF NonEmptyInv

\* update_trade_state for order o, whatever the handler does next.
LEMMA ApplyBacked ==
  ASSUME Standing, NEW o \in Known(db), NEW c \in Seen, Apply(o, c),
         OrdersFit(xo'), OrdersStep(xo, xo'), UsedIn(xo') = UsedIn(xo),
         \A p \in Ids : xo'[p].side = xo[p].side, Told(xo', o, c),
         c.status = "open" => xo[o].status = "open",
         UNCHANGED <<job, sent>>, cancels' \subseteq Ids,
         \A p \in cancels' : p \in cancels \/ xo[p].side = "stoploss",
         pc' = pc \/ pc' = AfterExits, todo' \subseteq todo,
         OneEntryWatched /\ NonEmptyInv
           => ~ CanceledEmpty(c) \/ xo[o].side # "entry" \/ BoughtIn(xo, db) \/ ~ Open(db)
  PROVE  StaysBacked
<1> DEFINE e == UpdateTradeState(db, o, c)
<1>1. /\ AnswersAreTrue /\ OrdersFit(xo) /\ Fits(xo, db) /\ Fits(xo, stored) /\ Backed(xo, db)
      /\ xo' \in Orders /\ o \in Ids
  BY DEF Standing, IInv, BackedInv, DataBacked, OrdersFit, Known
<1>2. Backed(xo', db) /\ (BoughtIn(xo', db) <=> BoughtIn(xo, db))
  BY <1>1, BackedFrame, BoughtFrame
<1>3. /\ Backed(xo', e)
      /\ BoughtIn(xo', db) => BoughtIn(xo', e)
      /\ CanceledEmpty(c) \/ c.status = "open" => (BoughtIn(xo', e) <=> BoughtIn(xo', db))
      /\ e.trade.st \in {db.trade.st, "closed"}
  BY <1>1, <1>2, StateBacked
<1>4. db' = e /\ stored' = e
  BY DEF Apply, Save
<1>5. OneEntryWatched /\ NonEmptyInv => NonEmpty(xo', e)
  <2> SUFFICES ASSUME OneEntryWatched, NonEmptyInv PROVE NonEmpty(xo', e)
    OBVIOUS
  <2>1. NonEmpty(xo', db)
    BY <1>1, NonEmptyFrame DEF NonEmptyInv, Fits
  <2>2. CASE ~ Open(db)
    BY <1>3, <2>2 DEF NonEmpty, Open
  <2>3. CASE Open(db)
    <3>1. ~ CanceledEmpty(c) \/ xo'[o].side # "entry" \/ BoughtIn(xo', db)
      BY <1>1, <1>2, <2>3
    <3> HIDE DEF e
    <3> QED
      BY <1>1, <1>2, <2>1, <3>1, StateNonEmpty DEF e
  <2> QED
    BY <2>2, <2>3
<1> HIDE DEF e
<1>6. DataBacked'
  BY <1>3, <1>4, KeptData
<1>7. HandlerBacked'
  BY <1>2, <1>3, <1>4, KeptHandler DEF AfterExits
<1>8. RemovesEmpty
  BY <1>3, <1>4 DEF RemovesEmpty, Open
<1>9. OneEntryWatched /\ NonEmptyInv => NonEmptyInv'
  <2> SUFFICES ASSUME OneEntryWatched, NonEmptyInv PROVE NonEmptyInv'
    OBVIOUS
  <2>1. db # EmptyDb
    BY EmptyBacked
  <2>2. pc' \notin {"down", "startup", "toAdjust", "adjust"}
    BY <2>1 DEF NonEmptyInv, AfterExits, OneEntryWatched
  <2>3. NonEmpty(xo', stored)
    BY <1>1, NonEmptyFrame DEF NonEmptyInv, Fits
  <2>4. NonEmpty(xo', db') /\ NonEmpty(xo', stored')
    BY <1>4, <1>5, <2>3
  <2>5. job.kind \in EntryKinds => ~ Open(db') /\ ~ Open(stored')
    BY <1>3, <1>4 DEF NonEmptyInv, Open
  <2> QED
    BY <2>2, <2>4, <2>5, KeptNonEmpty
<1> QED
  BY <1>6, <1>7, <1>8, <1>9 DEF StaysBacked, BackedInv

\* The same for an order seen as it is.
LEMMA ApplySnapBacked ==
  ASSUME Standing, NEW o \in Known(db), Apply(o, Snap(o)), UNCHANGED <<xo, job, sent>>,
         \A p \in cancels' : p \in cancels \/ xo[p].side = "stoploss", cancels' \subseteq Ids,
         pc' = pc \/ pc' = AfterExits, todo' \subseteq todo,
         OneEntryWatched /\ NonEmptyInv
           => \/ ~ CanceledEmpty(Snap(o)) \/ xo[o].side # "entry"
              \/ BoughtIn(xo, db) \/ ~ Open(db)
  PROVE  StaysBacked
<1>1. OrdersFit(xo) /\ o \in Ids
  BY DEF Standing, IInv, Known
<1>2. /\ Snap(o) \in Seen /\ Told(xo, o, Snap(o)) /\ OrdersStep(xo, xo)
      /\ Snap(o).status = xo[o].status
  BY <1>1, SnapFacts
<1> QED
  BY <1>1, <1>2, ApplyBacked

\* A stoploss order is only there when something was bought.
LEMMA CancelStopBacked ==
  ASSUME Standing, NEW o \in Ids, CancelStop(o) PROVE StaysBacked
<1>1. /\ o \in cancels /\ o \in Known(db) /\ cancels' = cancels \ {o} /\ cancels \subseteq Ids
      /\ UNCHANGED <<pc, todo, job, sent>> /\ xo[o].side = "stoploss"
      /\ OrdersFit(xo) /\ Fits(xo, db)
  BY DEF CancelStop, Standing, IInv, TypeOK, CancelsInv, loop
<1>2. CASE xo[o].status = "open"
  <2>1. PICK r \in CancelResults(o) : xo' = [xo EXCEPT ![o] = r.to] /\ Apply(o, r.c)
    BY <1>2 DEF CancelStop
  <2>2. /\ OrdersFit(xo') /\ OrdersStep(xo, xo') /\ UsedIn(xo') = UsedIn(xo)
        /\ r.c \in Seen /\ Told(xo', o, r.c)
        /\ \A p \in Ids : xo'[p].side = xo[p].side
    BY <1>1, <1>2, <2>1, CancelResultsFacts
  <2> QED
    BY <1>1, <1>2, <2>1, <2>2, ApplyBacked
<1>3. CASE xo[o].status # "open"
  <2>1. UNCHANGED <<xo, db, stored>>
    BY <1>3 DEF CancelStop
  <2> QED
    BY <1>1, <2>1, SameDataBacked
    DEF Standing, BackedInv, HandlerBacked, MovesOn, NonEmptyInv
<1> QED
  BY <1>2, <1>3

\* A job that runs into insufficient funds sells something, or enters a trade
\* that is not open.
LEMMA RefindBacked ==
  ASSUME Standing, NEW o \in Ids, Refind(o) PROVE StaysBacked
<1>1. /\ o \in refind /\ o \in Known(db) /\ cancels = {}
      /\ UNCHANGED <<xo, pc, todo, job, sent>>
  BY DEF Refind, Standing, IInv, CancelsInv, loop
<1>2. BoughtIn(xo, db) \/ job.kind \in EntryKinds
  <2>1. job.refinding /\ job.ready
    BY <1>1 DEF Standing, IInv, JobInv
  <2>2. job.kind \in ExitKinds \cup EntryKinds \cup {"stoploss"}
    BY <2>1 DEF Standing, IInv, JobInv
  <2> QED
    BY <2>1, <2>2 DEF Standing, BackedInv, HandlerBacked, Selling
<1>3. CASE Apply(o, Snap(o)) /\ cancels' = StopsAfterFill(db', o, Snap(o))
  <2>1. \A p \in cancels' : xo[p].side = "stoploss" /\ p \in Ids
    BY <1>3, StopsAfterFillFacts DEF Known
  <2> QED
    BY <1>1, <1>2, <1>3, <2>1, ApplySnapBacked DEF NonEmptyInv
<1>4. CASE UNCHANGED <<db, stored, cancels>>
  BY <1>1, <1>4, SameDataBacked
  DEF Standing, BackedInv, HandlerBacked, MovesOn, NonEmptyInv
<1> QED
  BY <1>3, <1>4 DEF Refind

\* The fee of an entry that is done and has bought something is looked up.
LEMMA AssignFeesBacked ==
  ASSUME Standing, AssignFees PROVE StaysBacked
<1>1. UNCHANGED <<xo, pc, todo, cancels, job, sent>> /\ cancels \subseteq Ids
  BY DEF AssignFees, Standing, IInv, TypeOK, loop, handler
<1>2. PICK o \in EntriesSettled(db) : Apply(o, Snap(o))
  BY DEF AssignFees
<1>3. o \in Known(db) /\ BoughtIn(xo, db)
  BY <1>2, SuccessfulIsBought DEF EntriesSettled, SuccessfulEntries
<1> QED
  BY <1>1, <1>2, <1>3, ApplySnapBacked

LEMMA ManageUpdateBacked ==
  ASSUME Standing, NEW o \in Ids, ManageUpdate(o) PROVE StaysBacked
<1>1. /\ o \in Known(db) /\ ~ CanceledEmpty(Snap(o)) /\ Apply(o, Snap(o)) /\ todo' \subseteq todo
      /\ UNCHANGED <<xo, pc, job, sent>> /\ cancels' = StopsAfterFill(db', o, Snap(o))
  BY DEF ManageUpdate, Managing
<1>2. \A p \in cancels' : xo[p].side = "stoploss" /\ p \in Ids
  BY <1>1, StopsAfterFillFacts DEF Known
<1> QED
  BY <1>1, <1>2, ApplySnapBacked

\* Where NonEmptyInv is kept there is nothing to update at startup.
LEMMA StartupUpdateBacked ==
  ASSUME Standing, NEW o \in Ids, StartupUpdate(o) PROVE StaysBacked
<1>1. /\ o \in Known(db) /\ Apply(o, Snap(o)) /\ todo' \subseteq todo /\ pc = "startup"
      /\ UNCHANGED <<xo, pc, job, sent>> /\ cancels' = StopsAfterFill(db', o, Snap(o))
  BY DEF StartupUpdate, Starting
<1>2. \A p \in cancels' : xo[p].side = "stoploss" /\ p \in Ids
  BY <1>1, StopsAfterFillFacts DEF Known
<1>3. ~ NonEmptyInv
  BY <1>1, EmptyBacked DEF NonEmptyInv
<1> QED
  BY <1>1, <1>2, <1>3, ApplySnapBacked

LEMMA StopFetchedBacked ==
  ASSUME Standing, NEW o \in Ids, StopFetched(o) PROVE StaysBacked
<1>1. /\ o \in todo /\ Apply(o, Snap(o)) /\ pc = "stops"
      /\ UNCHANGED <<xo, cancels, job, sent>>
      /\ todo' \subseteq todo /\ (pc' = pc \/ pc' = AfterExits)
  BY DEF StopFetched, handler
<1>2. o \in Known(db) /\ xo[o].side # "entry" /\ cancels \subseteq Ids
  BY <1>1 DEF Standing, IInv, TypeOK, JobInv, BackedInv, HandlerBacked
<1> QED
  BY <1>1, <1>2, ApplySnapBacked

(***************************************************************************)
(* Steps that cancel an order.                                             *)
(***************************************************************************)

\* handle_cancel_order from a session d: what was bought stays bought.
LEMMA HandledBacked ==
  ASSUME AnswersAreTrue, NEW y \in Orders, OrdersFit(xo), OrdersStep(xo, y), UsedIn(y) = UsedIn(xo),
         \A p \in Ids : y[p].side = xo[p].side,
         NEW d, Fits(xo, d), Backed(xo, d),
         NEW o \in Known(d), NEW c \in Seen, Told(y, o, c), c.status = "open" => xo[o].status = "open",
         NEW s, NEW replacing
  PROVE  LET h == HandleCancel(d, o, s, c, replacing)
         IN  /\ Backed(y, h.d)
             /\ BoughtIn(xo, d) => BoughtIn(y, h.d)
             /\ ~ h.commit => (BoughtIn(y, h.d) <=> BoughtIn(y, d))
             /\ h.d.trade.st = "none" => d.trade.st = "none" \/ \A p \in Known(d) : y[p].filled = 0
             /\ h.d.trade.st = "open" => d.trade.st = "open"
             /\ NonEmpty(xo, d) /\ (~ replacing \/ BoughtIn(xo, d) \/ d.trade.st # "open")
                  => NonEmpty(y, h.d)
<1> DEFINE h == HandleCancel(d, o, s, c, replacing)
<1>1. Backed(y, d) /\ (BoughtIn(y, d) <=> BoughtIn(xo, d)) /\ Fits(y, d)
  BY BackedFrame, BoughtFrame, FitsFrame DEF OrdersFit
<1>2. NonEmpty(xo, d) => NonEmpty(y, d)
  BY NonEmptyFrame DEF Fits
<1>3. /\ Backed(y, h.d)
      /\ ~ h.commit => (BoughtIn(y, h.d) <=> BoughtIn(y, d))
      /\ \/ h.d.trade.st \in {d.trade.st, "closed"} /\ (BoughtIn(y, d) => BoughtIn(y, h.d))
         \/ h.d = EmptyDb /\ ~ replacing /\ \A p \in Known(d) : y[p].filled = 0
      /\ NonEmpty(y, d) /\ (~ replacing \/ BoughtIn(y, d) \/ d.trade.st # "open")
           => NonEmpty(y, h.d)
  BY <1>1, CancelBacked
<1> HIDE DEF h
<1>4. BoughtIn(y, d) => BoughtIn(y, h.d)
  <2> SUFFICES ASSUME BoughtIn(y, d), \A p \in Known(d) : y[p].filled = 0 PROVE FALSE
    BY <1>3
  <2>1. PICK p \in Ids : d.rows[p].known /\ ~ d.rows[p].open /\ d.rows[p].filled > 0
    BY DEF BoughtIn
  <2>2. d.rows[p].filled = y[p].filled
    BY <1>1, <2>1 DEF Fits, FinalIn
  <2> QED
    BY <2>1, <2>2 DEF Known
<1> QED
  BY <1>1, <1>2, <1>3, <1>4, EmptyBacked DEF h

\* Replacing an order: nothing is deleted.  Otherwise what is deleted has come to
\* nothing.
LEMMA CancelOrderBacked ==
  ASSUME Standing, NEW o \in Ids, CancelOrder(o) PROVE StaysBacked
<1> DEFINE request == CancelRequested(db, o, Snap(o))
           replacing == job.kind # "force"
           h(r) == HandleCancel(db, o, Snap(o), r.c, replacing)
<1>1. /\ AnswersAreTrue /\ IInv /\ OrdersFit(xo) /\ Fits(xo, db) /\ Fits(xo, stored)
      /\ Backed(xo, db) /\ job \in Jobs /\ cancels \subseteq Ids
  BY DEF Standing, BackedInv, DataBacked, IInv, TypeOK, Jobs
<1>2. /\ o \in cancels /\ o \in Known(db) /\ xo[o].side # "stoploss" /\ job.kind # "delete"
      /\ UNCHANGED <<pc, todo, sent>>
  BY <1>1 DEF CancelOrder, CancelsInv, IInv, loop
<1>3. /\ sent = NotSent /\ job # NoJob
      /\ job.kind = "force" \/ (job.kind \in ExitKinds \cup EntryKinds /\ job.ready)
  <2>1. job.kind \notin {"none", "stoploss"}
    BY <1>1, <1>2 DEF IInv, CancelsInv
  <2>2. job.kind \in ExitKinds \cup EntryKinds => job.ready
    BY <1>2 DEF Standing, BackedInv, HandlerBacked
  <2> QED
    BY <1>1, <1>2, <2>1, <2>2, JobFacts DEF IInv, SentInv, Jobs, Kinds
<1>4. request \in BOOLEAN /\ (request => xo[o].status = "open")
  BY DEF CancelRequested, Snap
<1>5. PICK r \in IF request THEN CancelResults(o) ELSE {[to |-> xo[o], c |-> Snap(o)]} :
        /\ xo' = [xo EXCEPT ![o] = r.to]
        /\ Save(h(r).d, h(r).commit)
        /\ cancels' = ((cancels \ {o}) \cap Known(h(r).d)) \cup StopsAfterFill(h(r).d, o, r.c)
        /\ job' = [job EXCEPT !.entered =
                     @ \/ (job.kind = "force" /\ xo[o].side = "entry" /\ h(r).ok)]
  BY DEF CancelOrder
<1> HIDE DEF request, replacing
<1>6. /\ xo' \in Orders /\ OrdersStep(xo, xo') /\ UsedIn(xo') = UsedIn(xo)
      /\ r.c \in Seen /\ Told(xo', o, r.c)
      /\ r.c.status = "open" => xo[o].status = "open"
      /\ \A p \in Ids : xo'[p].side = xo[p].side
  <2>1. \/ xo[o].status = "open" /\ r \in CancelResults(o)
        \/ r.to = xo[o] /\ r.c = Snap(o)
    BY <1>4
  <2> QED
    BY <1>1, <1>5, <2>1, ResultFacts
<1> DEFINE e == h(r).d
           done == h(r).commit
<1>7. /\ Backed(xo', e)
      /\ BoughtIn(xo, db) => BoughtIn(xo', e)
      /\ ~ done => (BoughtIn(xo', e) <=> BoughtIn(xo', db))
      /\ e.trade.st = "none" => db.trade.st = "none" \/ \A p \in Known(db) : xo'[p].filled = 0
      /\ e.trade.st = "open" => db.trade.st = "open"
      /\ NonEmpty(xo, db) /\ (~ replacing \/ BoughtIn(xo, db) \/ db.trade.st # "open")
           => NonEmpty(xo', e)
  BY <1>1, <1>2, <1>6, HandledBacked
<1>8. /\ db' = e /\ stored' = IF done THEN e ELSE stored
      /\ job'.kind = job.kind /\ job'.ready = job.ready /\ job'.want = job.want
      /\ \A p \in cancels' : p \in cancels \/ xo[p].side = "stoploss"
  BY <1>1, <1>5, StopsAfterFillFacts DEF Save, Jobs
<1> HIDE DEF h, e, done
<1>9. DataBacked'
  BY <1>6, <1>7, <1>8, KeptData
<1>10. HandlerBacked'
  BY <1>2, <1>3, <1>6, <1>7, <1>8 DEF Standing, BackedInv, HandlerBacked, Selling, ExitKinds, EntryKinds, IInv, TypeOK
<1>11. RemovesEmpty
  BY <1>7, <1>8 DEF RemovesEmpty, Open
<1>12. NonEmptyInv => NonEmptyInv'
  <2> SUFFICES ASSUME NonEmptyInv PROVE NonEmptyInv'
    OBVIOUS
  <2>1. db # EmptyDb
    BY <1>2, EmptyBacked
  <2>2. ~ replacing \/ BoughtIn(xo, db) \/ db.trade.st # "open"
    BY <1>3 DEF replacing, Standing, BackedInv, HandlerBacked, Selling, NonEmptyInv, Open
  <2>3. NonEmpty(xo', e) /\ NonEmpty(xo', stored)
    BY <1>1, <1>6, <1>7, <2>2, NonEmptyFrame DEF NonEmptyInv, Fits
  <2> QED
    BY <1>2, <1>7, <1>8, <2>1, <2>3 DEF NonEmptyInv, Open
<1> QED
  BY <1>9, <1>10, <1>11, <1>12 DEF StaysBacked, BackedInv

\* An open order that has waited for too long, from a session d0 and a database
\* s0 that have bought the same.
LEMMA CancelOpenBacked ==
  ASSUME Standing, Quiet, NEW d0, Fits(xo, d0), Backed(xo, d0), NEW s0, Fits(xo, s0), Backed(xo, s0),
         BoughtIn(xo, s0) <=> BoughtIn(xo, d0),
         Known(d0) = Known(db), d0.trade.st = "none" => db.trade.st = "none",
         NEW o \in Known(d0), xo[o].status = "open", CancelOpen(o, "timeout", d0, s0),
         UNCHANGED <<pc, sent>>, pc \notin {"recover", "stops"},
         OneEntryWatched /\ NonEmptyInv
           => NonEmpty(xo, d0) /\ NonEmpty(xo, s0) /\ pc \notin {"down", "startup"}
  PROVE  StaysBacked
<1> DEFINE request == CancelRequested(d0, o, Snap(o))
           entry == xo[o].side = "entry"
           replacing == FALSE
           h(r) == HandleCancel(d0, o, Snap(o), r.c, replacing)
<1>1. /\ AnswersAreTrue /\ IInv /\ OrdersFit(xo) /\ sent = NotSent /\ o \in Ids /\ xo \in Orders
  BY DEF Standing, IInv, Quiet, Known, OrdersFit
<1>2. request \in BOOLEAN /\ (request => xo[o].status = "open")
  BY DEF CancelRequested, Snap
<1>3. PICK r \in IF request THEN CancelResults(o) ELSE {[to |-> xo[o], c |-> Snap(o)]} :
        LET e == h(r).d
            emergency == ~ entry /\ h(r).ok /\ EmergencyDue(e)
        IN  /\ xo' = [xo EXCEPT ![o] = r.to]
            /\ db' = e /\ stored' = IF h(r).commit THEN e ELSE s0
            /\ job' = IF emergency THEN Job("emergency", xo[o].amount) ELSE NoJob
            /\ cancels' = StopsAfterFill(e, o, r.c)
                            \cup (IF job'.kind \in ExitKinds THEN StopsToCancel(e) ELSE {})
  BY DEF CancelOpen
<1> HIDE DEF request, replacing
<1>4. /\ xo' \in Orders /\ OrdersStep(xo, xo') /\ UsedIn(xo') = UsedIn(xo)
      /\ r.c \in Seen /\ Told(xo', o, r.c)
      /\ \A p \in Ids : xo'[p].side = xo[p].side
  <2>1. \/ xo[o].status = "open" /\ r \in CancelResults(o)
        \/ r.to = xo[o] /\ r.c = Snap(o)
    BY <1>2
  <2> QED
    BY <1>1, <1>3, <2>1, ResultFacts
<1> DEFINE e == h(r).d
           done == h(r).commit
<1>5. /\ Backed(xo', e)
      /\ BoughtIn(xo, d0) => BoughtIn(xo', e)
      /\ ~ done => (BoughtIn(xo', e) <=> BoughtIn(xo', d0))
      /\ e.trade.st = "none" => d0.trade.st = "none" \/ \A p \in Known(d0) : xo'[p].filled = 0
      /\ ~ replacing /\ NonEmpty(xo, d0) => NonEmpty(xo', e)
  BY <1>1, <1>4, HandledBacked
<1>6. /\ db' = e /\ stored' = IF done THEN e ELSE s0
      /\ job' = NoJob \/ (~ entry /\ job' = Job("emergency", xo[o].amount))
      /\ \A p \in cancels' : xo[p].side = "stoploss" /\ p \in Ids
  BY <1>3, StopsAfterFillFacts, RowSets DEF StopsToCancel, Known
<1> HIDE DEF h, e, done
<1>7. DataBacked'
  <2>1. Backed(xo', s0) /\ (BoughtIn(xo', s0) <=> BoughtIn(xo, s0)) /\ (BoughtIn(xo', d0) <=> BoughtIn(xo, d0))
    BY <1>4, BackedFrame, BoughtFrame
  <2>2. Backed(xo', stored') /\ (BoughtIn(xo', db') <=> BoughtIn(xo', stored'))
    BY <1>5, <1>6, <2>1
  <2> QED
    BY <1>5, <1>6, <2>2 DEF DataBacked
<1>8. /\ job'.kind \in {"none", "emergency"} /\ ~ job'.ready
      /\ job'.kind = "emergency" => ~ entry
  <2>1. xo[o].amount \in Nat /\ "emergency" \in Kinds
    BY <1>1 DEF Orders, Kinds, ExitKinds
  <2> QED
    BY <1>6, <2>1, JobFacts
<1>9. HandlerBacked'
  <2>1. ~ entry => BoughtIn(xo', db')
    BY <1>5, <1>6, SoldWasBought
  <2> QED
    BY <1>1, <1>4, <1>6, <1>8, <2>1 DEF HandlerBacked, Selling, ExitKinds, EntryKinds
<1>10. RemovesEmpty
  BY <1>5, <1>6 DEF RemovesEmpty, Open
<1>11. OneEntryWatched /\ NonEmptyInv => NonEmptyInv'
  <2> SUFFICES ASSUME OneEntryWatched, NonEmptyInv PROVE NonEmptyInv'
    OBVIOUS
  <2>1. NonEmpty(xo', e) /\ NonEmpty(xo', s0)
    BY <1>4, <1>5, NonEmptyFrame DEF replacing, Fits
  <2> QED
    BY <1>6, <1>8, <2>1, KeptNonEmpty DEF NonEmptyInv, EntryKinds
<1> QED
  BY <1>7, <1>9, <1>10, <1>11 DEF StaysBacked, BackedInv

LEMMA ManageCancelBacked ==
  ASSUME Standing, NEW o \in Ids, NEW why \in {"timeout", "drop", "replace"}, ManageCancel(o, why)
  PROVE  StaysBacked
<1> DEFINE d == UpdateTradeState(db, o, Snap(o))
<1>1. /\ Quiet /\ o \in Known(db) /\ pc = "manage" /\ why = "timeout"
      /\ xo[o].status = "open" /\ CancelOpen(o, why, d, d)
      /\ UNCHANGED <<pc, sent>>
  BY DEF ManageCancel, Managing, Standing
<1>2. /\ AnswersAreTrue /\ OrdersFit(xo) /\ xo \in Orders /\ Fits(xo, db) /\ db \in Databases /\ Backed(xo, db)
  BY DEF Standing, IInv, BackedInv, DataBacked, OrdersFit, Fits
<1>3. /\ Snap(o) \in Seen /\ Told(xo, o, Snap(o)) /\ OrdersStep(xo, xo)
      /\ Snap(o).status = xo[o].status
  BY <1>2, SnapFacts
<1>4. Fits(xo, d)
  BY <1>1, <1>2, <1>3, FitsState
<1>5. Backed(xo, d) /\ d.trade.st \in {db.trade.st, "closed"}
  BY <1>1, <1>2, <1>3, StateBacked
<1>6. NonEmpty(xo, db) => NonEmpty(xo, d)
  BY <1>1, <1>2, <1>3, StateNonEmpty DEF CanceledEmpty
<1>7. Known(d) = Known(db)
  <2>1. d.rows = [db.rows EXCEPT ![o] = Row(Snap(o))]
    BY <1>2, <1>3, UpdateStateFacts
  <2> HIDE DEF d
  <2> QED
    BY <1>1, <1>2, <2>1, RowKnown
<1> HIDE DEF d
<1> QED
  BY <1>1, <1>4, <1>5, <1>6, <1>7, CancelOpenBacked DEF NonEmptyInv

LEMMA RpcVisitsBacked ==
  ASSUME Standing, NEW o \in Ids, RpcVisits(o) PROVE StaysBacked
<1>1. /\ Quiet /\ o \in Known(db) /\ holder = "rpc" /\ todo' \subseteq todo
      /\ UNCHANGED <<pc, sent>>
  BY DEF RpcVisits
<1>2. /\ AnswersAreTrue /\ pc \in Sections /\ OrdersFit(xo) /\ xo \in Orders /\ Fits(xo, db) /\ Fits(xo, stored)
      /\ Backed(xo, db) /\ Backed(xo, stored) /\ (BoughtIn(xo, stored) <=> BoughtIn(xo, db))
  BY <1>1 DEF Standing, IInv, JobInv, BackedInv, DataBacked, OrdersFit
<1>3. CASE xo[o].status = "open" /\ CancelOpen(o, "timeout", db, stored)
  BY <1>1, <1>2, <1>3, CancelOpenBacked DEF NonEmptyInv, Sections
<1>4. CASE /\ xo[o].status # "open"
           /\ LET h == HandleCancel(db, o, Snap(o), Snap(o), FALSE)
              IN  Save(h.d, h.commit) /\ cancels' = StopsAfterFill(h.d, o, Snap(o))
           /\ UNCHANGED <<xo, job>>
  <2> DEFINE replacing == FALSE
             h == HandleCancel(db, o, Snap(o), Snap(o), replacing)
  <2>1. /\ Snap(o) \in Seen /\ Told(xo, o, Snap(o)) /\ OrdersStep(xo, xo)
        /\ Snap(o).status = xo[o].status /\ o \in Ids
    BY <1>1, <1>2, SnapFacts DEF Known
  <2>2. /\ db' = h.d /\ stored' = IF h.commit THEN h.d ELSE stored
        /\ cancels' = StopsAfterFill(h.d, o, Snap(o)) /\ UNCHANGED <<xo, job>>
    BY <1>4 DEF Save
  <2> HIDE DEF replacing
  <2>3. /\ Backed(xo, h.d)
        /\ BoughtIn(xo, db) => BoughtIn(xo, h.d)
        /\ ~ h.commit => (BoughtIn(xo, h.d) <=> BoughtIn(xo, db))
        /\ h.d.trade.st = "none" => db.trade.st = "none" \/ \A p \in Known(db) : xo[p].filled = 0
        /\ h.d.trade.st = "open" => db.trade.st = "open"
        /\ NonEmpty(xo, db) /\ ~ replacing => NonEmpty(xo, h.d)
    BY <1>1, <1>2, <2>1, HandledBacked
  <2> HIDE DEF h
  <2>4. DataBacked'
    BY <2>1, <2>2, <2>3, KeptData
  <2>5. HandlerBacked'
    <3>1. \A p \in cancels' : xo[p].side = "stoploss" /\ p \in Ids
      BY <2>2, StopsAfterFillFacts DEF Known
    <3> QED
      BY <1>1, <1>2, <2>2, <2>3, <3>1, KeptHandler
  <2>6. RemovesEmpty
    BY <2>2, <2>3 DEF RemovesEmpty, Open
  <2>7. NonEmptyInv => NonEmptyInv'
    BY <1>1, <1>2, <2>2, <2>3, JobFacts, KeptNonEmpty DEF replacing, NonEmptyInv, Quiet, Sections, EntryKinds
  <2> QED
    BY <2>4, <2>5, <2>6, <2>7 DEF StaysBacked, BackedInv
<1> QED
  BY <1>3, <1>4 DEF RpcVisits

LEMMA StartupUnknownBacked ==
  ASSUME Standing, NEW o \in Ids, StartupUnknown(o) PROVE StaysBacked
BY DEF StartupUnknown, Standing, AnswersAreTrue

\* An order that was canceled with nothing filled: when it was all there was, the
\* trade goes with it.
LEMMA CanceledLeavesSome ==
  ASSUME AnswersAreTrue, OrdersFit(xo), NEW d, Fits(xo, d), Backed(xo, d), NonEmpty(xo, d),
         NEW o \in Known(d), CanceledEmpty(Snap(o)),
         NEW u, Fits(xo, u), Backed(xo, u), u.rows = [d.rows EXCEPT ![o] = Row(Snap(o))],
         u.trade = d.trade, BoughtIn(xo, u) <=> BoughtIn(xo, d), NEW replacing, ~ replacing
  PROVE  NonEmpty(xo, HandleCancel(u, o, Snap(o), Snap(o), replacing).d)
<1> DEFINE h == HandleCancel(u, o, Snap(o), Snap(o), replacing)
<1>1. /\ d \in Databases /\ xo \in Orders /\ o \in Ids /\ d.rows[o].known /\ xo[o].status # "none"
      /\ \A p \in Ids : xo[p].side = xo[p].side
  BY DEF Fits, OrdersFit, Known
<1>2. /\ Snap(o) \in Seen /\ Told(xo, o, Snap(o)) /\ OrdersStep(xo, xo)
      /\ Snap(o).status = xo[o].status
  BY <1>1, SnapFacts
<1>3. Snap(o).status # "open" /\ Snap(o).filled = 0
  BY DEF CanceledEmpty
<1>4. /\ u.rows[o] = Row(Snap(o)) /\ \A p \in Ids : p # o => u.rows[p] = d.rows[p]
  BY <1>1 DEF Databases
<1>5. o \in Known(u)
  BY <1>1, <1>4 DEF Known, Row
<1>6. NonEmpty(xo, u) => NonEmpty(xo, h.d)
  BY <1>1, <1>2, <1>5, HandledBacked
<1>7. CASE NonEmpty(xo, u)
  BY <1>6, <1>7
<1>8. CASE ~ NonEmpty(xo, u)
  <2>1. u.trade.st = "open" /\ ~ BoughtIn(xo, u)
    BY <1>8 DEF NonEmpty
  <2>2. \A p \in Known(u) : xo[p].side = "entry"
    BY <2>1, SoldWasBought
  <2>3. OpenRows(u) = {}
    <3> SUFFICES ASSUME NEW p \in OpenRows(u) PROVE FALSE
      OBVIOUS
    <3>1. p \in Ids /\ u.rows[p].known /\ u.rows[p].open /\ xo[p].side = "entry"
      BY <2>2 DEF OpenRows, Known
    <3> QED
      BY <1>8, <3>1 DEF NonEmpty
  <2>4. SuccessfulEntries(u) = {}
    BY <2>1, SuccessfulIsBought
  <2>5. Deletable(u, o, replacing)
    BY <2>3, <2>4 DEF Deletable
  <2>6. h = [d |-> EmptyDb, commit |-> TRUE, ok |-> TRUE]
    <3>1. ~ CancelRequested(u, o, Snap(o)) /\ xo[o].side = "entry" /\ Unfilled(Snap(o))
      BY <1>3, <1>5, <2>2 DEF CancelRequested, Unfilled
    <3> QED
      BY <1>3, <2>5, <3>1 DEF HandleCancel
  <2> QED
    BY <2>6, EmptyBacked
<1> QED
  BY <1>7, <1>8

LEMMA ManageCanceledBacked ==
  ASSUME Standing, NEW o \in Ids, ManageCanceled(o) PROVE StaysBacked
<1> DEFINE u == UpdateRow(db, o, Snap(o))
           replacing == FALSE
           h == HandleCancel(u, o, Snap(o), Snap(o), replacing)
<1>1. /\ Quiet /\ o \in Known(db) /\ pc = "manage" /\ todo' \subseteq todo
      /\ CanceledEmpty(Snap(o)) /\ UNCHANGED <<xo, pc, cancels, job, sent>>
      /\ db' = h.d /\ stored' = IF h.commit THEN h.d ELSE stored
  BY DEF ManageCanceled, Managing, Save
<1>2. /\ AnswersAreTrue /\ OrdersFit(xo) /\ xo \in Orders /\ Fits(xo, db) /\ db \in Databases
      /\ Backed(xo, db) /\ xo[o].status # "none" /\ cancels \subseteq Ids /\ db.rows[o].known
  BY <1>1 DEF Standing, IInv, TypeOK, BackedInv, DataBacked, OrdersFit, Fits, Known
<1>3. /\ Snap(o) \in Seen /\ Told(xo, o, Snap(o)) /\ OrdersStep(xo, xo)
      /\ Snap(o).status = xo[o].status /\ Snap(o).status # "open"
  BY <1>1, <1>2, SnapFacts DEF CanceledEmpty
<1>4. u \in Databases /\ u.rows = [db.rows EXCEPT ![o] = Row(Snap(o))] /\ u.trade = db.trade
  BY <1>2, <1>3, UpdateRowFacts
<1>5. Fits(xo, u)
  BY <1>1, <1>2, <1>3, FitsNewRow
<1> HIDE DEF u
<1>6. Known(u) = Known(db) /\ o <= o
  BY <1>1, <1>2, <1>4, RowKnown, IdsFinite
<1>7. Backed(xo, u) /\ (BoughtIn(xo, u) <=> BoughtIn(xo, db))
  BY <1>1, <1>2, <1>3, <1>4, <1>6, RowBacked
<1> HIDE DEF replacing
<1>8. /\ Backed(xo, h.d)
      /\ BoughtIn(xo, u) => BoughtIn(xo, h.d)
      /\ ~ h.commit => (BoughtIn(xo, h.d) <=> BoughtIn(xo, u))
      /\ h.d.trade.st = "none" => u.trade.st = "none" \/ \A p \in Known(u) : xo[p].filled = 0
      /\ h.d.trade.st = "open" => u.trade.st = "open"
  BY <1>1, <1>2, <1>3, <1>5, <1>6, <1>7, HandledBacked
<1>9. NonEmpty(xo, db) => NonEmpty(xo, h.d)
  BY <1>1, <1>2, <1>4, <1>5, <1>7, CanceledLeavesSome DEF replacing
<1> HIDE DEF h
<1>10. DataBacked'
  BY <1>1, <1>3, <1>7, <1>8, KeptData
<1>11. HandlerBacked'
  BY <1>1, <1>2, <1>7, <1>8, KeptHandler
<1>12. RemovesEmpty
  BY <1>1, <1>4, <1>6, <1>8 DEF RemovesEmpty, Open
<1>13. NonEmptyInv => NonEmptyInv'
  BY <1>1, <1>9, JobFacts, KeptNonEmpty DEF NonEmptyInv, Quiet, EntryKinds
<1> QED
  BY <1>10, <1>11, <1>12, <1>13 DEF StaysBacked, BackedInv

(***************************************************************************)
(* Steps that create an order and record it.                               *)
(***************************************************************************)

\* A handler that is to place anything but an entry sells what was bought.
LEMMA PlacingSells ==
  ASSUME Standing, Placing
  PROVE  /\ Side(job.kind) = "entry" <=> job.kind \in EntryKinds
         /\ job.kind \in EntryKinds \/ BoughtIn(xo, db)
         /\ sent = NotSent /\ pc \notin {"recover", "stops"} /\ job # NoJob
<1>1. job.ready /\ job.kind \in ExitKinds \cup EntryKinds \cup {"stoploss"} /\ sent = NotSent
  BY DEF Placing, Standing, IInv, JobInv
<1>2. job.kind \in EntryKinds \/ BoughtIn(xo, db)
  BY <1>1 DEF Standing, BackedInv, HandlerBacked, Selling
<1>3. Side(job.kind) = "entry" <=> job.kind \in EntryKinds
  BY <1>1 DEF Side, EntryKinds, ExitKinds
<1>4. job # NoJob /\ pc \notin {"recover", "stops"}
  BY <1>1, JobFacts DEF Standing, IInv, JobInv, BackedInv, HandlerBacked
<1> QED
  BY <1>1, <1>2, <1>3, <1>4

\* A new order, which only sells what was bought.
LEMMA NewOrderBacked ==
  ASSUME NEW x, NEW y, NEW new \in Ids, x[new].status = "none", OrdersStep(x, y),
         \A p \in Ids : p # new => y[p] = x[p],
         NEW d, Fits(x, d), Backed(x, d), y[new].side = "entry" \/ BoughtIn(x, d)
  PROVE  /\ Backed(y, d) /\ (BoughtIn(y, d) <=> BoughtIn(x, d))
         /\ NonEmpty(x, d) => NonEmpty(y, d)
<1>1. BoughtIn(y, d) <=> BoughtIn(x, d)
  BY BoughtFrame
<1>2. Backed(y, d)
  <2>1. ASSUME NEW k \in Ids, NEW o \in Ids, d.rows[k].known, k <= o, y[o].status # "none", y[o].side # "entry"
        PROVE  BoughtIn(y, d)
    <3>1. CASE o = new
      BY <1>1, <2>1, <3>1
    <3>2. CASE o # new
      BY <1>1, <2>1, <3>2 DEF Backed
    <3> QED
      BY <3>1, <3>2
  <2> QED
    BY <1>1, <2>1 DEF Backed
<1>3. \A o \in Ids : d.rows[o].known /\ x[o].side # "stoploss" => y[o].side # "stoploss"
  BY DEF Fits
<1>4. NonEmpty(x, d) => NonEmpty(y, d)
  BY <1>3, NonEmptyFrame
<1> QED
  BY <1>1, <1>2, <1>4

LEMMA PlaceBacked ==
  ASSUME Standing, Place PROVE StaysBacked
<1>1. /\ IInv /\ OrdersFit(xo) /\ Fits(xo, db) /\ Fits(xo, stored) /\ Backed(xo, db) /\ Backed(xo, stored)
      /\ (BoughtIn(xo, stored) <=> BoughtIn(xo, db))
      /\ Placing /\ NextId <= MaxOrders /\ UNCHANGED <<db, stored, pc, todo, cancels, job>>
      /\ cancels = {}
  BY DEF Standing, IInv, BackedInv, DataBacked, Place, Placing, loop
<1>2. PICK x \in NewOrders :
        /\ xo' = [xo EXCEPT ![NextId] = x]
        /\ sent' = [id |-> NextId, c |-> [status |-> x.status, filled |-> x.filled]]
  BY DEF Place
<1>3. /\ x \in AnOrder /\ x.status # "none" /\ x.filled <= x.amount
      /\ x.status = "open" => x.filled < x.amount
  BY <1>1, NewOrderFacts
<1>4. x.side = Side(job.kind)
  BY DEF NewOrders, Order
<1> DEFINE new == NextId
<1>5. /\ OrdersStep(xo, xo') /\ xo'[new] = x
      /\ \A p \in Ids : p # new => xo'[p] = xo[p]
  BY <1>1, <1>2, <1>3, NewOrderFits
<1>6. new \in Ids /\ new \in Nat /\ xo[new].status = "none" /\ UsedIn(xo) = 1 .. new - 1
  BY <1>1, NextIdIsNew
<1>7. sent'.id = new
  BY <1>2
<1> HIDE DEF new
<1>8. /\ Side(job.kind) = "entry" <=> job.kind \in EntryKinds
      /\ job.kind \in EntryKinds \/ BoughtIn(xo, db)
      /\ pc \notin {"recover", "stops"}
  BY <1>1, PlacingSells
<1>9. UsedIn(xo') = 1 .. new
  <2>1. \A p \in Ids : xo'[p].status # "none" <=> (p = new \/ xo[p].status # "none")
    BY <1>3, <1>5
  <2>2. \A p \in Ids : xo[p].status # "none" <=> p \in 1 .. new - 1
    BY <1>6 DEF UsedIn
  <2>3. \A p \in Ids : xo'[p].status # "none" <=> p \in 1 .. new
    BY <1>6, <2>1, <2>2, IdsFinite
  <2>4. 1 .. new \subseteq Ids
    BY <1>6, IdsFinite DEF Ids
  <2> QED
    BY <2>3, <2>4 DEF UsedIn
<1>10. \A d \in {db, stored} : /\ Backed(xo', d) /\ (BoughtIn(xo', d) <=> BoughtIn(xo, d))
                               /\ NonEmpty(xo, d) => NonEmpty(xo', d)
  <2> SUFFICES ASSUME NEW d \in {db, stored}
               PROVE  /\ Backed(xo', d) /\ (BoughtIn(xo', d) <=> BoughtIn(xo, d))
                      /\ NonEmpty(xo, d) => NonEmpty(xo', d)
    OBVIOUS
  <2>1. Fits(xo, d) /\ Backed(xo, d) /\ (xo'[new].side = "entry" \/ BoughtIn(xo, d))
    BY <1>1, <1>4, <1>5, <1>8
  <2> QED
    BY <1>5, <1>6, <2>1, NewOrderBacked
<1>11. /\ Backed(xo', db) /\ Backed(xo', stored)
       /\ (BoughtIn(xo', db) <=> BoughtIn(xo, db)) /\ (BoughtIn(xo', stored) <=> BoughtIn(xo, stored))
       /\ NonEmpty(xo, db) => NonEmpty(xo', db)
       /\ NonEmpty(xo, stored) => NonEmpty(xo', stored)
  BY <1>10
<1>12. DataBacked'
  BY <1>1, <1>11 DEF DataBacked
<1>13. HandlerBacked'
  BY <1>1, <1>4, <1>5, <1>7, <1>8, <1>9, <1>11 DEF Standing, BackedInv, HandlerBacked
<1>14. RemovesEmpty
  BY <1>1 DEF RemovesEmpty, Open
<1>15. NonEmptyInv => NonEmptyInv'
  BY <1>1, <1>11 DEF NonEmptyInv, Open
<1> QED
  BY <1>12, <1>13, <1>14, <1>15 DEF StaysBacked, BackedInv

LEMMA PlaceFailsBacked ==
  ASSUME Standing, PlaceFails PROVE StaysBacked
<1>1. /\ IInv /\ OrdersFit(xo) /\ Fits(xo, db) /\ Fits(xo, stored) /\ Backed(xo, db) /\ Backed(xo, stored)
      /\ (BoughtIn(xo, stored) <=> BoughtIn(xo, db))
      /\ Placing /\ cancels = {} /\ UNCHANGED <<pc, todo, sent>>
      /\ xo' = xo \/ (NextId <= MaxOrders /\ xo' = [xo EXCEPT ![NextId] = Order("open", 0)])
      /\ \/ JobFails /\ UNCHANGED cancels
         \/ /\ job' = Job("emergency", 0) /\ cancels' = OpenStops(db)
            /\ UNCHANGED <<db, stored>>
  BY DEF Standing, IInv, BackedInv, DataBacked, PlaceFails, Placing, loop, StopsToCancel
<1>2. /\ Side(job.kind) = "entry" <=> job.kind \in EntryKinds
      /\ job.kind \in EntryKinds \/ BoughtIn(xo, db)
      /\ sent = NotSent /\ pc \notin {"recover", "stops"}
  BY <1>1, PlacingSells
<1>3. \A d \in {db, stored} : /\ Backed(xo', d) /\ (BoughtIn(xo', d) <=> BoughtIn(xo, d))
                              /\ NonEmpty(xo, d) => NonEmpty(xo', d)
  <2>1. CASE xo' = xo
    BY <1>1, <2>1
  <2>2. CASE NextId <= MaxOrders /\ xo' = [xo EXCEPT ![NextId] = Order("open", 0)]
    <3> DEFINE x == Order("open", 0)
               new == NextId
    <3>1. /\ x \in AnOrder /\ x.status # "none" /\ x.filled <= x.amount
          /\ x.status = "open" => x.filled < x.amount
      BY <1>1, NewOrderFacts
    <3>2. x.side = Side(job.kind)
      BY DEF Order
    <3>3. xo' = [xo EXCEPT ![NextId] = x]
      BY <2>2
    <3> HIDE DEF x
    <3>4. /\ OrdersStep(xo, xo') /\ xo'[new] = x
          /\ \A p \in Ids : p # new => xo'[p] = xo[p]
      BY <1>1, <2>2, <3>1, <3>3, NewOrderFits
    <3>5. new \in Ids /\ xo[new].status = "none"
      BY <1>1, <2>2, NextIdIsNew
    <3> HIDE DEF new
    <3> SUFFICES ASSUME NEW d \in {db, stored}
                 PROVE  /\ Backed(xo', d) /\ (BoughtIn(xo', d) <=> BoughtIn(xo, d))
                        /\ NonEmpty(xo, d) => NonEmpty(xo', d)
      OBVIOUS
    <3>6. Fits(xo, d) /\ Backed(xo, d) /\ (xo'[new].side = "entry" \/ BoughtIn(xo, d))
      BY <1>1, <1>2, <3>2, <3>4
    <3> QED
      BY <3>4, <3>5, <3>6, NewOrderBacked
  <2> QED
    BY <1>1, <2>1, <2>2
<1>4. /\ stored' = stored /\ (db' = db \/ (db' = stored /\ stored.trade.st = db.trade.st))
      /\ job'.kind \in {"none", "emergency"} /\ ~ job'.ready
      /\ job'.kind = "emergency" => job'.want = 0 /\ \A o \in cancels' : xo[o].side = "stoploss"
      /\ job'.kind = "emergency" => cancels' = OpenStops(db) /\ UNCHANGED db
  <2>1. CASE JobFails
    BY <2>1, JobEndsBacked, JobFacts
  <2>2. CASE job' = Job("emergency", 0) /\ cancels' = OpenStops(db) /\ UNCHANGED <<db, stored>>
    BY <2>2, JobFacts, RowSets DEF Kinds, ExitKinds
  <2> QED
    BY <1>1, <2>1, <2>2
<1>5. /\ Backed(xo', db) /\ Backed(xo', stored)
      /\ (BoughtIn(xo', db) <=> BoughtIn(xo, db)) /\ (BoughtIn(xo', stored) <=> BoughtIn(xo, stored))
      /\ NonEmpty(xo, db) => NonEmpty(xo', db)
      /\ NonEmpty(xo, stored) => NonEmpty(xo', stored)
  BY <1>3
<1>6. DataBacked'
  BY <1>1, <1>4, <1>5 DEF DataBacked
<1>7. HandlerBacked'
  <2>1. job'.kind = "emergency" => \A o \in cancels' : xo'[o].side = "stoploss"
    <3> SUFFICES ASSUME job'.kind = "emergency", NEW o \in cancels' PROVE xo'[o].side = "stoploss"
      OBVIOUS
    <3>1. o \in Ids /\ xo[o].side = "stoploss" /\ xo[o].status # "none"
      BY <1>1, <1>4, RowSets DEF Known, Fits
    <3>2. xo' = xo
      BY <1>4, JobEndsBacked, JobFacts DEF PlaceFails
    <3> QED
      BY <3>1, <3>2
  <2> QED
    BY <1>1, <1>2, <1>4, <2>1 DEF HandlerBacked, Selling, ExitKinds, EntryKinds
<1>8. RemovesEmpty
  BY <1>4 DEF RemovesEmpty, Open
<1>9. NonEmptyInv => NonEmptyInv'
  BY <1>1, <1>4, <1>5 DEF NonEmptyInv, Open, EntryKinds
<1> QED
  BY <1>6, <1>7, <1>8, <1>9 DEF StaysBacked, BackedInv

\* The order sent is the last of all: its row only sells what was bought.
LEMMA SentBacked ==
  ASSUME Standing, sent # NotSent, NEW e,
         e.rows = [db.rows EXCEPT ![sent.id] = Row(sent.c)],
         e.trade.amount > 0 => db.trade.amount > 0 \/ BoughtIn(xo, e)
  PROVE  /\ Backed(xo, e)
         /\ BoughtIn(xo, db) => BoughtIn(xo, e)
         /\ CanceledEmpty(sent.c) \/ sent.c.status = "open" => (BoughtIn(xo, e) <=> BoughtIn(xo, db))
         /\ job.kind \in EntryKinds => xo[sent.id].side = "entry"
         /\ job.kind \in EntryKinds \/ BoughtIn(xo, db)
         /\ job # NoJob /\ pc \notin {"recover", "stops"}
<1>1. /\ sent.id \in Ids /\ sent.c \in Seen /\ ~ db.rows[sent.id].known
      /\ xo[sent.id].status # "none" /\ Told(xo, sent.id, sent.c)
      /\ OrdersStep(xo, xo) /\ Fits(xo, db) /\ job.ready /\ pc # "stops"
  BY SentFacts DEF Standing
<1>2. /\ UsedIn(xo) = 1 .. sent.id /\ AnswersAreTrue /\ Backed(xo, db)
      /\ job.kind \in EntryKinds => xo[sent.id].side = "entry"
  BY DEF Standing, BackedInv, HandlerBacked, DataBacked
<1>3. job # NoJob /\ pc # "recover" /\ job.kind \in ExitKinds \cup EntryKinds \cup {"stoploss"}
  BY <1>1, JobFacts DEF Standing, IInv, JobInv, BackedInv, HandlerBacked
<1>4. job.kind \in EntryKinds \/ BoughtIn(xo, db)
  BY <1>1, <1>3 DEF Standing, BackedInv, HandlerBacked, Selling
<1>5. \A p \in Ids : sent.id <= p /\ xo[p].status # "none" => p = sent.id
  <2> SUFFICES ASSUME NEW p \in Ids, sent.id <= p, xo[p].status # "none" PROVE p = sent.id
    OBVIOUS
  <2>1. p \in 1 .. sent.id
    BY <1>2 DEF UsedIn
  <2>2. p \in Nat /\ sent.id \in Nat
    BY <1>1, IdsFinite
  <2> QED
    BY <2>1, <2>2
<1>6. BoughtIn(xo, db) \/ \A p \in Ids : sent.id <= p /\ xo[p].status # "none" => xo[p].side = "entry"
  BY <1>2, <1>4, <1>5
<1>7. /\ Backed(xo, e)
      /\ BoughtIn(xo, db) => BoughtIn(xo, e)
      /\ CanceledEmpty(sent.c) \/ sent.c.status = "open" => (BoughtIn(xo, e) <=> BoughtIn(xo, db))
  BY <1>1, <1>2, <1>6, RowBacked
<1> QED
  BY <1>1, <1>2, <1>3, <1>4, <1>7

\* What is left to show of a step that records an order.
LEMMA RecordingBacked ==
  ASSUME Standing, sent # NotSent, job' = NoJob, sent' = NotSent, UNCHANGED <<xo, loop>>,
         job # NoJob, pc \notin {"recover", "stops"},
         Backed(xo, db'),
         stored' = db' \/ (stored' = stored /\ (BoughtIn(xo, db') <=> BoughtIn(xo, db))),
         Open(db) => db'.trade.st # "none",
         OneEntryWatched /\ NonEmptyInv => NonEmpty(xo, db') /\ pc \notin {"down", "startup"}
  PROVE  StaysBacked
<1>1. DataBacked'
  BY DEF Standing, BackedInv, DataBacked
<1>2. HandlerBacked'
  BY JobFacts DEF HandlerBacked, Selling, ExitKinds, EntryKinds, loop
<1>3. RemovesEmpty
  BY DEF RemovesEmpty
<1>4. OneEntryWatched /\ NonEmptyInv => NonEmptyInv'
  BY JobFacts DEF NonEmptyInv, EntryKinds, loop
<1> QED
  BY <1>1, <1>2, <1>3, <1>4 DEF StaysBacked, BackedInv

LEMMA RecordStopBacked ==
  ASSUME Standing, RecordStop PROVE StaysBacked
<1>1. /\ sent # NotSent /\ job.kind = "stoploss" /\ job' = NoJob /\ sent' = NotSent
      /\ db' = UpdateRow(db, sent.id, sent.c) /\ stored' = stored
      /\ UNCHANGED <<xo, loop, cancels>>
  BY DEF RecordStop, Save
<1>2. /\ sent.c.status = "open" /\ pc = "signal"
      /\ sent.id \in Ids /\ sent.c \in Seen /\ db \in Databases
  BY <1>1, SentFacts DEF Standing, IInv, JobInv, SentInv
<1>3. db'.rows = [db.rows EXCEPT ![sent.id] = Row(sent.c)] /\ db'.trade = db.trade
  BY <1>1, <1>2, UpdateRowFacts
<1>4. /\ Backed(xo, db') /\ (BoughtIn(xo, db') <=> BoughtIn(xo, db))
      /\ BoughtIn(xo, db) /\ job # NoJob
  BY <1>1, <1>2, <1>3, SentBacked DEF EntryKinds
<1>5. NonEmpty(xo, db') /\ (Open(db) => db'.trade.st # "none")
  BY <1>3, <1>4 DEF NonEmpty, Open
<1> QED
  BY <1>1, <1>2, <1>4, <1>5, RecordingBacked

LEMMA RecordExitBacked ==
  ASSUME Standing, RecordExit PROVE StaysBacked
<1> DEFINE u == UpdateRow(db, sent.id, sent.c)
           e == UpdateTradeState(db, sent.id, sent.c)
<1>1. /\ sent # NotSent /\ job.kind \in ExitKinds /\ job' = NoJob /\ sent' = NotSent
      /\ db' = (IF sent.c.status = "open" THEN u ELSE e) /\ stored' = db'
      /\ UNCHANGED <<xo, loop>>
  BY DEF RecordExit, Save
<1>2. sent.id \in Ids /\ sent.c \in Seen /\ db \in Databases /\ xo \in Orders
  BY <1>1, SentFacts DEF Standing
<1>3. u.rows = [db.rows EXCEPT ![sent.id] = Row(sent.c)] /\ u.trade = db.trade
  BY <1>2, UpdateRowFacts
<1>4. /\ e.rows = [db.rows EXCEPT ![sent.id] = Row(sent.c)]
      /\ e.trade.amount > 0 => db.trade.amount > 0 \/ BoughtIn(xo, e)
      /\ e.trade.st \in {db.trade.st, "closed"}
  BY <1>2, UpdateStateFacts, UpdateStateBacked
<1> HIDE DEF u, e
<1>5. /\ db'.rows = [db.rows EXCEPT ![sent.id] = Row(sent.c)]
      /\ db'.trade.amount > 0 => db.trade.amount > 0 \/ BoughtIn(xo, db')
      /\ db'.trade.st \in {db.trade.st, "closed"}
  BY <1>1, <1>3, <1>4
<1>6. /\ Backed(xo, db') /\ BoughtIn(xo, db') /\ BoughtIn(xo, db)
      /\ job # NoJob /\ pc \notin {"recover", "stops"}
  BY <1>1, <1>5, SentBacked DEF EntryKinds, ExitKinds
<1>7. NonEmpty(xo, db') /\ (Open(db) => db'.trade.st # "none")
  BY <1>5, <1>6 DEF NonEmpty, Open
<1>8. NonEmptyInv => pc \notin {"down", "startup"}
  BY <1>6, EmptyBacked DEF NonEmptyInv
<1> QED
  BY <1>1, <1>6, <1>7, <1>8, RecordingBacked

LEMMA EntryRecordedBacked ==
  ASSUME Standing, sent # NotSent
  PROVE  /\ EntryRecorded \in Databases
         /\ EntryRecorded.rows = [db.rows EXCEPT ![sent.id] = Row(sent.c)]
         /\ EntryRecorded.trade.st = "open"
         /\ EntryRecorded.trade.amount > 0 => db.trade.amount > 0 \/ BoughtIn(xo, EntryRecorded)
<1> DEFINE u == UpdateRow(db, sent.id, sent.c)
           opened == [u EXCEPT !.trade.st = "open"]
           d == Recalc(opened)
<1>1. sent.id \in Ids /\ sent.c \in Seen /\ xo \in Orders /\ db \in Databases
  BY SentFacts DEF Standing
<1>2. u \in Databases /\ u.rows = [db.rows EXCEPT ![sent.id] = Row(sent.c)] /\ u.trade = db.trade
  BY <1>1, UpdateRowFacts
<1>3. /\ opened \in Databases /\ opened.rows = u.rows
      /\ opened.trade.amount = db.trade.amount /\ opened.trade.st = "open"
  <2> HIDE DEF u
  <2> QED
    BY <1>2 DEF Databases
<1>4. d = EntryRecorded
  BY DEF EntryRecorded
<1> HIDE DEF u, opened
<1>5. d \in Databases /\ d.rows = opened.rows /\ d.trade.st = "open"
  BY <1>1, <1>3, RecalcFacts
<1>6. d.trade.amount > 0 => opened.trade.amount > 0 \/ BoughtIn(xo, opened)
  BY <1>1, <1>3, RecalcBacked
<1> HIDE DEF d
<1>7. BoughtIn(xo, opened) <=> BoughtIn(xo, d)
  BY <1>5 DEF BoughtIn
<1> QED
  BY <1>2, <1>3, <1>4, <1>5, <1>6, <1>7

LEMMA RecordEntryBacked ==
  ASSUME Standing, RecordEntry PROVE StaysBacked
<1>1. sent # NotSent /\ job.kind \in EntryKinds /\ sent' = NotSent /\ UNCHANGED <<xo, loop>>
  BY DEF RecordEntry
<1>2. CASE CanceledEmpty(sent.c)
  <2>1. JobFails /\ UNCHANGED cancels
    BY <1>2 DEF RecordEntry
  <2>2. /\ job' = NoJob /\ stored' = stored
        /\ db' = db \/ (db' = stored /\ stored.trade.st = db.trade.st)
    BY <2>1, JobEndsBacked
  <2>3. pc' = pc /\ pc # "stops" /\ pc # "recover"
    BY <1>1, SentFacts, JobFacts DEF Standing, BackedInv, HandlerBacked, EntryKinds, loop
  <2> QED
    BY <1>1, <2>2, <2>3, SessionResetBacked DEF NonEmptyInv
<1>3. CASE ~ CanceledEmpty(sent.c)
  <2> DEFINE d == EntryRecorded
             e == UpdateTradeState(d, sent.id, sent.c)
  <2>1. db' = (IF sent.c.status = "open" THEN d ELSE e) /\ stored' = db' /\ job' = NoJob
    BY <1>3 DEF RecordEntry, Save
  <2>2. sent.id \in Ids /\ sent.c \in Seen /\ xo \in Orders /\ db \in Databases
    BY <1>1, SentFacts DEF Standing
  <2>5. /\ d \in Databases /\ d.rows = [db.rows EXCEPT ![sent.id] = Row(sent.c)]
        /\ d.trade.st = "open"
        /\ d.trade.amount > 0 => db.trade.amount > 0 \/ BoughtIn(xo, d)
    BY <1>1, EntryRecordedBacked
  <2> HIDE DEF d
  <2>6. /\ e.rows = [d.rows EXCEPT ![sent.id] = Row(sent.c)]
        /\ e.trade.amount > 0 => d.trade.amount > 0 \/ BoughtIn(xo, e)
        /\ e.trade.st \in {d.trade.st, "closed"}
    BY <2>2, <2>5, UpdateStateFacts, UpdateStateBacked
  <2> HIDE DEF e
  <2>7. e.rows = [db.rows EXCEPT ![sent.id] = Row(sent.c)]
    BY <2>2, <2>5, <2>6 DEF Databases
  <2>8. BoughtIn(xo, d) <=> BoughtIn(xo, e)
    BY <2>5, <2>7 DEF BoughtIn
  <2>9. /\ db'.rows = [db.rows EXCEPT ![sent.id] = Row(sent.c)]
        /\ db'.trade.amount > 0 => db.trade.amount > 0 \/ BoughtIn(xo, db')
        /\ db'.trade.st \in {"open", "closed"}
    BY <2>1, <2>5, <2>6, <2>7, <2>8
  <2>10. /\ Backed(xo, db') /\ xo[sent.id].side = "entry"
         /\ job # NoJob /\ pc \notin {"recover", "stops"}
    BY <1>1, <2>9, SentBacked
  <2>11. /\ db'.rows[sent.id] = Row(sent.c) /\ Row(sent.c).known
         /\ (Row(sent.c).open <=> sent.c.status = "open") /\ Row(sent.c).filled = sent.c.filled
    BY <2>2, <2>9 DEF Databases, Row
  <2>12. NonEmpty(xo, db')
    <3>1. CASE sent.c.status = "open"
      BY <2>2, <2>10, <2>11, <3>1 DEF NonEmpty
    <3>2. CASE sent.c.status # "open"
      <4>1. sent.c.filled > 0
        BY <1>3, <2>2, <3>2 DEF CanceledEmpty, Seen
      <4> QED
        BY <2>2, <2>10, <2>11, <3>2, <4>1 DEF NonEmpty, BoughtIn
    <3> QED
      BY <3>1, <3>2
  <2>13. NonEmptyInv => pc \notin {"down", "startup"}
    BY <1>1 DEF NonEmptyInv
  <2> QED
    BY <1>1, <2>1, <2>9, <2>10, <2>12, <2>13, RecordingBacked
<1> QED
  BY <1>2, <1>3

\* The row of a known order is committed and the process dies.
LEMMA RowAloneBacked ==
  ASSUME Standing, NEW o \in Known(db), NEW c \in Seen, NEW y, OrdersStep(xo, y), UsedIn(y) = UsedIn(xo),
         Told(y, o, c), c.status = "open" => xo[o].status = "open"
  PROVE  Backed(y, UpdateRow(db, o, c))
<1> DEFINE e == UpdateRow(db, o, c)
<1>1. /\ AnswersAreTrue /\ Fits(xo, db) /\ db \in Databases /\ Backed(xo, db)
      /\ o \in Ids /\ xo[o].status # "none" /\ o <= o
  BY IdsFinite DEF Standing, IInv, BackedInv, DataBacked, Fits, Known
<1>2. e.rows = [db.rows EXCEPT ![o] = Row(c)] /\ e.trade = db.trade
  BY <1>1, UpdateRowFacts
<1> HIDE DEF e
<1>3. Backed(y, db)
  BY <1>1, BackedFrame
<1>4. Backed(y, e)
  BY <1>1, <1>2, <1>3, RowBacked
<1> QED
  BY <1>4 DEF e

LEMMA CrashInUpdateBacked ==
  ASSUME Standing, NEW o \in Ids, CrashInUpdate(o) PROVE StaysBacked
<1>1. Dies /\ stored' = db' /\ AnswersAreTrue /\ IInv /\ OrdersFit(xo) /\ Fits(xo, db)
  BY DEF CrashInUpdate, Standing, IInv
<1>2. CASE /\ Visited(o) /\ db' = UpdateRow(db, o, Snap(o)) /\ UNCHANGED xo
  <2>1. /\ Snap(o) \in Seen /\ Told(xo, o, Snap(o)) /\ OrdersStep(xo, xo)
        /\ Snap(o).status = xo[o].status
    BY <1>1, SnapFacts
  <2>2. Backed(xo, db')
    BY <1>1, <1>2, <2>1, VisitedIsKnown, RowAloneBacked
  <2> QED
    BY <1>1, <1>2, <2>2, DiesBacked
<1>3. CASE /\ o \in cancels /\ xo[o].status = "open"
           /\ \E r \in CancelResults(o) :
                db' = UpdateRow(db, o, r.c) /\ xo' = [xo EXCEPT ![o] = r.to]
  <2>1. PICK r \in CancelResults(o) : db' = UpdateRow(db, o, r.c) /\ xo' = [xo EXCEPT ![o] = r.to]
    BY <1>3
  <2>2. OrdersStep(xo, xo') /\ UsedIn(xo') = UsedIn(xo) /\ r.c \in Seen /\ Told(xo', o, r.c)
    BY <1>1, <1>3, <2>1, CancelResultsFacts
  <2>3. o \in Known(db)
    BY <1>1, <1>3 DEF IInv, CancelsInv
  <2>4. Backed(xo', db')
    BY <1>3, <2>1, <2>2, <2>3, RowAloneBacked
  <2> QED
    BY <1>1, <2>4, DiesBacked
<1>4. CASE /\ o = sent.id /\ UNCHANGED xo
           /\ db' = UpdateRow(db, o, sent.c) \/ db' = EntryRecorded
  <2>1. sent # NotSent
    BY <1>4, IdsFinite DEF NotSent
  <2>2. sent.c \in Seen /\ db \in Databases
    BY <1>1, <2>1, SentFacts
  <2>3. /\ db'.rows = [db.rows EXCEPT ![sent.id] = Row(sent.c)]
        /\ db'.trade.amount > 0 => db.trade.amount > 0 \/ BoughtIn(xo, db')
    <3>1. CASE db' = UpdateRow(db, o, sent.c)
      BY <1>4, <2>2, <3>1, UpdateRowFacts
    <3>2. CASE db' = EntryRecorded
      BY <2>1, <3>2, EntryRecordedBacked
    <3> QED
      BY <1>4, <3>1, <3>2
  <2>4. Backed(xo, db')
    BY <2>1, <2>3, SentBacked
  <2> QED
    BY <1>1, <1>4, <2>4, DiesBacked
<1>5. ~ ("unknown" \in Answers)
  BY <1>1 DEF AnswersAreTrue
<1> QED
  BY <1>2, <1>3, <1>4, <1>5 DEF CrashInUpdate

(***************************************************************************)
(* Steps that reload the trade from the exchange's list.                   *)
(***************************************************************************)

LEMMA RecoverOrderBacked ==
  ASSUME OrdersFit(xo), NEW d \in Databases, NEW o \in Ids
  PROVE  LET e == RecoverOrder(d, o)
         IN  /\ e.rows = [d.rows EXCEPT ![o] = Row(Snap(o))]
             /\ e.trade.amount > 0 => d.trade.amount > 0 \/ BoughtIn(xo, e)
             /\ e.trade.st \in {d.trade.st, "closed"}
<1> DEFINE c == Snap(o)
           u == UpdateRow(d, o, c)
           e == RecoverOrder(d, o)
           closes == ClosesExactly(u, o)
<1>1. xo \in Orders /\ c \in Seen
  BY SnapFacts DEF OrdersFit
<1> HIDE DEF c
<1>2. u \in Databases /\ u.rows = [d.rows EXCEPT ![o] = Row(c)] /\ u.trade = d.trade
  BY <1>1, UpdateRowFacts
<1>3. u.rows[o].known
  BY <1>2 DEF Databases, Row
<1>4. e = IF CanceledEmpty(c) THEN u ELSE UpdateTrade(u, o, closes)
  BY DEF RecoverOrder, c
<1>5. closes \in BOOLEAN
  BY DEF ClosesExactly
<1> HIDE DEF u, e, closes
<1>6. CASE CanceledEmpty(c)
  BY <1>2, <1>4, <1>6 DEF e, c
<1>7. CASE ~ CanceledEmpty(c)
  <2>1. /\ e.rows = u.rows
        /\ e.trade.amount > 0 => u.trade.amount > 0 \/ BoughtIn(xo, u)
        /\ e.trade.st \in {u.trade.st, "closed"}
    BY <1>1, <1>2, <1>3, <1>4, <1>5, <1>7, UpdateTradeFacts, UpdateTradeBacked
  <2>2. BoughtIn(xo, u) <=> BoughtIn(xo, e)
    BY <2>1 DEF BoughtIn
  <2> QED
    BY <1>2, <2>1, <2>2 DEF e, c
<1> QED
  BY <1>6, <1>7

\* What the reload has come to after some orders: rows like the orders, and
\* nothing that was bought is gone.
ReloadedTo(n, d) ==
  /\ Fits(xo, d) /\ Backed(TakenForExit, d) /\ Known(db) \subseteq Known(d)
  /\ BoughtIn(xo, db) => BoughtIn(TakenForExit, d)
  /\ d.trade.st \in {db.trade.st, "closed"}
  /\ \A o \in Known(db) : o <= n => d.rows[o].filled = xo[o].filled

LEMMA ReloadedStart ==
  ASSUME Standing PROVE ReloadedTo(0, db)
<1>1. Fits(xo, db) /\ Backed(xo, db) /\ OrdersStep(xo, TakenForExit) /\ UsedIn(TakenForExit) = UsedIn(xo)
  BY TakenFacts DEF Standing, IInv, BackedInv, DataBacked
<1>2. Backed(TakenForExit, db) /\ (BoughtIn(TakenForExit, db) <=> BoughtIn(xo, db))
  BY <1>1, BackedFrame, BoughtFrame
<1>3. \A o \in Known(db) : ~ (o <= 0)
  <2>1. Known(db) \subseteq Nat \ {0}
    BY IdsFinite DEF Known
  <2> QED
    BY <2>1
<1> QED
  BY <1>1, <1>2, <1>3 DEF ReloadedTo

\* What is listed comes after some order of the trade.
LEMMA ListedAfterKnown ==
  ASSUME Known(db) # {}
  PROVE  /\ Min(Known(db)) \in Known(db) /\ \A o \in Known(db) : Min(Known(db)) <= o
         /\ \A n \in Listed : \E k \in Known(db) : k <= n
<1>1. Min(Known(db)) \in Known(db) /\ \A o \in Known(db) : Min(Known(db)) <= o
  <2>1. Known(db) \in SUBSET Nat
    BY IdsFinite DEF Known
  <2>2. \E m \in Known(db) : \A o \in Known(db) : m <= o
    BY <2>1, SmallestOf
  <2> QED
    BY <2>2, Zenon DEF Min
<1> QED
  BY <1>1 DEF Listed

LEMMA ReloadedGoesOn ==
  ASSUME Standing, Known(db) # {}, NEW n \in Ids, NEW d, ReloadedTo(n - 1, d)
  PROVE  /\ n \in Listed => ReloadedTo(n, RecoverOrder(d, n))
         /\ n \notin Listed => ReloadedTo(n, d)
<1> DEFINE y == TakenForExit
<1>1. /\ AnswersAreTrue /\ OrdersFit(xo) /\ Fits(xo, d) /\ d \in Databases /\ Backed(y, d)
      /\ Known(db) \subseteq Known(d) /\ Fits(xo, db)
      /\ BoughtIn(xo, db) => BoughtIn(y, d)
      /\ d.trade.st \in {db.trade.st, "closed"}
      /\ \A o \in Known(db) : o <= n - 1 => d.rows[o].filled = xo[o].filled
  BY DEF Standing, IInv, ReloadedTo, Fits
<1>2. OrdersStep(xo, y) /\ \A o \in Ids : y[o].side = "entry" <=> xo[o].side = "entry"
  BY TakenFacts DEF Standing
<1>3. Min(Known(db)) \in Known(db) /\ \A o \in Known(db) : Min(Known(db)) <= o
  BY ListedAfterKnown
<1>4. n \in Nat /\ Known(db) \subseteq Nat
  BY IdsFinite DEF Known
<1>5. ASSUME n \notin Listed PROVE ReloadedTo(n, d)
  <2>1. n \notin Known(db)
    BY <1>1, <1>3, <1>5 DEF Listed, Used, Known, Fits
  <2>2. \A o \in Known(db) : o <= n => o <= n - 1
    BY <1>4, <2>1
  <2> QED
    BY <1>1, <2>2 DEF ReloadedTo
<1>6. ASSUME n \in Listed PROVE ReloadedTo(n, RecoverOrder(d, n))
  <2> DEFINE e == RecoverOrder(d, n)
             c == Snap(n)
  <2>1. /\ e.rows = [d.rows EXCEPT ![n] = Row(c)]
        /\ e.trade.amount > 0 => d.trade.amount > 0 \/ BoughtIn(xo, e)
        /\ e.trade.st \in {d.trade.st, "closed"}
    BY <1>1, RecoverOrderBacked
  <2>2. xo[n].status # "none" /\ Min(Known(db)) <= n
    BY <1>6 DEF Listed, Used
  <2>3. Fits(xo, e) /\ Known(d) \subseteq Known(e)
    BY <1>1, <2>2, RecoverOrderFits
  <2>4. c \in Seen /\ Told(xo, n, c) /\ c.status = xo[n].status /\ c.filled = xo[n].filled
    BY <1>1, SnapFacts DEF Snap
  <2>5. Told(y, n, c)
    BY <1>2, <2>2, <2>4 DEF Told, OrdersStep
  <2> HIDE DEF e, c, y
  <2>6. BoughtIn(xo, e) => BoughtIn(y, e)
    BY <1>2 DEF BoughtIn
  <2>7. /\ Backed(y, e)
        /\ BoughtIn(y, d) => BoughtIn(y, e)
    <3>1. \E k \in Known(d) : k <= n
      BY <1>1, <1>3, <2>2
    <3>2. c.status = "open" => xo[n].status = "open"
      BY <2>4
    <3> QED
      BY <1>1, <1>2, <2>1, <2>2, <2>4, <2>5, <2>6, <3>1, <3>2, RowBacked
  <2>8. ASSUME NEW o \in Known(db), o <= n PROVE e.rows[o].filled = xo[o].filled
    <3>1. CASE o = n
      <4>1. e.rows[n] = Row(c)
        BY <1>1, <2>1 DEF Databases
      <4> QED
        BY <2>4, <3>1, <4>1 DEF Row
    <3>2. CASE o # n
      <4>1. o <= n - 1 /\ o \in Ids
        BY <1>4, <2>8, <3>2 DEF Known
      <4>2. e.rows[o] = d.rows[o]
        BY <1>1, <2>1, <3>2, <4>1 DEF Databases
      <4> QED
        BY <1>1, <4>1, <4>2
    <3> QED
      BY <3>1, <3>2
  <2>9. e.trade.st \in {db.trade.st, "closed"}
    BY <1>1, <2>1
  <2>10. Known(db) \subseteq Known(e)
    BY <1>1, <2>3
  <2> QED
    BY <1>1, <2>3, <2>7, <2>8, <2>9, <2>10 DEF ReloadedTo, e, y
<1> QED
  BY <1>5, <1>6

LEMMA ReloadedBacked ==
  ASSUME Standing, Known(db) # {}
  PROVE  \A n \in 0 .. MaxOrders : \A d \in Reloaded[n] : ReloadedTo(n, d)
<1> DEFINE holds(n) == \A d \in Reloaded[n] : ReloadedTo(n, d)
<1>1. MaxOrders \in Nat
  BY IdsFinite
<1> SUFFICES ASSUME {n \in 0 .. MaxOrders : ~ holds(n)} # {} PROVE FALSE
  BY <1>1
<1> HIDE DEF holds
<1>2. PICK n \in 0 .. MaxOrders : ~ holds(n) /\ \A m \in 0 .. MaxOrders : ~ holds(m) => n <= m
  <2>1. {n \in 0 .. MaxOrders : ~ holds(n)} \in SUBSET Nat
    BY <1>1
  <2> QED
    BY <2>1, SmallestOf
<1>3. Reloaded[n] = IF n = 0 THEN {db}
                    ELSE IF n \in Listed THEN {RecoverOrder(d, n) : d \in Reloaded[n - 1]}
                    ELSE Reloaded[n - 1]
  BY ReloadedIs
<1>4. CASE n = 0
  BY <1>2, <1>3, <1>4, ReloadedStart DEF holds
<1>5. CASE n # 0
  <2>1. n - 1 \in 0 .. MaxOrders /\ holds(n - 1) /\ n \in Ids
    BY <1>1, <1>2, <1>5 DEF Ids
  <2>2. \A d \in Reloaded[n - 1] : /\ n \in Listed => ReloadedTo(n, RecoverOrder(d, n))
                                   /\ n \notin Listed => ReloadedTo(n, d)
    BY <2>1, ReloadedGoesOn DEF holds
  <2>3. CASE n \in Listed
    BY <1>2, <1>3, <1>5, <2>2, <2>3 DEF holds
  <2>4. CASE n \notin Listed
    BY <1>2, <1>3, <1>5, <2>2, <2>4 DEF holds
  <2> QED
    BY <2>3, <2>4
<1> QED
  BY <1>4, <1>5

\* A trade that a reload removes has traded nothing.
LEMMA RecoveredBacked ==
  ASSUME Standing, Known(db) # {}, NEW d \in Recovered, xo' = TakenForExit
  PROVE  \/ /\ Backed(xo', d) /\ Known(d) # {}
            /\ BoughtIn(xo, db) => BoughtIn(xo', d)
            /\ d.trade.st \in {db.trade.st, "closed"}
         \/ /\ d = EmptyDb /\ ~ BoughtIn(xo, db)
            /\ \A o \in Known(db) : xo'[o].filled = 0
<1>1. PICK e \in Reloaded[MaxOrders] :
        d = IF Open(e) /\ Owned < e.trade.amount /\ CanceledEntries(e) = Known(e) THEN EmptyDb ELSE e
  BY DEF Recovered
<1>2. ReloadedTo(MaxOrders, e) /\ Known(e) # {}
  <2>1. ReloadedTo(MaxOrders, e)
    BY <1>1, ReloadedBacked, IdsFinite
  <2> QED
    BY <2>1 DEF ReloadedTo
<1>3. CASE d = e
  BY <1>2, <1>3 DEF ReloadedTo
<1>4. CASE d = EmptyDb /\ CanceledEntries(e) = Known(e)
  <2>1. \A o \in Ids : e.rows[o].known => e.rows[o].filled = 0
    BY <1>4 DEF CanceledEntries, Known
  <2>2. ~ BoughtIn(xo', e)
    BY <2>1 DEF BoughtIn
  <2>3. ~ BoughtIn(xo, db)
    BY <1>2, <2>2 DEF ReloadedTo
  <2>4. ASSUME NEW o \in Known(db) PROVE xo'[o].filled = 0
    <3>1. o \in Ids /\ o <= MaxOrders
      BY DEF Known, Ids
    <3>2. e.rows[o].filled = xo[o].filled /\ e.rows[o].known
      BY <1>2, <3>1 DEF ReloadedTo, Known
    <3>3. xo'[o].filled = xo[o].filled
      BY <3>1, TakenFacts DEF Standing
    <3> QED
      BY <2>1, <3>1, <3>2, <3>3
  <2> QED
    BY <1>4, <2>3, <2>4
<1> QED
  BY <1>1, <1>3, <1>4

LEMMA RecoverBacked ==
  ASSUME Standing, Recover PROVE StaysBacked
<1>1. /\ pc = "recover" /\ job' = NoJob /\ sent' = NotSent /\ BoughtIn(xo, db)
  BY DEF Recover, Quiet, Standing, BackedInv, HandlerBacked
<1>2. PICK d \in Recovered :
        /\ xo' = TakenForExit /\ Save(d, TRUE)
        /\ IF Known(d) = {} THEN pc' = AfterExits /\ UNCHANGED todo ELSE ToTrade(d)
  BY DEF Recover
<1>3. Known(db) # {}
  BY <1>1 DEF BoughtIn, Known
<1>4. /\ Backed(xo', d) /\ Known(d) # {} /\ BoughtIn(xo', d)
      /\ d.trade.st \in {db.trade.st, "closed"}
  BY <1>1, <1>2, <1>3, RecoveredBacked
<1>5. /\ db' = d /\ stored' = d /\ pc' \in {"stops", "signal"}
      /\ pc' = "stops" => todo' = OpenStops(d)
  BY <1>2, <1>4 DEF Save, ToTrade
<1>6. pc' = "stops" => \A o \in todo' : xo'[o].side # "entry"
  <2>1. \A o \in OpenStops(d) : o \in Ids /\ xo[o].side # "entry"
    BY RowSets
  <2>2. \A o \in Ids : xo'[o].side = "entry" <=> xo[o].side = "entry"
    BY <1>2, TakenFacts DEF Standing
  <2> QED
    BY <1>5, <2>1, <2>2
<1>7. DataBacked' /\ HandlerBacked'
  BY <1>1, <1>4, <1>5, <1>6, JobFacts DEF DataBacked, HandlerBacked, Selling, ExitKinds, EntryKinds
<1>8. RemovesEmpty
  BY <1>4, <1>5 DEF RemovesEmpty, Open
<1>9. NonEmptyInv'
  BY <1>1, <1>4, <1>5, JobFacts DEF NonEmptyInv, NonEmpty, EntryKinds
<1> QED
  BY <1>7, <1>8, <1>9 DEF StaysBacked, BackedInv

LEMMA RpcReloadBacked ==
  ASSUME Standing, RpcReload PROVE StaysBacked
<1>1. /\ pc' = pc /\ pc \in Sections /\ job' = NoJob /\ sent' = NotSent
      /\ db.trade.st # "none" /\ "reload" \in Commands
  BY DEF RpcReload, Standing, IInv, JobInv, Quiet
<1>2. PICK d \in Recovered : xo' = TakenForExit /\ Save(d, TRUE)
  BY DEF RpcReload
<1>3. Known(db) # {}
  BY <1>1 DEF Standing, BackedInv, DataBacked, Backed
<1>4. \/ Backed(xo', d) /\ d.trade.st \in {db.trade.st, "closed"}
      \/ d = EmptyDb /\ \A o \in Known(db) : xo'[o].filled = 0
  BY <1>2, <1>3, RecoveredBacked
<1>5. db' = d /\ stored' = d /\ Backed(xo', d)
  BY <1>2, <1>4, EmptyBacked DEF Save
<1>6. DataBacked' /\ HandlerBacked'
  BY <1>1, <1>5, JobFacts DEF DataBacked, HandlerBacked, Selling, ExitKinds, EntryKinds, Sections
<1>7. RemovesEmpty
  BY <1>4, <1>5 DEF RemovesEmpty, Open
<1> QED
  BY <1>1, <1>6, <1>7 DEF StaysBacked, BackedInv, OneEntryWatched

\* What is committed when the process dies in the middle of a reload.
LEMMA CrashInRecoveryBacked ==
  ASSUME Standing, CrashInRecovery PROVE StaysBacked
<1> DEFINE y == TakenForExit
<1>1. /\ Dies /\ stored' = db' /\ xo' = y /\ AnswersAreTrue /\ OrdersFit(xo)
      /\ OrdersStep(xo, y) /\ UsedIn(y) = UsedIn(xo)
  BY TakenFacts DEF CrashInRecovery, Standing, IInv
<1>2. Known(db) # {}
  <2>1. BoughtIn(xo, db) => Known(db) # {}
    BY DEF BoughtIn, Known
  <2> QED
    BY <2>1 DEF CrashInRecovery, Standing, BackedInv, HandlerBacked, DataBacked, Backed
<1>3. PICK n \in Listed :
        \E d \in Reloaded[n - 1] : db' \in {UpdateRow(d, n, Snap(n)), RecoverOrder(d, n)}
  BY DEF CrashInRecovery
<1>4. PICK d \in Reloaded[n - 1] : db' \in {UpdateRow(d, n, Snap(n)), RecoverOrder(d, n)}
  BY <1>3
<1>5. n \in Ids /\ xo[n].status # "none" /\ n - 1 \in 0 .. MaxOrders
  BY IdsFinite DEF Listed, Used, Ids
<1>6. ReloadedTo(n - 1, d)
  BY <1>2, <1>5, ReloadedBacked
<1>7. Backed(y, RecoverOrder(d, n))
  BY <1>2, <1>5, <1>6, ReloadedGoesOn DEF ReloadedTo
<1>8. Backed(y, UpdateRow(d, n, Snap(n)))
  <2> DEFINE c == Snap(n)
             e == UpdateRow(d, n, c)
  <2>1. Fits(xo, d) /\ d \in Databases /\ Backed(y, d) /\ Known(db) \subseteq Known(d)
    BY <1>6 DEF ReloadedTo, Fits
  <2>2. \E k \in Known(d) : k <= n
    BY <1>2, <2>1, ListedAfterKnown
  <2>3. c \in Seen /\ Told(xo, n, c) /\ c.status = xo[n].status
    BY <1>1, <1>5, SnapFacts
  <2>4. Told(y, n, c)
    BY <1>1, <1>5, <2>3 DEF Told, OrdersStep, Snap
  <2>5. e.rows = [d.rows EXCEPT ![n] = Row(c)] /\ e.trade = d.trade
    BY <1>5, <2>1, <2>3, UpdateRowFacts
  <2> HIDE DEF c, e, y
  <2>6. Backed(y, e)
    BY <1>1, <1>5, <2>1, <2>2, <2>3, <2>4, <2>5, RowBacked
  <2> QED
    BY <2>6 DEF c, e
<1> QED
  BY <1>1, <1>4, <1>7, <1>8, DiesBacked

(***************************************************************************)
(* The invariant is inductive, and what it gives.                          *)
(***************************************************************************)

LEMMA InitBacked == Init => BackedInv /\ NonEmptyInv
<1> SUFFICES ASSUME Init PROVE BackedInv /\ NonEmptyInv
  OBVIOUS
<1>1. DataBacked
  BY EmptyBacked DEF Init, DataBacked
<1>2. HandlerBacked
  BY JobFacts DEF Init, HandlerBacked, Selling, ExitKinds, EntryKinds
<1>3. NonEmptyInv
  BY EmptyBacked, JobFacts DEF Init, NonEmptyInv, EntryKinds
<1> QED
  BY <1>1, <1>2, <1>3 DEF BackedInv

LEMMA HandlerStays ==
  ASSUME Standing, Handler PROVE StaysBacked
<1>1. ASSUME NEW o \in Ids,
             CancelStop(o) \/ CancelOrder(o) \/ DeleteCancels(o) \/ Refind(o) \/ RpcVisits(o)
      PROVE  StaysBacked
  BY <1>1, CancelStopBacked, CancelOrderBacked, DeleteCancelsBacked, RefindBacked, RpcVisitsBacked
<1>2. CASE RpcVisitFails \/ CancelError
  BY <1>2, RpcVisitFailsBacked, CancelErrorBacked
<1>3. CASE JobReady \/ JobRefused \/ JobDropped
  BY <1>3, JobReadyBacked, JobRefusedBacked, JobDroppedBacked
<1>4. CASE Place \/ PlaceFails
  BY <1>4, PlaceBacked, PlaceFailsBacked
<1>5. CASE PlaceUncovered \/ RefindError \/ RefindDone
  BY <1>5, PlaceUncoveredBacked, RefindErrorBacked, RefindDoneBacked
<1>6. CASE StopDropped \/ ForceExitGoesOn \/ DeleteTrade
  BY <1>6, StopDroppedBacked, ForceExitGoesOnBacked, DeleteTradeBacked
<1>7. CASE RecordEntry \/ RecordExit \/ RecordStop
  BY <1>7, RecordEntryBacked, RecordExitBacked, RecordStopBacked
<1> QED
  BY <1>1, <1>2, <1>3, <1>4, <1>5, <1>6, <1>7 DEF Handler

LEMMA MainThreadStays ==
  ASSUME Standing, MainThread PROVE StaysBacked
<1>1. CASE AssignFees \/ Acquire \/ Release
  BY <1>1, AssignFeesBacked, AcquireBacked, ReleaseBacked
<1>2. ASSUME NEW o \in Ids, ManageSkip(o) \/ ManageUpdate(o) \/ ManageCanceled(o) PROVE StaysBacked
  BY <1>2, ManageSkipBacked, ManageUpdateBacked, ManageCanceledBacked
<1>3. ASSUME NEW o \in Ids, NEW why \in {"timeout", "drop", "replace"}, ManageCancel(o, why)
      PROVE  StaysBacked
  BY <1>3, ManageCancelBacked
<1>4. CASE AbortIteration \/ ManageDone
  BY <1>4, AbortIterationBacked, ManageDoneBacked
<1>5. CASE Recover \/ RecoverFails
  BY <1>5, RecoverBacked, RecoverFailsBacked
<1>6. ASSUME NEW o \in Ids, StopFetched(o) \/ StopNotFetched(o) PROVE StaysBacked
  BY <1>6, StopFetchedBacked, StopNotFetchedBacked
<1>7. CASE StopDecided \/ ExitSignal
  BY <1>7, StopDecidedBacked, ExitSignalBacked
<1>8. CASE AdjustPosition \/ EnterTrade
  BY <1>8, AdjustPositionBacked, EnterTradeBacked
<1>9. CASE Start \/ StartupDone
  BY <1>9, StartBacked, StartupDoneBacked
<1>10. ASSUME NEW o \in Ids, StartupUpdate(o) \/ StartupSkip(o) \/ StartupUnknown(o) PROVE StaysBacked
  BY <1>10, StartupUpdateBacked, StartupSkipBacked, StartupUnknownBacked
<1> QED
  BY <1>1, <1>2, <1>3, <1>4, <1>5, <1>6, <1>7, <1>8, <1>9, <1>10 DEF MainThread

LEMMA NextStays ==
  ASSUME Standing, [Next]_vars PROVE StaysBacked
<1>1. CASE Exchange
  BY <1>1, ExchangeBacked DEF Exchange
<1>2. CASE Handler
  BY <1>2, HandlerStays
<1>3. CASE MainThread
  BY <1>3, MainThreadStays
<1>4. CASE RpcThread
  BY <1>4, RpcForceExitBacked, RpcCancelOpenOrderBacked, RpcDeleteBacked, RpcReloadBacked DEF RpcThread
<1>5. CASE Dying
  BY <1>5, CrashBacked, CrashInUpdateBacked, CrashInRecoveryBacked DEF Dying
<1>6. CASE UNCHANGED vars
  BY <1>6, StutterBacked
<1> QED
  BY <1>1, <1>2, <1>3, <1>4, <1>5, <1>6 DEF Next

LEMMA InductiveBacked ==
  ASSUME AnswersAreTrue, ~ Replace
  PROVE  Spec => []BackedInv
<1>1. Init => BackedInv
  BY InitBacked
<1>2. IInv /\ BackedInv /\ [Next]_vars => BackedInv'
  BY NextStays DEF Standing, StaysBacked
<1> QED
  BY <1>1, <1>2, Inductive, PTL DEF Spec

\* RemovedIsEmpty: if no answer denies what an order has traded and the strategy
\* replaces no orders, a trade the bot removes on its own (a canceled entry, a
\* failed reload) has no order that has traded anything.
THEOREM RemovesOnlyEmptyTrades ==
  ASSUME AnswersAreTrue, ~ Replace
  PROVE  Spec => RemovedIsEmpty
<1>1. IInv /\ BackedInv /\ [Next]_vars => RemovesEmpty
  BY NextStays DEF Standing, StaysBacked
<1>2. RemovesEmpty <=> (Open(db) /\ db'.trade.st = "none" /\ pc' # "down" /\ job.kind # "delete"
                          => \A o \in Known(db) : xo'[o].filled = 0)
  BY DEF RemovesEmpty
<1>3. IInv /\ BackedInv /\ [Next]_vars
        => [ Open(db) /\ db'.trade.st = "none" /\ pc' # "down" /\ job.kind # "delete"
               => \A o \in Known(db) : xo'[o].filled = 0 ]_vars
  BY <1>1, <1>2
<1> QED
  BY <1>3, Inductive, InductiveBacked, PTL DEF Spec, RemovedIsEmpty

\* NoEmptyTrade: under the same assumption, without position adjustment, crash
\* and reload, an open trade has at every rest of the bot an order to wait for or
\* an entry that bought something: it does not block a slot for good.
THEOREM TradesHaveSomething ==
  ASSUME AnswersAreTrue, ~ Replace, OneEntryWatched
  PROVE  Spec => []NoEmptyTrade
<1>1. Init => NonEmptyInv
  BY InitBacked
<1>2. IInv /\ BackedInv /\ NonEmptyInv /\ [Next]_vars => NonEmptyInv'
  BY NextStays DEF Standing, StaysBacked
<1>3. NonEmptyInv => NoEmptyTrade
  <2> SUFFICES ASSUME NonEmptyInv, Open(db) PROVE OpenOrders(db) # {} \/ SuccessfulEntries(db) # {}
    BY DEF NoEmptyTrade
  <2>1. BoughtIn(xo, db) \/ \E o \in Ids : db.rows[o].known /\ db.rows[o].open /\ xo[o].side # "stoploss"
    BY DEF NonEmptyInv, NonEmpty, Open
  <2> QED
    BY <2>1, SuccessfulIsBought DEF OpenOrders, OpenRows, Known
<1> QED
  BY <1>1, <1>2, <1>3, Inductive, InductiveBacked, PTL DEF Spec

(***************************************************************************)
(* More about sums.                                                        *)
(***************************************************************************)

LEMMA SumChange ==
  ASSUME NEW S, IsFiniteSet(S), NEW f \in [S -> Int], NEW g \in [S -> Int], NEW a \in S,
         \A b \in S : b # a => f[b] = g[b]
  PROVE  SumFunction(f) + g[a] = SumFunction(g) + f[a]
<1>1. \A b \in S : b # a => f[b] <= g[b] /\ g[b] <= f[b]
  <2> SUFFICES ASSUME NEW b \in S, b # a PROVE f[b] <= g[b] /\ g[b] <= f[b]
    OBVIOUS
  <2>1. f[b] = g[b] /\ g[b] \in Int
    OBVIOUS
  <2> QED
    BY <2>1
<1>2. SumFunction(f) + g[a] <= SumFunction(g) + f[a]
  BY <1>1, SumCompare
<1>3. SumFunction(g) + f[a] <= SumFunction(f) + g[a]
  BY <1>1, SumCompare
<1>4. SumFunction(f) \in Int /\ SumFunction(g) \in Int
  BY SumIsInt
<1>5. g[a] \in Int /\ f[a] \in Int
  OBVIOUS
<1> DEFINE l == SumFunction(f) + g[a]
           r == SumFunction(g) + f[a]
<1>6. l \in Int /\ r \in Int
  BY <1>4, <1>5
<1>7. l <= r /\ r <= l
  BY <1>2, <1>3
<1> HIDE DEF l, r
<1>8. l = r
  BY <1>6, <1>7
<1> QED
  BY <1>8 DEF l, r

\* The sum over a set of what is computed for its elements, as a sum over a
\* larger set.
ShareWithin(f, A, S) == [o \in S |-> IF o \in A THEN f[o] ELSE 0]

LEMMA SumOfPart ==
  ASSUME NEW S, IsFiniteSet(S), NEW A \in SUBSET S, NEW f \in [A -> Int]
  PROVE  SumFunction(f) = SumFunction(ShareWithin(f, A, S))
<1> DEFINE g == ShareWithin(f, A, S)
<1>1. g \in [S -> Int] /\ (\A o \in A : g[o] = f[o]) /\ \A o \in S \ A : g[o] = 0
  BY DEF ShareWithin
<1>2. IsFiniteSet(A)
  BY FS_Subset
<1> HIDE DEF g
<1>3. PICK j : Adds(j, f, A) /\ SumFunction(f) = j[A]
  BY <1>2, SumAdds
<1>4. PICK k : Adds(k, g, S) /\ SumFunction(g) = k[S]
  BY <1>1, SumAdds
<1> DEFINE W == {s \in SUBSET S : k[s] = j[s \cap A]}
<1>5. {} \in W
  <2>1. {} \cap A = {}
    OBVIOUS
  <2> QED
    BY <1>3, <1>4, <2>1 DEF Adds
<1>6. \A s \in SUBSET S : s # {} /\ (\A b \in s : s \ {b} \in W) => s \in W
  <2> SUFFICES ASSUME NEW s \in SUBSET S, NEW b \in s, s \ {b} \in W PROVE k[s] = j[s \cap A]
    OBVIOUS
  <2>1. k[s] = g[b] + k[s \ {b}] /\ k[s \ {b}] = j[(s \ {b}) \cap A]
    BY <1>4 DEF Adds
  <2>2. k[s \ {b}] \in Int
    BY <1>4 DEF Adds
  <2>3. CASE b \in A
    <3>1. (s \ {b}) \cap A = (s \cap A) \ {b} /\ s \cap A \in SUBSET A /\ b \in s \cap A
      BY <2>3
    <3>2. j[s \cap A] = f[b] + j[(s \cap A) \ {b}]
      BY <1>3, <3>1 DEF Adds
    <3> QED
      BY <1>1, <2>1, <2>3, <3>1, <3>2
  <2>4. CASE b \notin A
    <3>1. (s \ {b}) \cap A = s \cap A
      BY <2>4
    <3> QED
      BY <1>1, <2>1, <2>2, <2>4, <3>1
  <2> QED
    BY <2>3, <2>4
<1> HIDE DEF W
<1>7. S \in W
  BY <1>5, <1>6, SubsetsByOne
<1>8. S \cap A = A
  OBVIOUS
<1> QED
  BY <1>3, <1>4, <1>7, <1>8 DEF W, g

LEMMA SumMinus ==
  ASSUME NEW S, IsFiniteSet(S), NEW f \in [S -> Int], NEW g \in [S -> Int], NEW h \in [S -> Int],
         \A o \in S : h[o] = f[o] - g[o]
  PROVE  SumFunction(h) = SumFunction(f) - SumFunction(g)
<1>1. PICK i : Adds(i, f, S) /\ SumFunction(f) = i[S]
  BY SumAdds
<1>2. PICK j : Adds(j, g, S) /\ SumFunction(g) = j[S]
  BY SumAdds
<1>3. PICK k : Adds(k, h, S) /\ SumFunction(h) = k[S]
  BY SumAdds
<1> DEFINE W == {s \in SUBSET S : k[s] = i[s] - j[s]}
<1>4. {} \in W
  BY <1>1, <1>2, <1>3 DEF Adds
<1>5. \A s \in SUBSET S : s # {} /\ (\A b \in s : s \ {b} \in W) => s \in W
  <2> SUFFICES ASSUME NEW s \in SUBSET S, NEW b \in s, s \ {b} \in W PROVE k[s] = i[s] - j[s]
    OBVIOUS
  <2>1. /\ i[s] = f[b] + i[s \ {b}] /\ j[s] = g[b] + j[s \ {b}] /\ k[s] = h[b] + k[s \ {b}]
        /\ i[s \ {b}] \in Int /\ j[s \ {b}] \in Int
    BY <1>1, <1>2, <1>3 DEF Adds
  <2>2. f[b] \in Int /\ g[b] \in Int /\ h[b] = f[b] - g[b] /\ k[s \ {b}] = i[s \ {b}] - j[s \ {b}]
    OBVIOUS
  <2> QED
    BY <2>1, <2>2
<1> HIDE DEF W
<1>6. S \in W
  BY <1>4, <1>5, SubsetsByOne
<1> QED
  BY <1>1, <1>2, <1>3, <1>6 DEF W

(***************************************************************************)
(* What the exchange has traded, and what is free, as sums over all orders. *)
(***************************************************************************)

\* What an order has traded.
TradedBy(x, o) == Sign(x[o].side) * x[o].filled

LEMMA TradedIs ==
  ASSUME NEW A \in SUBSET Ids, xo \in Orders
  PROVE  Traded(A) = SumFunction([o \in Ids |-> IF o \in A THEN TradedBy(xo, o) ELSE 0])
<1> DEFINE f == [o \in A |-> TradedBy(xo, o)]
           P(g) == g = [s \in SUBSET A |-> IF s = {} THEN 0
                          ELSE Sign(xo[First(s)].side) * xo[First(s)].filled + g[s \ {First(s)}]]
           fold == CHOOSE g : P(g)
<1>1. IsFiniteSet(A) /\ IsFiniteSet(Ids)
  BY FS_Subset, IdsFinite
<1>2. \A o \in Ids : TradedBy(xo, o) \in Int
  BY DEF TradedBy, Sign, Orders
<1>3. f \in [A -> Int]
  BY <1>2
<1>4. \A o \in A : f[o] = Sign(xo[o].side) * xo[o].filled
  BY DEF TradedBy
<1> HIDE DEF f
<1>5. PICK h : IsFold(h, f, A) /\ SumFunction(f) = h[A]
  <2>1. \E h : IsFold(h, f, A)
    <3>1. 0 \in Int /\ \A a, b \in Int : a + b \in Int
      OBVIOUS
    <3>2. PICK h \in [SUBSET A -> Int] : IsFold(h, f, A)
      BY <1>1, <1>3, <3>1, FoldsExist
    <3> QED
      BY <3>2
  <2>2. DOMAIN f = A
    BY <1>3
  <2> QED
    BY <2>1, <2>2, FoldIs
<1>6. \A g : IsFold(g, f, A) <=> P(g)
  <2> SUFFICES ASSUME NEW g
               PROVE  [s \in SUBSET A |-> FoldStep(g, f, s)]
                        = [s \in SUBSET A |-> IF s = {} THEN 0
                             ELSE Sign(xo[First(s)].side) * xo[First(s)].filled + g[s \ {First(s)}]]
    BY DEF IsFold
  <2>1. \A s \in SUBSET A : FoldStep(g, f, s)
           = IF s = {} THEN 0
             ELSE Sign(xo[First(s)].side) * xo[First(s)].filled + g[s \ {First(s)}]
    BY <1>4, FirstIs DEF FoldStep
  <2> QED
    BY <2>1
<1> HIDE DEF P
<1>7. P(fold)
  BY <1>5, <1>6, Zenon
<1>8. Traded(A) = fold[A]
  BY Zenon DEF Traded, MapThenSumSet, MapThenFoldSet, P, First
<1> HIDE DEF fold
<1>9. fold = h
  BY <1>1, <1>5, <1>6, <1>7, FoldsAgree
<1>10. Traded(A) = SumFunction(f)
  BY <1>5, <1>8, <1>9
<1>11. ShareWithin(f, A, Ids) = [o \in Ids |-> IF o \in A THEN TradedBy(xo, o) ELSE 0]
  BY DEF ShareWithin, f
<1> QED
  BY <1>1, <1>3, <1>10, <1>11, SumOfPart

\* The orders that block coins, and what they block.
BlockingIn(x) == {o \in Ids : x[o].status = "open" /\ x[o].side # "entry"}

LEMMA BlockedIs ==
  ASSUME xo \in Orders
  PROVE  Blocked = SumFunction([o \in Ids |-> IF o \in BlockingIn(xo) THEN xo[o].amount - xo[o].filled ELSE 0])
<1> DEFINE A == BlockingIn(xo)
           f == [o \in A |-> xo[o].amount - xo[o].filled]
           P(g) == g = [s \in SUBSET A |-> IF s = {} THEN 0
                          ELSE (xo[First(s)].amount - xo[First(s)].filled) + g[s \ {First(s)}]]
           fold == CHOOSE g : P(g)
<1>1. A \in SUBSET Ids /\ IsFiniteSet(A) /\ IsFiniteSet(Ids)
  BY FS_Subset, IdsFinite DEF BlockingIn
<1>2. {o \in Used : xo[o].status = "open" /\ xo[o].side # "entry"} = A
  BY DEF Used, BlockingIn
<1> HIDE DEF A
<1>3. f \in [A -> Int]
  BY <1>1 DEF Orders
<1>4. \A o \in A : f[o] = xo[o].amount - xo[o].filled
  OBVIOUS
<1> HIDE DEF f
<1>5. PICK h : IsFold(h, f, A) /\ SumFunction(f) = h[A]
  <2>1. \E h : IsFold(h, f, A)
    <3>1. 0 \in Int /\ \A a, b \in Int : a + b \in Int
      OBVIOUS
    <3>2. PICK h \in [SUBSET A -> Int] : IsFold(h, f, A)
      BY <1>1, <1>3, <3>1, FoldsExist
    <3> QED
      BY <3>2
  <2>2. DOMAIN f = A
    BY <1>3
  <2> QED
    BY <2>1, <2>2, FoldIs
<1>6. \A g : IsFold(g, f, A) <=> P(g)
  <2> SUFFICES ASSUME NEW g
               PROVE  [s \in SUBSET A |-> FoldStep(g, f, s)]
                        = [s \in SUBSET A |-> IF s = {} THEN 0
                             ELSE (xo[First(s)].amount - xo[First(s)].filled) + g[s \ {First(s)}]]
    BY DEF IsFold
  <2>1. \A s \in SUBSET A : FoldStep(g, f, s)
           = IF s = {} THEN 0
             ELSE (xo[First(s)].amount - xo[First(s)].filled) + g[s \ {First(s)}]
    BY <1>4, FirstIs DEF FoldStep
  <2> QED
    BY <2>1
<1> HIDE DEF P
<1>7. P(fold)
  BY <1>5, <1>6, Zenon
<1>8. MapThenSumSet(LAMBDA o : xo[o].amount - xo[o].filled, A) = fold[A]
  BY Zenon DEF MapThenSumSet, MapThenFoldSet, P, First
<1>9. Blocked = MapThenSumSet(LAMBDA o : xo[o].amount - xo[o].filled, A)
  BY <1>2, Zenon DEF Blocked
<1> HIDE DEF fold
<1>10. fold = h
  BY <1>1, <1>5, <1>6, <1>7, FoldsAgree
<1>11. Blocked = SumFunction(f)
  BY <1>5, <1>8, <1>9, <1>10
<1>12. ShareWithin(f, A, Ids) = [o \in Ids |-> IF o \in A THEN xo[o].amount - xo[o].filled ELSE 0]
  BY DEF ShareWithin, f
<1>13. SumFunction(f) = SumFunction(ShareWithin(f, A, Ids))
  BY <1>1, <1>3, SumOfPart
<1> QED
  BY <1>11, <1>12, <1>13 DEF A

\* What an order leaves of the coins in the account: a sale that is open takes
\* all it asks for.
Effect(x, o) ==
  IF x[o].side = "entry" THEN x[o].filled
  ELSE IF x[o].status = "open" THEN - x[o].amount ELSE - x[o].filled

FreeIn(x) == SumFunction([o \in Ids |-> Effect(x, o)])

LEMMA EffectIsInt ==
  ASSUME NEW x \in Orders
  PROVE  /\ \A o \in Ids : Effect(x, o) \in Int
         /\ [o \in Ids |-> Effect(x, o)] \in [Ids -> Int]
         /\ FreeIn(x) \in Int
<1>1. \A o \in Ids : Effect(x, o) \in Int
  BY DEF Effect, Orders
<1>2. [o \in Ids |-> Effect(x, o)] \in [Ids -> Int]
  BY <1>1
<1> QED
  BY <1>1, <1>2, IdsFinite, SumIsInt DEF FreeIn

\* What the account holds is what all orders have traded, and what is free what
\* they leave.
LEMMA OwnedIs ==
  ASSUME xo \in Orders, Spare = 0
  PROVE  Owned = Traded(Used) /\ Traded(Used) \in Int
<1>1. Traded(Used) \in Int
  <2> DEFINE f == [o \in Ids |-> IF o \in Used THEN TradedBy(xo, o) ELSE 0]
  <2>1. Used \in SUBSET Ids
    BY DEF Used
  <2>2. f \in [Ids -> Int]
    BY DEF TradedBy, Sign, Orders
  <2> HIDE DEF f
  <2>3. SumFunction(f) \in Int
    BY <2>2, IdsFinite, SumIsInt
  <2> QED
    BY <2>1, <2>3, TradedIs DEF f
<1>2. Owned = Spare + Traded(Used)
  BY Zenon DEF Owned, Traded
<1> QED
  BY <1>1, <1>2

LEMMA FreeIs ==
  ASSUME xo \in Orders, Spare = 0, \A o \in Ids : xo[o].status = "none" => xo[o].filled = 0
  PROVE  Free = FreeIn(xo)
<1> DEFINE f == [o \in Ids |-> IF o \in Used THEN TradedBy(xo, o) ELSE 0]
           g == [o \in Ids |-> IF o \in BlockingIn(xo) THEN xo[o].amount - xo[o].filled ELSE 0]
           h == [o \in Ids |-> Effect(xo, o)]
<1>1. f \in [Ids -> Int] /\ g \in [Ids -> Int] /\ h \in [Ids -> Int]
  BY EffectIsInt DEF TradedBy, Sign, Orders
<1>2. \A o \in Ids : h[o] = f[o] - g[o]
  <2> SUFFICES ASSUME NEW o \in Ids PROVE Effect(xo, o) = f[o] - g[o]
    OBVIOUS
  <2>1. xo[o].filled \in Nat /\ xo[o].amount \in Nat
    BY DEF Orders
  <2>2. CASE xo[o].side = "entry"
    <3>1. f[o] = xo[o].filled
      BY <2>1, <2>2 DEF Used, TradedBy, Sign
    <3>2. g[o] = 0
      BY <2>2 DEF BlockingIn
    <3> HIDE DEF f, g
    <3> QED
      BY <2>1, <2>2, <3>1, <3>2 DEF Effect
  <2>3. CASE xo[o].side # "entry"
    <3>1. f[o] = - xo[o].filled
      <4>1. Sign(xo[o].side) = -1
        BY <2>3 DEF Sign
      <4> QED
        BY <2>1, <4>1 DEF Used, TradedBy
    <3>2. g[o] = IF xo[o].status = "open" THEN xo[o].amount - xo[o].filled ELSE 0
      BY <2>3 DEF BlockingIn
    <3> HIDE DEF f, g
    <3> QED
      BY <2>1, <2>3, <3>1, <3>2 DEF Effect
  <2> QED
    BY <2>2, <2>3
<1>3. Owned = SumFunction(f)
  <2>1. Used \in SUBSET Ids
    BY DEF Used
  <2> QED
    BY <2>1, OwnedIs, TradedIs
<1>4. Blocked = SumFunction(g)
  BY BlockedIs
<1> HIDE DEF f, g, h
<1>5. SumFunction(h) = SumFunction(f) - SumFunction(g)
  <2>1. IsFiniteSet(Ids)
    BY IdsFinite
  <2>2. f \in [Ids -> Int]
    BY <1>1
  <2>3. g \in [Ids -> Int]
    BY <1>1
  <2>4. h \in [Ids -> Int]
    BY <1>1
  <2> HIDE DEF Ids
  <2> QED
    BY <1>2, <2>1, <2>2, <2>3, <2>4, SumMinus
<1> QED
  BY <1>3, <1>4, <1>5 DEF Free, FreeIn, h

LEMMA SumMonotone ==
  ASSUME NEW S, IsFiniteSet(S), NEW f \in [S -> Int], NEW g \in [S -> Int], \A b \in S : f[b] <= g[b]
  PROVE  SumFunction(f) <= SumFunction(g)
<1>1. SumFunction(f) \in Int /\ SumFunction(g) \in Int
  BY SumIsInt
<1>2. CASE S = {}
  <2>1. f = g
    BY <1>2
  <2> QED
    BY <1>1, <2>1
<1>3. CASE S # {}
  <2>1. PICK a \in S : TRUE
    BY <1>3
  <2>2. SumFunction(f) + g[a] <= SumFunction(g) + f[a]
    BY SumCompare
  <2>3. f[a] \in Int /\ g[a] \in Int /\ f[a] <= g[a]
    OBVIOUS
  <2> QED
    BY <1>1, <2>2, <2>3
<1> QED
  BY <1>2, <1>3

(***************************************************************************)
(* The bot alone sells one entry, with an exchange that answers.           *)
(***************************************************************************)

\* One entry, no coins but the trade's, no crash, and an exchange that answers
\* requests or fails to, without doing half of them.
OneSale ==
  /\ Answers \subseteq {"raced", "expired", "error"} /\ Commands \subseteq {"exit", "cancel"}
  /\ ~ Adjust /\ ~ Replace /\ Crashes = 0 /\ Spare = 0

\* What a row that is done adds to the trade.
Part(x, d, o) == IF d.rows[o].known /\ ~ d.rows[o].open THEN Sign(x[o].side) * d.rows[o].filled ELSE 0

\* The orders the bot waits for.
Waiting(x, d) == {o \in Ids : d.rows[o].known /\ d.rows[o].open /\ x[o].side # "stoploss"}

\* One entry, and one order to wait for at a time; the trade is open as long as
\* what was bought is not sold, and closed when it is.
SaleOf(x, d) ==
  /\ d.trade.st = "none" => Known(d) = {}
  /\ \A o, p \in Known(d) : x[o].side = "entry" /\ x[p].side = "entry" => o = p
  /\ \A o, p \in Waiting(x, d) : o = p
  /\ d.trade.st = "open" /\ BoughtIn(x, d) => NetIn(x, d) > 0
  /\ d.trade.st = "closed" => BoughtIn(x, d) /\ NetIn(x, d) <= 0

\* Nothing came of the orders the database does not have, except for order id.
Unseen(x, d, id) ==
  \A o \in Ids : ~ d.rows[o].known /\ o # id => x[o].status # "open" /\ x[o].filled = 0

\* No more is on sale than there is.
DataSale ==
  /\ FreeIn(xo) >= 0
  /\ Unseen(xo, db, sent.id)
  /\ SaleOf(xo, db) /\ SaleOf(xo, stored)

\* An exit that is to be placed asks for all there is, unless nothing else is on
\* sale; what it could not cancel has begun to fill.
ExitFits(x, d, j, cs) ==
  j.kind \in ExitKinds /\ ~ j.refinding =>
    \/ ~ j.ready /\ j.want = 0
    \/ Waiting(x, d) = {}
    \/ j.ready /\ j.want >= NetIn(x, d) /\ \A o \in Waiting(x, d) : o \in cs \/ x[o].filled > 0

HandlerSale ==
  /\ job.kind # "delete" /\ pc # "recover"
  /\ cancels \cup refind \cup todo \subseteq OpenRows(db)
  /\ job.refinding => cancels = {}
  /\ job.kind \in EntryKinds => db.trade.st = "none"
  /\ sent # NotSent /\ job.kind \in ExitKinds => Waiting(xo, db) = {}
  /\ ExitFits(xo, db, job, cancels)
  /\ todo # {} => Quiet /\ (pc \in {"manage", "stops"} \/ holder = "rpc")
  /\ pc = "stops" => Quiet
  /\ pc # "stops" => todo \subseteq Waiting(xo, db)
  /\ holder = "free" => todo = {}
  /\ sent # NotSent => xo[sent.id].side = Side(job.kind)

SaleInv == DataSale /\ HandlerSale

SaleStands == OneSale /\ IInv /\ BackedInv /\ NonEmptyInv /\ SaleInv

LEMMA OneSaleFacts ==
  ASSUME OneSale
  PROVE  /\ AnswersAreTrue /\ OneEntryWatched /\ ~ Replace /\ ~ Adjust /\ Crashes = 0 /\ Spare = 0
         /\ "slow" \notin Answers /\ "forgotten" \notin Answers /\ "lost" \notin Answers
         /\ "delete" \notin Commands /\ "reload" \notin Commands
  BY DEF OneSale, AnswersAreTrue, OneEntryWatched

LEMMA StandsFacts ==
  ASSUME SaleStands
  PROVE  /\ Standing /\ OneEntryWatched /\ NonEmptyInv /\ DataSale /\ HandlerSale
         /\ AnswersAreTrue /\ Crashes = 0
         /\ OrdersFit(xo) /\ xo \in Orders /\ db \in Databases /\ stored \in Databases
         /\ Fits(xo, db) /\ Fits(xo, stored) /\ Backed(xo, db) /\ Backed(xo, stored)
  BY OneSaleFacts DEF SaleStands, SaleInv, Standing, IInv, OrdersFit, Fits, BackedInv, DataBacked

(***************************************************************************)
(* What one row adds, and what is left.                                    *)
(***************************************************************************)

LEMMA PartIsInt ==
  ASSUME NEW x \in Orders, NEW d \in Databases
  PROVE  /\ \A o \in Ids : Part(x, d, o) \in Int
         /\ [o \in Ids |-> Part(x, d, o)] \in [Ids -> Int]
         /\ NetIn(x, d) = SumFunction([o \in Ids |-> Part(x, d, o)])
<1>1. \A o \in Ids : Part(x, d, o) \in Int
  <2> SUFFICES ASSUME NEW o \in Ids PROVE Part(x, d, o) \in Int
    OBVIOUS
  <2>1. d.rows[o].filled \in Int
    BY DEF Databases
  <2> QED
    BY <2>1 DEF Part, Sign
<1>2. [o \in Ids |-> Part(x, d, o)] \in [Ids -> Int]
  BY <1>1
<1>3. NetIn(x, d) = SumFunction([o \in Ids |-> Part(x, d, o)])
  BY DEF NetIn, Part
<1> QED
  BY <1>1, <1>2, <1>3

LEMMA NetChanges ==
  ASSUME NEW x \in Orders, NEW d \in Databases, NEW e \in Databases, NEW o \in Ids, NEW c,
         e.rows = [d.rows EXCEPT ![o] = Row(c)]
  PROVE  /\ NetIn(x, e) + Part(x, d, o) = NetIn(x, d) + Part(x, e, o)
         /\ NetIn(x, e) \in Int /\ NetIn(x, d) \in Int /\ Part(x, d, o) \in Int /\ Part(x, e, o) \in Int
<1> DEFINE f == [p \in Ids |-> Part(x, e, p)]
           g == [p \in Ids |-> Part(x, d, p)]
<1>1. \A p \in Ids : p # o => f[p] = g[p]
  BY DEF Databases, Part
<1>2. f \in [Ids -> Int] /\ g \in [Ids -> Int]
  BY PartIsInt
<1>3. f[o] = Part(x, e, o) /\ g[o] = Part(x, d, o)
  OBVIOUS
<1>4. NetIn(x, e) = SumFunction(f) /\ NetIn(x, d) = SumFunction(g)
  BY PartIsInt
<1> HIDE DEF f, g
<1>5. SumFunction(f) + g[o] = SumFunction(g) + f[o]
  <2>1. IsFiniteSet(Ids)
    BY IdsFinite
  <2>2. f \in [Ids -> Int]
    BY <1>2
  <2>3. g \in [Ids -> Int]
    BY <1>2
  <2> QED
    BY <1>1, <2>1, <2>2, <2>3, SumChange
<1> QED
  BY <1>3, <1>4, <1>5, PartIsInt, NetIsInt

\* Without a row that is done the trade has nothing.
LEMMA NetOfUndone ==
  ASSUME NEW x \in Orders, NEW d \in Databases, \A o \in Ids : d.rows[o].known => d.rows[o].open
  PROVE  NetIn(x, d) = 0
<1> DEFINE f == [o \in Ids |-> Part(x, d, o)]
           T == {0}
<1>1. f \in [Ids -> T]
  BY DEF Part
<1>2. 0 \in T /\ \A a, b \in T : a + b \in T
  OBVIOUS
<1>3. NetIn(x, d) = SumFunction(f)
  BY PartIsInt
<1> HIDE DEF f, T
<1>4. SumFunction(f) \in T
  BY <1>1, <1>2, IdsFinite, SumIsIn
<1> QED
  BY <1>3, <1>4 DEF T

\* Where the entries that bought anything are done, what is free is what the
\* trade has, less what is on sale or was sold behind its back.
LEMMA FreeWithin ==
  ASSUME NEW x \in Orders, NEW d \in Databases, FinalIn(x, d),
         \A o \in Ids : ~ d.rows[o].known \/ d.rows[o].open
                          => x[o].side # "entry" \/ x[o].filled = 0,
         NEW p \in Ids, ~ d.rows[p].known \/ d.rows[p].open
  PROVE  FreeIn(x) <= NetIn(x, d) + Effect(x, p)
<1> DEFINE f == [o \in Ids |-> Effect(x, o)]
           g == [o \in Ids |-> Part(x, d, o)]
<1>1. \A o \in Ids : f[o] <= g[o]
  <2> SUFFICES ASSUME NEW o \in Ids PROVE Effect(x, o) <= Part(x, d, o)
    OBVIOUS
  <2>1. x[o].filled \in Nat /\ x[o].amount \in Nat /\ d.rows[o].filled \in Nat
    BY DEF Orders, Databases
  <2>2. CASE d.rows[o].known /\ ~ d.rows[o].open
    <3>1. x[o].status # "open" /\ d.rows[o].filled = x[o].filled
      BY <2>2 DEF FinalIn
    <3>2. CASE x[o].side = "entry"
      BY <2>1, <2>2, <3>1, <3>2 DEF Effect, Part, Sign
    <3>3. CASE x[o].side # "entry"
      <4>1. Sign(x[o].side) = -1
        BY <3>3 DEF Sign
      <4> QED
        BY <2>1, <2>2, <3>1, <3>3, <4>1 DEF Effect, Part
    <3> QED
      BY <3>2, <3>3
  <2>3. CASE ~ (d.rows[o].known /\ ~ d.rows[o].open)
    <3>1. Part(x, d, o) = 0
      BY <2>3 DEF Part
    <3>2. Effect(x, o) <= 0
      BY <2>1, <2>3 DEF Effect
    <3> QED
      BY <3>1, <3>2
  <2> QED
    BY <2>2, <2>3
<1>2. f \in [Ids -> Int] /\ g \in [Ids -> Int]
  BY PartIsInt, EffectIsInt
<1>3. f[p] = Effect(x, p) /\ g[p] = 0
  BY DEF Part
<1>4. FreeIn(x) = SumFunction(f) /\ NetIn(x, d) = SumFunction(g)
  BY PartIsInt DEF FreeIn
<1> HIDE DEF f, g
<1>5. SumFunction(f) + g[p] <= SumFunction(g) + f[p]
  BY <1>1, <1>2, IdsFinite, SumCompare
<1>6. FreeIn(x) \in Int
  BY EffectIsInt
<1> QED
  BY <1>3, <1>4, <1>5, <1>6

\* When all rows are done, and nothing came of other orders, what the exchange
\* traded is what the trade has.
LEMMA TradedOfDone ==
  ASSUME xo \in Orders, NEW d \in Databases, FinalIn(xo, d), Unseen(xo, d, 0), OpenRows(d) = {},
         NEW A \in SUBSET Ids, Known(d) \subseteq A
  PROVE  Traded(A) = NetIn(xo, d)
<1> DEFINE f == [o \in Ids |-> IF o \in A THEN TradedBy(xo, o) ELSE 0]
           g == [o \in Ids |-> Part(xo, d, o)]
<1>1. \A o \in Ids : f[o] = g[o]
  <2> SUFFICES ASSUME NEW o \in Ids PROVE f[o] = Part(xo, d, o)
    OBVIOUS
  <2>1. CASE d.rows[o].known
    <3>1. o \in A /\ ~ d.rows[o].open
      BY <2>1 DEF OpenRows, Known
    <3>2. d.rows[o].filled = xo[o].filled
      BY <2>1, <3>1 DEF FinalIn
    <3> QED
      BY <2>1, <3>1, <3>2 DEF Part, TradedBy
  <2>2. CASE ~ d.rows[o].known
    <3>1. xo[o].filled = 0
      BY <2>2, IdsFinite DEF Unseen
    <3>2. TradedBy(xo, o) = 0
      BY <3>1 DEF TradedBy, Sign
    <3> QED
      BY <2>2, <3>2 DEF Part
  <2> QED
    BY <2>1, <2>2
<1>2. f = g
  BY <1>1
<1>3. NetIn(xo, d) = SumFunction(g) /\ Traded(A) = SumFunction(f)
  BY PartIsInt, TradedIs
<1> QED
  BY <1>2, <1>3

LEMMA SaleFrame ==
  ASSUME NEW x \in Orders, NEW y \in Orders, NEW d \in Databases,
         \A o \in Ids : d.rows[o].known => y[o].side = x[o].side
  PROVE  /\ SaleOf(x, d) => SaleOf(y, d)
         /\ Waiting(y, d) = Waiting(x, d) /\ NetIn(y, d) = NetIn(x, d)
         /\ BoughtIn(y, d) <=> BoughtIn(x, d)
<1>1. Waiting(y, d) = Waiting(x, d)
  BY DEF Waiting
<1>2. NetIn(y, d) = NetIn(x, d)
  <2>1. \A o \in Ids : Part(y, d, o) = Part(x, d, o)
    BY DEF Part
  <2>2. [o \in Ids |-> Part(y, d, o)] = [o \in Ids |-> Part(x, d, o)]
    BY <2>1
  <2> QED
    BY <2>2, PartIsInt
<1>3. BoughtIn(y, d) <=> BoughtIn(x, d)
  BY DEF BoughtIn
<1>4. \A o \in Known(d) : y[o].side = x[o].side
  BY DEF Known
<1> QED
  BY <1>1, <1>2, <1>3, <1>4 DEF SaleOf

\* Orders only get filled, or stop, as far as nobody adds one.
Grows(x, y) ==
  /\ x \in Orders /\ y \in Orders
  /\ \A o \in Ids : /\ y[o].side = x[o].side /\ y[o].amount = x[o].amount
                    /\ x[o].filled <= y[o].filled /\ y[o].filled <= y[o].amount
                    /\ x[o].status # "open" => y[o] = x[o]

LEMMA GrowsFacts ==
  ASSUME NEW x, NEW y, Grows(x, y)
  PROVE  /\ FreeIn(x) <= FreeIn(y) /\ FreeIn(x) \in Int /\ FreeIn(y) \in Int
         /\ \A d, id : Unseen(x, d, id) => Unseen(y, d, id)
<1>1. x \in Orders /\ y \in Orders
  BY DEF Grows
<1> DEFINE f == [o \in Ids |-> Effect(x, o)]
           g == [o \in Ids |-> Effect(y, o)]
<1>2. \A o \in Ids : f[o] <= g[o]
  <2> SUFFICES ASSUME NEW o \in Ids PROVE Effect(x, o) <= Effect(y, o)
    OBVIOUS
  <2>1. /\ x[o].filled \in Nat /\ x[o].amount \in Nat /\ y[o].filled \in Nat
        /\ y[o].side = x[o].side /\ y[o].amount = x[o].amount
        /\ x[o].filled <= y[o].filled /\ y[o].filled <= y[o].amount
        /\ x[o].status # "open" => y[o].status = x[o].status /\ y[o].filled = x[o].filled
    BY <1>1 DEF Orders, Grows
  <2> QED
    BY <2>1 DEF Effect
<1>3. f \in [Ids -> Int]
  BY <1>1, EffectIsInt
<1>4. g \in [Ids -> Int]
  BY <1>1, EffectIsInt
<1>5. FreeIn(x) = SumFunction(f) /\ FreeIn(y) = SumFunction(g)
  BY DEF FreeIn
<1>6. IsFiniteSet(Ids)
  BY IdsFinite
<1> HIDE DEF f, g
<1>7. SumFunction(f) <= SumFunction(g)
  BY <1>2, <1>3, <1>4, <1>6, SumMonotone
<1>8. \A d, id : Unseen(x, d, id) => Unseen(y, d, id)
  BY DEF Unseen, Grows
<1> QED
  BY <1>1, <1>5, <1>7, <1>8, EffectIsInt

\* What an answer does to the state of the trade.
LEMMA StateOf ==
  ASSUME xo \in Orders, NEW d \in Databases, NEW o \in Ids, NEW c \in Seen, c.status # "open", c.filled > 0
  PROVE  UpdateTradeState(d, o, c).trade.st
           = IF xo[o].side # "entry" /\ c.filled >= d.trade.amount THEN "closed" ELSE d.trade.st
<1> DEFINE u == UpdateRow(d, o, c)
           t == [u EXCEPT !.trade.st = "closed"]
           closes == ClosesTrade(u, o)
<1>1. u \in Databases /\ u.rows = [d.rows EXCEPT ![o] = Row(c)] /\ u.trade = d.trade
  BY UpdateRowFacts
<1>2. ~ u.rows[o].open /\ u.rows[o].filled = c.filled /\ u.rows[o].open \in BOOLEAN
  BY <1>1 DEF Databases, Row
<1>3. UpdateTradeState(d, o, c) = UpdateTrade(u, o, closes)
  BY DEF UpdateTradeState, CanceledEmpty
<1>4. closes <=> c.filled >= d.trade.amount
  BY <1>1, <1>2 DEF ClosesTrade
<1> HIDE DEF u, closes
<1>5. CASE xo[o].side = "entry"
  <2> DEFINE v == [u EXCEPT !.trade.amount = u.rows[o].filled]
  <2>1. UpdateTrade(u, o, closes) = Recalc(v)
    BY <1>2, <1>5 DEF UpdateTrade
  <2>2. v \in Databases /\ v.trade.st = d.trade.st
    BY <1>1, <1>2 DEF Databases
  <2> HIDE DEF v
  <2> QED
    BY <1>3, <1>5, <2>1, <2>2, RecalcFacts
<1>6. CASE xo[o].side # "entry"
  <2>1. UpdateTrade(u, o, closes) = Recalc(IF closes THEN t ELSE u)
    BY <1>2, <1>6 DEF UpdateTrade
  <2>2. t \in Databases /\ t.trade.st = "closed"
    BY <1>1 DEF Databases
  <2> HIDE DEF t
  <2> QED
    BY <1>1, <1>3, <1>4, <1>6, <2>1, <2>2, RecalcFacts
<1> QED
  BY <1>5, <1>6

LEMMA RowValues ==
  ASSUME NEW c \in Seen
  PROVE  Row(c).known /\ (Row(c).open <=> c.status = "open") /\ Row(c).filled = c.filled /\ Row(c).filled \in Nat
  BY DEF Row, Seen

LEMMA RowJoins ==
  ASSUME NEW d \in Databases, NEW e, NEW o \in Ids, NEW c \in Seen, e.rows = [d.rows EXCEPT ![o] = Row(c)]
  PROVE  /\ Known(e) = Known(d) \cup {o}
         /\ OpenRows(e) = IF c.status = "open" THEN OpenRows(d) \cup {o} ELSE OpenRows(d) \ {o}
<1>1. e.rows[o] = Row(c) /\ \A p \in Ids : p # o => e.rows[p] = d.rows[p]
  BY DEF Databases
<1>2. Row(c).known /\ (Row(c).open <=> c.status = "open")
  BY RowValues
<1>3. Known(e) = Known(d) \cup {o}
  BY <1>1, <1>2 DEF Known
<1>4. OpenRows(e) = IF c.status = "open" THEN OpenRows(d) \cup {o} ELSE OpenRows(d) \ {o}
  BY <1>1, <1>2 DEF OpenRows, Known
<1> QED
  BY <1>3, <1>4

\* The entry is the only order of the trade.
LEMMA EntrySale ==
  ASSUME NEW x \in Orders, NEW d \in Databases, NEW e \in Databases, NEW o \in Ids, NEW c \in Seen,
         e.rows = [d.rows EXCEPT ![o] = Row(c)], Known(d) \subseteq {o},
         d.rows[o].known => d.rows[o].open,
         x[o].side = "entry", e.trade.st = "open"
  PROVE  SaleOf(x, e)
<1>1. /\ e.rows[o] = Row(c) /\ \A p \in Ids : p # o => e.rows[p] = d.rows[p]
      /\ Row(c).known /\ (Row(c).open <=> c.status = "open") /\ Row(c).filled = c.filled /\ Row(c).filled \in Nat
      /\ Known(e) = {o}
  <2>1. /\ e.rows[o] = Row(c) /\ \A p \in Ids : p # o => e.rows[p] = d.rows[p]
        /\ Row(c).known /\ (Row(c).open <=> c.status = "open") /\ Row(c).filled = c.filled /\ Row(c).filled \in Nat
    BY RowValues DEF Databases
  <2>2. Known(e) = Known(d) \cup {o}
    BY RowJoins
  <2>3. Known(e) = {o}
    BY <2>2
  <2> QED
    BY <2>1, <2>3
<1>2. \A p \in Ids : d.rows[p].known => p = o /\ d.rows[p].open
  BY DEF Known
<1>3. NetIn(x, d) = 0
  BY <1>2, NetOfUndone
<1>4. Part(x, d, o) = 0
  BY DEF Part
<1>5. BoughtIn(x, e) => NetIn(x, e) > 0
  <2> SUFFICES ASSUME NEW p \in Ids, e.rows[p].known, ~ e.rows[p].open, x[p].side = "entry", e.rows[p].filled > 0
               PROVE  NetIn(x, e) > 0
    BY DEF BoughtIn
  <2>1. p = o
    BY <1>1 DEF Known
  <2>2. Part(x, e, o) = e.rows[o].filled /\ e.rows[o].filled \in Nat
    BY <1>1, <2>1 DEF Part, Sign
  <2>3. NetIn(x, e) + Part(x, d, o) = NetIn(x, d) + Part(x, e, o) /\ NetIn(x, e) \in Int
    BY NetChanges
  <2> QED
    BY <1>3, <1>4, <2>1, <2>2, <2>3
<1>6. \A p, q \in Waiting(x, e) : p = q
  BY <1>1 DEF Waiting, Known
<1> QED
  BY <1>1, <1>5, <1>6 DEF SaleOf

\* An entry that is open is the only order.
LEMMA OnlyEntry ==
  ASSUME NEW x, NEW d, Fits(x, d), Backed(x, d), SaleOf(x, d), NEW o \in OpenRows(d), x[o].side = "entry"
  PROVE  Known(d) = {o} /\ ~ BoughtIn(x, d) /\ d.trade.st = "open" /\ o \in Ids
<1>1. o \in Known(d) /\ o \in Ids /\ d.rows[o].open
  BY DEF OpenRows, Known
<1>2. ~ BoughtIn(x, d)
  <2> SUFFICES ASSUME NEW p \in Ids, d.rows[p].known, ~ d.rows[p].open, x[p].side = "entry" PROVE FALSE
    BY DEF BoughtIn
  <2>1. p \in Known(d)
    BY DEF Known
  <2>2. p = o
    BY <1>1, <2>1 DEF SaleOf
  <2> QED
    BY <1>1, <2>2
<1>3. \A p \in Known(d) : p = o
  <2> SUFFICES ASSUME NEW p \in Known(d) PROVE p = o
    OBVIOUS
  <2>1. x[p].side = "entry"
    BY <1>2, SoldWasBought
  <2> QED
    BY <1>1, <2>1 DEF SaleOf
<1>4. d.trade.st \in {"none", "open", "closed"}
  BY DEF Fits, Databases
<1>5. d.trade.st = "open"
  BY <1>1, <1>2, <1>4 DEF SaleOf
<1> QED
  BY <1>1, <1>2, <1>3, <1>5

\* What an answer about an order that was open, or about a new sale, leaves.
LEMMA StateSale ==
  ASSUME AnswersAreTrue, Crashes = 0, xo \in Orders, NEW d, Fits(xo, d), Backed(xo, d), SaleOf(xo, d),
         NEW o \in Ids, NEW c \in Seen,
         \/ o \in OpenRows(d)
         \/ /\ ~ d.rows[o].known /\ xo[o].side # "entry" /\ BoughtIn(xo, d)
            /\ xo[o].side = "stoploss" \/ Waiting(xo, d) = {}
  PROVE  SaleOf(xo, UpdateTradeState(d, o, c))
<1> DEFINE e == UpdateTradeState(d, o, c)
<1>1. /\ d \in Databases /\ e \in Databases /\ e.rows = [d.rows EXCEPT ![o] = Row(c)]
      /\ CanceledEmpty(c) \/ c.status = "open" => e.trade = d.trade
  BY UpdateStateFacts DEF Fits
<1>2. /\ e.rows[o] = Row(c) /\ \A p \in Ids : p # o => e.rows[p] = d.rows[p]
      /\ Row(c).known /\ (Row(c).open <=> c.status = "open") /\ Row(c).filled = c.filled
      /\ Row(c).filled \in Nat
  BY <1>1, RowValues DEF Databases
<1>3. Known(e) = Known(d) \cup {o}
  BY <1>1, RowJoins
<1>4. o \in OpenRows(d) => o \in Known(d) /\ d.rows[o].known /\ d.rows[o].open
  BY DEF OpenRows, Known
<1>5. ~ (CanceledEmpty(c) \/ c.status = "open") =>
        /\ c.status # "open" /\ c.filled > 0
        /\ e.trade.st = IF xo[o].side # "entry" /\ c.filled >= d.trade.amount THEN "closed" ELSE d.trade.st
  <2> SUFFICES ASSUME ~ (CanceledEmpty(c) \/ c.status = "open")
               PROVE  /\ c.status # "open" /\ c.filled > 0
                      /\ e.trade.st = IF xo[o].side # "entry" /\ c.filled >= d.trade.amount THEN "closed" ELSE d.trade.st
    OBVIOUS
  <2>1. c.status # "open" /\ c.filled > 0
    BY DEF CanceledEmpty, Seen
  <2>2. xo \in Orders /\ d \in Databases
    BY DEF Fits
  <2> QED
    BY <2>1, <2>2, StateOf
<1> HIDE DEF e
<1>6. CASE o \in OpenRows(d) /\ xo[o].side = "entry"
  <2>1. Known(d) = {o} /\ d.trade.st = "open"
    BY <1>6, OnlyEntry
  <2>2. e.trade.st = "open"
    BY <1>1, <1>5, <1>6, <2>1
  <2>3. SaleOf(xo, e)
    BY <1>1, <1>4, <1>6, <2>1, <2>2, EntrySale
  <2> QED
    BY <2>3 DEF e
<1>7. CASE xo[o].side # "entry"
  <2>1. BoughtIn(xo, d)
    BY <1>4, <1>7, SoldWasBought
  <2>2. d.rows[o].known => d.rows[o].open
    BY <1>4
  <2>3. BoughtIn(xo, e)
    <3>1. PICK p \in Ids : d.rows[p].known /\ ~ d.rows[p].open /\ xo[p].side = "entry" /\ d.rows[p].filled > 0
      BY <2>1 DEF BoughtIn
    <3>2. e.rows[p] = d.rows[p]
      BY <1>2, <2>2, <3>1
    <3> QED
      BY <3>1, <3>2 DEF BoughtIn
  <2>4. d.trade.st \in {"open", "closed"}
    <3>1. d.trade.st \in {"none", "open", "closed"}
      BY <1>1 DEF Databases
    <3>2. Known(d) # {}
      BY <2>1 DEF BoughtIn, Known
    <3> QED
      BY <3>1, <3>2 DEF SaleOf
  <2>5. /\ NetIn(xo, e) + Part(xo, d, o) = NetIn(xo, d) + Part(xo, e, o)
        /\ NetIn(xo, e) \in Int /\ NetIn(xo, d) \in Int
    BY <1>1, NetChanges
  <2>6. Part(xo, d, o) = 0
    BY <2>2 DEF Part
  <2>7. Part(xo, e, o) = IF c.status = "open" THEN 0 ELSE - c.filled
    <3>1. Sign(xo[o].side) = -1
      BY <1>7 DEF Sign
    <3>2. c.filled \in Nat
      BY DEF Seen
    <3>3. Part(xo, e, o) = IF c.status = "open" THEN 0 ELSE Sign(xo[o].side) * c.filled
      BY <1>2 DEF Part
    <3> QED
      BY <3>1, <3>2, <3>3
  <2>8. \A p, q \in Known(e) : xo[p].side = "entry" /\ xo[q].side = "entry" => p = q
    BY <1>3, <1>7 DEF SaleOf
  <2>9. \A p, q \in Waiting(xo, e) : p = q
    <3>1. \A p \in Waiting(xo, e) : p # o => p \in Waiting(xo, d)
      BY <1>2 DEF Waiting
    <3>2. CASE o \in OpenRows(d)
      <4>1. \A p \in Waiting(xo, e) : p \in Waiting(xo, d)
        BY <1>4, <3>1, <3>2 DEF Waiting
      <4> QED
        BY <4>1 DEF SaleOf
    <3>3. CASE xo[o].side = "stoploss"
      <4>1. \A p \in Waiting(xo, e) : p \in Waiting(xo, d)
        BY <3>1, <3>3 DEF Waiting
      <4> QED
        BY <4>1 DEF SaleOf
    <3>4. CASE Waiting(xo, d) = {}
      BY <3>1, <3>4
    <3> QED
      BY <3>2, <3>3, <3>4
  <2>10. /\ e.trade.st \in {"open", "closed"}
         /\ e.trade.st = "open" => NetIn(xo, e) > 0
         /\ e.trade.st = "closed" => NetIn(xo, e) <= 0
    <3>1. c.filled \in Nat
      BY DEF Seen
    <3>2. CASE CanceledEmpty(c) \/ c.status = "open"
      <4>1. NetIn(xo, e) = NetIn(xo, d)
        BY <2>5, <2>6, <2>7, <3>1, <3>2 DEF CanceledEmpty
      <4> QED
        BY <1>1, <2>1, <2>4, <3>2, <4>1 DEF SaleOf
    <3>3. CASE ~ (CanceledEmpty(c) \/ c.status = "open")
      <4>1. NetIn(xo, e) = NetIn(xo, d) - c.filled
        BY <1>5, <2>5, <2>6, <2>7, <3>1, <3>3
      <4>2. e.trade.st = IF c.filled >= d.trade.amount THEN "closed" ELSE d.trade.st
        BY <1>5, <1>7, <3>3
      <4>3. CASE d.trade.st = "closed"
        <5>1. NetIn(xo, d) <= 0
          BY <4>3 DEF SaleOf
        <5> QED
          BY <2>5, <3>1, <4>1, <4>2, <4>3, <5>1
      <4>4. CASE d.trade.st = "open"
        <5>1. NetIn(xo, d) > 0
          BY <2>1, <4>4 DEF SaleOf
        <5>2. d.trade.amount = NetIn(xo, d)
          BY <4>4, <5>1 DEF Fits, NetHeld
        <5> QED
          BY <2>5, <3>1, <4>1, <4>2, <4>4, <5>1, <5>2
      <4> QED
        BY <2>4, <4>3, <4>4
    <3> QED
      BY <3>2, <3>3
  <2>11. SaleOf(xo, e)
    BY <2>3, <2>8, <2>9, <2>10 DEF SaleOf
  <2> QED
    BY <2>11 DEF e
<1> QED
  BY <1>6, <1>7

\* No stoploss order is there for an entry that was open.
LEMMA NoStopsYet ==
  ASSUME NEW d, Fits(xo, d), Backed(xo, d), SaleOf(xo, d), NEW o \in OpenRows(d),
         NEW e, Known(e) \subseteq Known(d), NEW c
  PROVE  StopsAfterFill(e, o, c) = {}
<1>1. CASE xo[o].side # "entry"
  BY <1>1 DEF StopsAfterFill
<1>2. CASE xo[o].side = "entry"
  <2>1. Known(e) \subseteq {o}
    BY <1>2, OnlyEntry
  <2>2. \A p \in StopsAfterFill(e, o, c) : p \in Known(e) /\ xo[p].side = "stoploss"
    BY StopsAfterFillFacts
  <2> QED
    BY <1>2, <2>1, <2>2
<1> QED
  BY <1>1, <1>2

\* Once the entry has bought, it is done, and what is open sells.
LEMMA EntriesDone ==
  ASSUME NEW x, NEW d, SaleOf(x, d), BoughtIn(x, d)
  PROVE  /\ \A o \in OpenRows(d) : x[o].side # "entry"
         /\ Unseen(x, d, 0) =>
              \A o \in Ids : ~ d.rows[o].known \/ d.rows[o].open => x[o].side # "entry" \/ x[o].filled = 0
<1>1. PICK p \in Ids : d.rows[p].known /\ ~ d.rows[p].open /\ x[p].side = "entry"
  BY DEF BoughtIn
<1>2. \A o \in OpenRows(d) : x[o].side # "entry"
  <2> SUFFICES ASSUME NEW o \in OpenRows(d), x[o].side = "entry" PROVE FALSE
    OBVIOUS
  <2>1. o \in Known(d) /\ p \in Known(d) /\ d.rows[o].open
    BY <1>1 DEF OpenRows, Known
  <2>2. o = p
    BY <1>1, <2>1 DEF SaleOf
  <2> QED
    BY <1>1, <2>1, <2>2
<1>3. ASSUME Unseen(x, d, 0), NEW o \in Ids, ~ d.rows[o].known \/ d.rows[o].open
      PROVE  x[o].side # "entry" \/ x[o].filled = 0
  <2>1. CASE ~ d.rows[o].known
    <3>1. o # 0
      BY IdsFinite
    <3> QED
      BY <1>3, <2>1, <3>1 DEF Unseen
  <2>2. CASE d.rows[o].known /\ d.rows[o].open
    BY <1>2, <2>2 DEF OpenRows, Known
  <2> QED
    BY <1>3, <2>1, <2>2
<1> QED
  BY <1>2, <1>3

\* What a request to cancel does to an order, and what it answers.
LEMMA CancelResultsSale ==
  ASSUME OneSale, OrdersFit(xo), NEW o \in Ids, xo[o].status = "open", NEW r \in CancelResults(o)
  PROVE  /\ r.to \in AnOrder /\ r.to.side = xo[o].side /\ r.to.amount = xo[o].amount
         /\ xo[o].filled <= r.to.filled /\ r.to.filled <= r.to.amount
         /\ r.c.status # "open" /\ r.c.status = r.to.status /\ r.c.filled = r.to.filled
<1> DEFINE x == xo[o]
           as(status, filled) == [x EXCEPT !.status = status, !.filled = filled]
           result(z) == [to |-> z, c |-> [status |-> z.status, filled |-> z.filled]]
           fits(z) == /\ z \in AnOrder /\ z.side = x.side /\ z.amount = x.amount
                      /\ x.filled <= z.filled /\ z.filled <= z.amount /\ z.status # "open"
<1>1. "slow" \notin Answers /\ "forgotten" \notin Answers
  BY OneSaleFacts
<1>2. x \in AnOrder /\ x.amount \in Nat /\ x.filled \in Nat /\ x.filled < x.amount
  BY DEF OrdersFit, Orders, AnOrder
<1>3. \/ \E f \in x.filled .. x.amount - 1 : r = result(as("canceled", f))
      \/ r = result(as("closed", x.amount))
  BY <1>1 DEF CancelResults
<1>4. ASSUME NEW f \in Nat, x.filled <= f, f <= x.amount, NEW status \in {"canceled", "closed"}
      PROVE  fits(as(status, f))
  <2> HIDE DEF x
  <2> QED
    BY <1>2, <1>4 DEF AnOrder, Status
<1>5. ASSUME NEW z
      PROVE  result(z).to = z /\ result(z).c.status = z.status /\ result(z).c.filled = z.filled
  OBVIOUS
<1>6. \E z : fits(z) /\ r = result(z)
  <2>1. \A f \in x.filled .. x.amount - 1 : f \in Nat /\ x.filled <= f /\ f <= x.amount
    BY <1>2
  <2>2. x.filled <= x.amount /\ x.amount <= x.amount
    BY <1>2
  <2> HIDE DEF x, as, result, fits
  <2> QED
    BY <1>2, <1>3, <1>4, <2>1, <2>2
<1>7. PICK z : fits(z) /\ r = result(z)
  BY <1>6
<1>8. r.to = z /\ r.c.status = z.status /\ r.c.filled = z.filled
  <2> HIDE DEF fits, result, x
  <2> QED
    BY <1>5, <1>7
<1> QED
  BY <1>7, <1>8

\* Order o becomes what answer r says, and no other order changes.
Becomes(x, y, o, r) ==
  /\ Grows(x, y) /\ y[o].status = r.c.status /\ y[o].filled = r.c.filled
  /\ \A p \in Ids : p # o => y[p] = x[p]

With(x, o, r) == [x EXCEPT ![o] = r.to]

LEMMA ResultSale ==
  ASSUME OneSale, OrdersFit(xo), NEW o \in Ids, NEW r,
         \/ xo[o].status = "open" /\ r \in CancelResults(o)
         \/ r.to = xo[o] /\ r.c = Snap(o)
  PROVE  Becomes(xo, With(xo, o, r), o, r)
<1> DEFINE y == With(xo, o, r)
<1>1. xo \in Orders /\ \A p \in Ids : xo[p].filled <= xo[p].amount /\ xo[p].filled \in Nat
  BY DEF OrdersFit, Orders
<1>2. y[o] = r.to /\ \A p \in Ids : p # o => y[p] = xo[p]
  BY <1>1 DEF Orders, With
<1> HIDE DEF y
<1>3. CASE xo[o].status = "open" /\ r \in CancelResults(o)
  <2>1. /\ r.to \in AnOrder /\ r.to.side = xo[o].side /\ r.to.amount = xo[o].amount
        /\ xo[o].filled <= r.to.filled /\ r.to.filled <= r.to.amount
        /\ r.c.status = r.to.status /\ r.c.filled = r.to.filled
    BY <1>3, CancelResultsSale
  <2>2. y \in Orders
    BY <1>1, <2>1 DEF Orders, AnOrder, y, With
  <2>3. Grows(xo, y)
    BY <1>1, <1>2, <1>3, <2>1, <2>2 DEF Grows
  <2> QED
    BY <1>2, <2>1, <2>3 DEF Becomes, y
<1>4. CASE r.to = xo[o] /\ r.c = Snap(o)
  <2>1. y = xo
    BY <1>1, <1>4 DEF Orders, y, With
  <2>2. Grows(xo, y)
    BY <1>1, <2>1 DEF Grows
  <2> QED
    BY <1>2, <1>4, <2>1, <2>2 DEF Snap, Becomes, y
<1> QED
  BY <1>3, <1>4

\* The answer that handle_cancel_enter and handle_cancel_exit work with.
Answered(d, o, r) ==
  \/ CancelRequested(d, o, Snap(o)) /\ r \in CancelResults(o)
  \/ ~ CancelRequested(d, o, Snap(o)) /\ r.to = xo[o] /\ r.c = Snap(o)

LEMMA CancelCases ==
  ASSUME OneSale, OrdersFit(xo), NEW d, NEW o \in Ids, NEW replacing, NEW r, Answered(d, o, r)
  PROVE  LET h == HandleCancel(d, o, Snap(o), r.c, replacing)
         IN  \/ /\ h.d = d /\ h.commit = FALSE /\ h.ok = FALSE
                /\ r.to = xo[o] /\ r.c.status = "open" /\ xo[o].filled > 0
             \/ /\ h.d = EmptyDb /\ h.commit = TRUE /\ r.c.status # "open" /\ r.c.filled = 0
                /\ xo[o].side = "entry"
             \/ /\ h.d = UpdateTradeState(d, o, r.c) /\ h.commit = TRUE
                /\ r.c.status # "open"
<1> DEFINE s == Snap(o)
           c == r.c
           request == CancelRequested(d, o, s)
           entry == xo[o].side = "entry"
           kept    == [d |-> d, commit |-> FALSE, ok |-> FALSE]
           deleted == [d |-> EmptyDb, commit |-> TRUE, ok |-> TRUE]
           updated == [d |-> UpdateTradeState(d, o, c), commit |-> TRUE,
                       ok |-> IF entry THEN Unfilled(c) ELSE s.status = "open"]
           h == HandleCancel(d, o, s, c, replacing)
<1>1. s.status = xo[o].status /\ s.filled = xo[o].filled /\ xo[o].filled \in Nat
  BY DEF Snap, OrdersFit, Orders
<1>2. request => xo[o].status = "open" /\ c.status # "open"
  <2>1. request => xo[o].status = "open"
    BY <1>1 DEF CancelRequested
  <2> QED
    BY <2>1, CancelResultsSale DEF Answered
<1>3. ~ request => r.to = xo[o] /\ c = s
  BY DEF Answered
<1>4. s.status = "open" /\ ~ request => s.filled > 0
  BY <1>1 DEF CancelRequested
<1>5. \/ h = kept /\ s.status = "open" /\ ~ request
      \/ h = kept /\ request /\ c.status = "open"
      \/ h = deleted /\ entry /\ c.status # "open" /\ Unfilled(c)
      \/ h = updated /\ ~ (s.status = "open" /\ ~ request)
  BY DEF HandleCancel
<1>6. CASE h = kept /\ s.status = "open" /\ ~ request
  <2>1. h.d = d /\ h.commit = FALSE /\ h.ok = FALSE
    BY <1>6
  <2> HIDE DEF kept
  <2> QED
    BY <1>1, <1>3, <1>4, <1>6, <2>1
<1>7. CASE h = deleted /\ entry /\ c.status # "open" /\ Unfilled(c)
  <2>1. h.d = EmptyDb /\ h.commit = TRUE
    BY <1>7
  <2> HIDE DEF deleted
  <2> QED
    BY <1>7, <2>1 DEF Unfilled
<1>8. CASE h = updated /\ ~ (s.status = "open" /\ ~ request)
  <2>1. h.d = UpdateTradeState(d, o, c) /\ h.commit = TRUE
    BY <1>8
  <2>2. c.status # "open"
    BY <1>1, <1>2, <1>3, <1>8
  <2> HIDE DEF updated
  <2> QED
    BY <2>1, <2>2
<1> QED
  BY <1>2, <1>5, <1>6, <1>7, <1>8

LEMMA AnsweredFacts ==
  ASSUME SaleStands, NEW d, NEW o \in Ids, NEW r, Answered(d, o, r), xo' = With(xo, o, r)
  PROVE  /\ xo' \in Orders /\ OrdersFit(xo') /\ OrdersStep(xo, xo') /\ UsedIn(xo') = UsedIn(xo)
         /\ r.c \in Seen /\ Told(xo', o, r.c)
         /\ \A p \in Ids : xo'[p].side = xo[p].side
         /\ Becomes(xo, xo', o, r)
<1>1. CancelRequested(d, o, Snap(o)) => xo[o].status = "open"
  BY DEF CancelRequested, Snap
<1>2. \/ xo[o].status = "open" /\ r \in CancelResults(o)
      \/ r.to = xo[o] /\ r.c = Snap(o)
  BY <1>1 DEF Answered
<1>3. IInv /\ OneSale /\ OrdersFit(xo)
  BY StandsFacts DEF SaleStands
<1>4. Becomes(xo, With(xo, o, r), o, r)
  BY <1>2, <1>3, ResultSale
<1>5. /\ xo' \in Orders /\ OrdersFit(xo') /\ OrdersStep(xo, xo') /\ UsedIn(xo') = UsedIn(xo)
      /\ r.c \in Seen /\ Told(xo', o, r.c)
      /\ \A p \in Ids : xo'[p].side = xo[p].side
  <2>1. xo' = [xo EXCEPT ![o] = r.to]
    BY DEF With
  <2> QED
    BY <1>2, <1>3, <2>1, ResultFacts
<1> QED
  BY <1>4, <1>5 DEF With

\* What handle_cancel_enter and handle_cancel_exit leave of an open order and of
\* database d.
Cancelled(d, o, r, h) ==
  /\ FreeIn(xo') >= 0 /\ Unseen(xo', h.d, 0) /\ SaleOf(xo', h.d)
  /\ \/ h.d = d /\ h.commit = FALSE /\ h.ok = FALSE /\ xo' = xo /\ xo[o].filled > 0
     \/ h.d = EmptyDb /\ h.commit = TRUE /\ xo[o].side = "entry"
     \/ OpenRows(h.d) = OpenRows(d) \ {o} /\ Known(h.d) = Known(d)
  /\ StopsAfterFill(h.d, o, r.c) = {}

LEMMA EmptySale ==
  ASSUME NEW x
  PROVE  SaleOf(x, EmptyDb) /\ Waiting(x, EmptyDb) = {} /\ OpenRows(EmptyDb) = {}
<1>1. Known(EmptyDb) = {} /\ EmptyDb.trade.st = "none" /\ \A o \in Ids : ~ EmptyDb.rows[o].known
  BY EmptyFacts DEF Known
<1>2. Waiting(x, EmptyDb) = {} /\ OpenRows(EmptyDb) = {}
  BY <1>1 DEF Waiting, OpenRows
<1> QED
  BY <1>1, <1>2 DEF SaleOf

LEMMA CancelSale ==
  ASSUME SaleStands, NEW d, Fits(xo, d), Backed(xo, d), SaleOf(xo, d), Unseen(xo, d, 0),
         NEW o \in OpenRows(d), NEW r, Answered(d, o, r), xo' = With(xo, o, r), NEW replacing
  PROVE  Cancelled(d, o, r, HandleCancel(d, o, Snap(o), r.c, replacing))
<1> DEFINE h == HandleCancel(d, o, Snap(o), r.c, replacing)
<1>1. /\ OneSale /\ AnswersAreTrue /\ Crashes = 0 /\ OrdersFit(xo) /\ xo \in Orders
      /\ d \in Databases /\ FreeIn(xo) >= 0
  BY StandsFacts DEF SaleStands, DataSale, Fits
<1>2. o \in Ids /\ o \in Known(d) /\ d.rows[o].known
  BY DEF OpenRows, Known
<1>3. /\ xo' \in Orders /\ r.c \in Seen
      /\ \A p \in Ids : xo'[p].side = xo[p].side
      /\ Grows(xo, xo') /\ xo'[o].status = r.c.status /\ xo'[o].filled = r.c.filled
      /\ \A p \in Ids : p # o => xo'[p] = xo[p]
  <2>1. xo' \in Orders /\ r.c \in Seen /\ Becomes(xo, xo', o, r)
        /\ \A p \in Ids : xo'[p].side = xo[p].side
    BY <1>2, AnsweredFacts
  <2> QED
    BY <2>1 DEF Becomes
<1>4. FreeIn(xo') >= 0 /\ Unseen(xo', d, 0)
  <2>1. /\ FreeIn(xo) <= FreeIn(xo') /\ FreeIn(xo) \in Int /\ FreeIn(xo') \in Int
        /\ Unseen(xo', d, 0)
    BY <1>3, GrowsFacts
  <2> QED
    BY <1>1, <2>1
<1>5. \/ /\ h.d = d /\ h.commit = FALSE /\ h.ok = FALSE
         /\ r.to = xo[o] /\ r.c.status = "open" /\ xo[o].filled > 0
      \/ /\ h.d = EmptyDb /\ h.commit = TRUE /\ r.c.status # "open" /\ r.c.filled = 0
         /\ xo[o].side = "entry"
      \/ /\ h.d = UpdateTradeState(d, o, r.c)
         /\ r.c.status # "open"
  BY <1>1, <1>2, CancelCases
<1> HIDE DEF h
<1>6. CASE /\ h.d = d /\ h.commit = FALSE /\ h.ok = FALSE
           /\ r.to = xo[o] /\ r.c.status = "open" /\ xo[o].filled > 0
  <2>1. xo' = xo
    BY <1>1, <1>6 DEF Orders, With
  <2>2. StopsAfterFill(h.d, o, r.c) = {}
    BY <1>6 DEF StopsAfterFill
  <2>3. Cancelled(d, o, r, h)
    BY <1>4, <1>6, <2>1, <2>2 DEF Cancelled
  <2> QED
    BY <2>3 DEF h
<1>7. CASE /\ h.d = EmptyDb /\ h.commit = TRUE /\ r.c.status # "open" /\ r.c.filled = 0
           /\ xo[o].side = "entry"
  <2>1. Known(d) = {o}
    BY <1>7, OnlyEntry
  <2>2. Unseen(xo', h.d, 0)
    <3> SUFFICES ASSUME NEW p \in Ids PROVE xo'[p].status # "open" /\ xo'[p].filled = 0
      BY DEF Unseen
    <3>1. CASE p = o
      BY <1>3, <1>7, <3>1
    <3>2. CASE p # o
      <4>1. ~ d.rows[p].known /\ p # 0
        BY <2>1, <3>2, IdsFinite DEF Known
      <4> QED
        BY <1>4, <4>1 DEF Unseen
    <3> QED
      BY <3>1, <3>2
  <2>3. StopsAfterFill(h.d, o, r.c) = {}
    BY <1>7, StopsAfterFillFacts, EmptyFacts
  <2>4. SaleOf(xo', h.d)
    BY <1>7, EmptySale
  <2>5. Cancelled(d, o, r, h)
    BY <1>4, <1>7, <2>2, <2>3, <2>4 DEF Cancelled
  <2> QED
    BY <2>5 DEF h
<1>8. CASE h.d = UpdateTradeState(d, o, r.c) /\ r.c.status # "open"
  <2> DEFINE e == UpdateTradeState(d, o, r.c)
  <2>1. e \in Databases /\ e.rows = [d.rows EXCEPT ![o] = Row(r.c)]
    BY <1>1, <1>2, <1>3, UpdateStateFacts
  <2>2. SaleOf(xo, e)
    BY <1>1, <1>2, <1>3, StateSale
  <2> HIDE DEF e
  <2>3. SaleOf(xo', e)
    <3>1. \A p \in Ids : e.rows[p].known => xo'[p].side = xo[p].side
      BY <1>3
    <3> QED
      BY <1>1, <1>3, <2>1, <2>2, <3>1, SaleFrame, Zenon
  <2>4. Known(e) = Known(d) \cup {o} /\ OpenRows(e) = OpenRows(d) \ {o}
    BY <1>1, <1>2, <1>3, <1>8, <2>1, RowJoins
  <2>5. Known(e) = Known(d)
    BY <1>2, <2>4
  <2>6. Unseen(xo', e, 0)
    BY <1>4, <2>5 DEF Unseen, Known
  <2>7. StopsAfterFill(e, o, r.c) = {}
    BY <2>5, NoStopsYet
  <2>8. h.d = e
    BY <1>8 DEF e
  <2>9. Cancelled(d, o, r, h)
    BY <1>4, <2>3, <2>4, <2>5, <2>6, <2>7, <2>8 DEF Cancelled
  <2> QED
    BY <2>9 DEF h
<1> QED
  BY <1>5, <1>6, <1>7, <1>8

\* An order that was canceled with nothing filled is the same, updated once or
\* twice.
LEMMA CanceledTwice ==
  ASSUME xo \in Orders, NEW d \in Databases, NEW o \in OpenRows(d), NEW c \in Seen, CanceledEmpty(c),
         NEW replacing
  PROVE  HandleCancel(UpdateRow(d, o, c), o, c, c, replacing) = HandleCancel(d, o, c, c, replacing)
<1> DEFINE u == UpdateRow(d, o, c)
<1>1. o \in Ids /\ o \in Known(d) /\ d.rows[o].open
  BY DEF OpenRows, Known
<1>2. u \in Databases /\ u.rows = [d.rows EXCEPT ![o] = Row(c)] /\ u.trade = d.trade
  BY <1>1, UpdateRowFacts
<1>3. c.status # "open" /\ c.filled = 0
  BY DEF CanceledEmpty
<1>4. UpdateTradeState(u, o, c) = UpdateTradeState(d, o, c)
  <2> DEFINE v == UpdateRow(u, o, c)
  <2>1. v \in Databases /\ v.rows = [u.rows EXCEPT ![o] = Row(c)] /\ v.trade = u.trade
    BY <1>1, <1>2, UpdateRowFacts
  <2> HIDE DEF u, v
  <2>2. v.rows = u.rows
    <3>1. u.rows[o] = Row(c)
      BY <1>1, <1>2 DEF Databases
    <3>2. u.rows \in [Ids -> [known : BOOLEAN, open : BOOLEAN, status : Status \cup {"none"}, filled : Nat]]
      BY <1>2 DEF Databases
    <3> QED
      BY <1>1, <2>1, <3>1, <3>2
  <2>3. v = u
    BY <1>2, <2>1, <2>2 DEF Databases
  <2>4. UpdateRow(u, o, c) = UpdateRow(d, o, c)
    BY <2>3 DEF u, v
  <2> QED
    BY <2>4 DEF UpdateTradeState
<1> HIDE DEF u
<1>5. Known(u) = Known(d) \cup {o} /\ OpenRows(u) = OpenRows(d) \ {o}
  BY <1>1, <1>2, <1>3, RowJoins
<1>6. SuccessfulEntries(u) = SuccessfulEntries(d)
  <2>1. u.rows[o] = Row(c) /\ \A p \in Ids : p # o => u.rows[p] = d.rows[p]
    BY <1>1, <1>2 DEF Databases
  <2>2. Row(c).filled = 0 /\ Row(c).known /\ ~ Row(c).open
    BY <1>3, RowValues
  <2>3. \A p \in Ids : /\ u.rows[p].known <=> d.rows[p].known
                       /\ ~ u.rows[p].open /\ u.rows[p].filled > 0 <=> ~ d.rows[p].open /\ d.rows[p].filled > 0
    BY <1>1, <2>1, <2>2 DEF Known
  <2> QED
    BY <2>3 DEF SuccessfulEntries, Known
<1>7. Deletable(u, o, replacing) <=> Deletable(d, o, replacing)
  BY <1>5, <1>6 DEF Deletable
<1>8. ~ CancelRequested(u, o, c) /\ ~ CancelRequested(d, o, c)
  BY <1>3 DEF CancelRequested
<1>9. HandleCancel(u, o, c, c, replacing) = HandleCancel(d, o, c, c, replacing)
  BY <1>3, <1>4, <1>7, <1>8, Zenon DEF HandleCancel
<1> QED
  BY <1>9 DEF u

(***************************************************************************)
(* Steps that leave the data alone.                                        *)
(***************************************************************************)

LEMMA BusyFacts ==
  ASSUME SaleStands, ~ Quiet
  PROVE  todo = {} /\ pc # "stops"
  BY StandsFacts DEF HandlerSale

LEMMA QuietFacts ==
  ASSUME Quiet
  PROVE  /\ cancels = {} /\ refind = {} /\ sent = NotSent /\ sent.id = 0
         /\ job = NoJob /\ job.kind = "none" /\ ~ job.ready /\ ~ job.refinding
         /\ job.kind \notin ExitKinds /\ job.kind \notin EntryKinds
  BY JobFacts DEF Quiet, NotSent, ExitKinds, EntryKinds

LEMMA NoJobFacts ==
  /\ NoJob.kind = "none" /\ ~ NoJob.refinding /\ NoJob.kind \notin ExitKinds \cup EntryKinds
  /\ NotSent.id = 0
  BY JobFacts DEF ExitKinds, EntryKinds, NotSent

LEMMA SameDataSale ==
  ASSUME SaleStands, UNCHANGED <<xo, db, stored, sent>>, HandlerSale'
  PROVE  SaleInv'
<1>1. DataSale'
  BY StandsFacts DEF DataSale
<1> QED
  BY <1>1 DEF SaleInv

LEMMA HandlerOver ==
  ASSUME job' = NoJob, cancels' = {}, refind' = {}, todo' = {}, sent' = NotSent, pc' # "recover"
  PROVE  HandlerSale'
<1>1. job'.kind = "none" /\ ~ job'.refinding /\ job'.kind \notin ExitKinds \cup EntryKinds
  BY NoJobFacts
<1>2. ExitFits(xo', db', job', cancels')
  BY <1>1 DEF ExitFits
<1>3. Quiet'
  BY DEF Quiet
<1> QED
  BY <1>1, <1>2, <1>3 DEF HandlerSale

\* The handler is over, and the session is what it was or is dropped.
LEMMA SaleEnds ==
  ASSUME SaleStands, UNCHANGED xo,
         db' = db \/ (db' = stored /\ Known(db) = Known(stored)), stored' = stored \/ stored' = db,
         Unseen(xo, db, 0), cancels' = {}, job' = NoJob, sent' = NotSent, refind' = {}, todo' = {},
         pc' # "recover"
  PROVE  SaleInv'
<1>1. Unseen(xo, db', 0)
  BY DEF Unseen, Known
<1>2. DataSale'
  BY <1>1, StandsFacts, NoJobFacts DEF DataSale
<1> QED
  BY <1>2, HandlerOver DEF SaleInv

LEMMA NothingSent ==
  ASSUME SaleStands, sent = NotSent
  PROVE  Unseen(xo, db, 0)
  BY StandsFacts, NoJobFacts DEF DataSale

LEMMA JobEndsSale ==
  ASSUME SaleStands, JobFails \/ JobEnds
  PROVE  /\ job' = NoJob /\ stored' = stored
         /\ db' = db \/ (db' = stored /\ Known(db) = Known(stored))
<1>1. job' = NoJob /\ stored' = stored
  BY StandsFacts, JobEndsBacked
<1>2. job.kind \notin {"reentry", "reexit"}
  BY DEF SaleStands, BackedInv, HandlerBacked
<1>3. CASE JobEnds
  BY <1>1, <1>2, <1>3 DEF JobEnds
<1>4. CASE JobFails /\ ~ (holder = "rpc" /\ job.kind # "emergency")
  BY <1>3, <1>4 DEF JobFails
<1>5. CASE JobFails /\ holder = "rpc" /\ job.kind # "emergency"
  <2>1. db' = stored
    BY <1>5 DEF JobFails, Save
  <2>2. Known(db) = Known(stored)
    BY <1>5 DEF SaleStands, IInv, CommittedInv
  <2> QED
    BY <1>1, <2>1, <2>2
<1> QED
  BY <1>3, <1>4, <1>5

LEMMA RowsKnown ==
  ASSUME NEW d
  PROVE  /\ OpenRows(d) \subseteq Known(d) /\ Known(d) \subseteq Ids
         /\ OpenOrders(d) \subseteq OpenRows(d) /\ OpenStops(d) \subseteq OpenRows(d)
         /\ OpenOrders(d) = Waiting(xo, d)
         /\ \A o \in OpenStops(d) : xo[o].side = "stoploss"
  BY DEF OpenRows, Known, OpenOrders, OpenStops, Waiting

LEMMA JobRefusedSale ==
  ASSUME SaleStands, JobRefused PROVE SaleInv'
<1>1. /\ job.kind \in ExitKinds /\ ~ job.ready /\ cancels' = {} /\ JobFails
      /\ UNCHANGED <<xo, loop, sent, refind>>
  BY DEF JobRefused
<1>2. ~ Quiet
  BY <1>1, QuietFacts
<1>3. refind = {} /\ sent = NotSent
  BY <1>1 DEF SaleStands, IInv, JobInv, SentInv
<1> QED
  BY <1>1, <1>2, <1>3, BusyFacts, NothingSent, JobEndsSale, SaleEnds, StandsFacts DEF loop, HandlerSale

LEMMA JobDroppedSale ==
  ASSUME SaleStands, JobDropped PROVE SaleInv'
<1>1. /\ job.kind \in ExitKinds \cup EntryKinds /\ ~ job.ready /\ cancels' = {} /\ (JobFails \/ JobEnds)
      /\ UNCHANGED <<xo, loop, sent, refind>>
  BY DEF JobDropped
<1>2. ~ Quiet
  BY <1>1, QuietFacts
<1>3. refind = {} /\ sent = NotSent
  BY <1>1 DEF SaleStands, IInv, JobInv, SentInv
<1> QED
  BY <1>1, <1>2, <1>3, BusyFacts, NothingSent, JobEndsSale, SaleEnds, StandsFacts DEF loop, HandlerSale

LEMMA RefindDoneSale ==
  ASSUME SaleStands, RefindDone PROVE SaleInv'
<1>1. /\ job.refinding /\ refind' = {} /\ cancels' = {} /\ JobEnds
      /\ UNCHANGED <<xo, loop, sent>>
  BY DEF RefindDone
<1>2. ~ Quiet
  BY <1>1, QuietFacts
<1>3. sent = NotSent
  BY <1>1 DEF SaleStands, IInv, SentInv
<1> QED
  BY <1>1, <1>2, <1>3, BusyFacts, NothingSent, JobEndsSale, SaleEnds, StandsFacts DEF loop, HandlerSale

LEMMA CancelErrorSale ==
  ASSUME SaleStands, CancelError PROVE SaleInv'
<1>1. /\ cancels # {} /\ cancels' = {} /\ JobFails /\ ~ job.refinding
      /\ UNCHANGED <<xo, sent, refind>>
  BY DEF CancelError
<1>2. /\ todo' = {} \/ todo' = todo
      /\ pc' \in {pc, "toManage", AfterExits}
  BY DEF CancelError, IterationAborted
<1>3. ~ Quiet /\ todo = {}
  BY <1>1, QuietFacts, BusyFacts
<1>4. refind = {} /\ sent = NotSent
  BY <1>1 DEF SaleStands, IInv, JobInv, SentInv
<1>5. pc' # "recover"
  BY <1>2, StandsFacts DEF HandlerSale, AfterExits
<1> QED
  BY <1>1, <1>2, <1>3, <1>4, <1>5, NothingSent, JobEndsSale, SaleEnds

LEMMA RpcVisitFailsSale ==
  ASSUME SaleStands, RpcVisitFails PROVE SaleInv'
<1>1. /\ Quiet /\ holder = "rpc" /\ todo' = {} /\ db' = stored /\ stored' = stored
      /\ UNCHANGED <<xo, pc, handler>>
  BY DEF RpcVisitFails, Save
<1>2. Known(db) = Known(stored)
  BY <1>1 DEF SaleStands, IInv, CommittedInv
<1> QED
  BY <1>1, <1>2, QuietFacts, NothingSent, SaleEnds, StandsFacts DEF handler, HandlerSale

LEMMA ReleaseSale ==
  ASSUME SaleStands, Release PROVE SaleInv'
<1>1. /\ Quiet /\ todo' = {} /\ UNCHANGED <<xo, db, pc, handler>>
      /\ stored' = stored \/ stored' = db
  BY DEF Release, SectionCommit
<1> QED
  BY <1>1, QuietFacts, NothingSent, SaleEnds, StandsFacts DEF handler, HandlerSale

LEMMA StutterSale ==
  ASSUME SaleStands, UNCHANGED vars PROVE SaleInv'
<1>1. UNCHANGED <<xo, db, stored, pc, holder, todo, cancels, job, sent, refind>>
  BY DEF vars, loop, handler
<1>2. HandlerSale'
  BY <1>1, StandsFacts DEF HandlerSale, Quiet
<1> QED
  BY <1>1, <1>2, SameDataSale

LEMMA HandlerSaleIs ==
  ASSUME SaleStands
  PROVE  /\ job.kind # "delete" /\ pc # "recover"
         /\ cancels \subseteq OpenRows(db) /\ refind \subseteq OpenRows(db) /\ todo \subseteq OpenRows(db)
         /\ job.refinding => cancels = {}
         /\ job.kind \in EntryKinds => db.trade.st = "none"
         /\ ExitFits(xo, db, job, cancels)
         /\ todo # {} => Quiet /\ (pc \in {"manage", "stops"} \/ holder = "rpc")
         /\ pc = "stops" => Quiet
         /\ pc # "stops" => todo \subseteq Waiting(xo, db)
         /\ holder = "free" => todo = {}
  BY StandsFacts DEF HandlerSale

LEMMA StopDroppedSale ==
  ASSUME SaleStands, StopDropped PROVE SaleInv'
<1>1. /\ job.kind = "stoploss" /\ ~ job.refinding /\ cancels = {} /\ job' = NoJob
      /\ UNCHANGED <<xo, db, stored, loop, cancels, sent, refind>>
  BY DEF StopDropped
<1>2. sent = NotSent /\ refind = {}
  <2>1. ~ Open(db)
    BY DEF StopDropped
  <2> QED
    BY <1>1, <2>1 DEF SaleStands, IInv, JobInv, SentInv
<1>3. todo = {}
  BY <1>1, QuietFacts, BusyFacts
<1> QED
  BY <1>1, <1>2, <1>3, NothingSent, SaleEnds, HandlerSaleIs DEF loop

\* A handler that was idle sets out to cancel some orders.
LEMMA SetsOut ==
  ASSUME SaleStands, Quiet, UNCHANGED <<xo, db, stored, sent, refind>>, todo' = {}, pc' \notin {"recover", "stops"},
         cancels' \subseteq OpenRows(db), job'.kind # "delete", ~ job'.refinding,
         job'.kind \in EntryKinds => db.trade.st = "none",
         job'.kind \in ExitKinds => (~ job'.ready /\ job'.want = 0) \/ Waiting(xo, db) = {}
  PROVE  SaleInv'
<1>1. refind = {} /\ sent = NotSent
  BY QuietFacts
<1>2. ExitFits(xo', db', job', cancels')
  BY DEF ExitFits
<1>3. HandlerSale'
  BY <1>1, <1>2 DEF HandlerSale
<1> QED
  BY <1>3, SameDataSale

LEMMA RpcForceExitSale ==
  ASSUME SaleStands, RpcForceExit PROVE SaleInv'
<1>1. /\ holder = "free" /\ pc \in Sections /\ job' = Job("force", 0) /\ cancels' = OpenOrders(db)
      /\ UNCHANGED <<xo, db, stored, pc, todo, sent, refind>>
  BY DEF RpcForceExit, Command
<1>2. Quiet /\ todo = {}
  BY <1>1, HandlerSaleIs DEF SaleStands, IInv, JobInv
<1>3. job'.kind = "force" /\ ~ job'.refinding
  BY <1>1, JobFacts DEF Kinds
<1> QED
  BY <1>1, <1>2, <1>3, SetsOut, RowsKnown DEF Sections, EntryKinds, ExitKinds

LEMMA ForceExitGoesOnSale ==
  ASSUME SaleStands, ForceExitGoesOn PROVE SaleInv'
<1>1. /\ job.kind = "force" /\ cancels = {} /\ UNCHANGED <<xo, db, stored, loop, sent, refind>>
  BY DEF ForceExitGoesOn
<1>2. todo = {} /\ pc # "stops" /\ pc # "recover"
  BY <1>1, QuietFacts, BusyFacts, HandlerSaleIs
<1>3. sent = NotSent /\ refind = {}
  BY <1>1 DEF SaleStands, IInv, JobInv, SentInv, ExitKinds, EntryKinds
<1>4. CASE job' = NoJob /\ UNCHANGED cancels
  BY <1>1, <1>2, <1>3, <1>4, NothingSent, SaleEnds DEF loop
<1>5. CASE OpenOrders(db) = {} /\ (\E k \in {0} \cup 1 .. db.trade.amount - 1 : job' = Job("exit", k))
           /\ cancels' = StopsToCancel(db)
  <2>1. PICK k \in {0} \cup 1 .. db.trade.amount - 1 : job' = Job("exit", k)
    BY <1>5
  <2>2. k \in Nat
    BY StandsFacts DEF Databases
  <2>3. job'.kind = "exit" /\ ~ job'.refinding
    BY <2>1, <2>2, JobFacts DEF Kinds, ExitKinds
  <2>4. cancels' \subseteq OpenRows(db) /\ Waiting(xo, db) = {}
    BY <1>5, RowsKnown DEF StopsToCancel
  <2>5. ExitFits(xo', db', job', cancels')
    BY <1>1, <2>4 DEF ExitFits
  <2>6. HandlerSale'
    BY <1>1, <1>2, <1>3, <2>3, <2>4, <2>5 DEF HandlerSale, loop, EntryKinds
  <2> QED
    BY <1>1, <2>6, SameDataSale
<1> QED
  BY <1>4, <1>5 DEF ForceExitGoesOn

LEMMA ExitSignalSale ==
  ASSUME SaleStands, ExitSignal PROVE SaleInv'
<1>1. /\ holder = "main" /\ pc = "signal" /\ Quiet /\ pc' = AfterExits
      /\ UNCHANGED <<xo, db, stored, holder, todo, sent, refind>>
  BY DEF ExitSignal
<1>2. todo = {} /\ pc' \notin {"recover", "stops"}
  BY <1>1, HandlerSaleIs DEF AfterExits
<1>3. CASE UNCHANGED <<job, cancels>>
  BY <1>1, <1>2, <1>3, SetsOut, QuietFacts
<1>4. CASE job' = Job("exit", 0) /\ cancels' = StopsToCancel(db)
  <2>1. job'.kind = "exit" /\ ~ job'.refinding /\ ~ job'.ready /\ job'.want = 0
    BY <1>4, JobFacts DEF Kinds, ExitKinds
  <2> QED
    BY <1>1, <1>2, <1>4, <2>1, SetsOut, RowsKnown DEF StopsToCancel, EntryKinds
<1> QED
  BY <1>3, <1>4 DEF ExitSignal

LEMMA StopDecidedSale ==
  ASSUME SaleStands, StopDecided PROVE SaleInv'
<1>1. /\ Quiet /\ todo = {} /\ pc' = "signal"
      /\ UNCHANGED <<xo, db, stored, holder, todo, sent, refind>>
  BY DEF StopDecided
<1> DEFINE stop == [Job("stoploss", 0) EXCEPT !.ready = TRUE]
<1>2. \/ UNCHANGED <<job, cancels>>
      \/ job' = stop /\ UNCHANGED cancels
      \/ job' = stop /\ cancels' = OpenStops(db)
  BY DEF StopDecided
<1>3. stop.kind = "stoploss" /\ ~ stop.refinding
  <2>1. Job("stoploss", 0) \in Jobs /\ Job("stoploss", 0).kind = "stoploss" /\ ~ Job("stoploss", 0).refinding
    BY JobFacts DEF Kinds
  <2> QED
    BY <2>1 DEF Jobs
<1> HIDE DEF stop
<1>4. cancels = {} /\ job.kind = "none" /\ ~ job.refinding
  BY <1>1, QuietFacts
<1>5. cancels' \subseteq OpenRows(db) /\ job'.kind \in {"none", "stoploss"} /\ ~ job'.refinding
  BY <1>2, <1>3, <1>4, RowsKnown
<1> QED
  BY <1>1, <1>5, SetsOut DEF EntryKinds, ExitKinds

LEMMA EnterTradeSale ==
  ASSUME SaleStands, EnterTrade PROVE SaleInv'
<1>1. /\ holder = "main" /\ pc = "enter" /\ Quiet /\ pc' = "toManage"
      /\ UNCHANGED <<xo, db, stored, holder, todo, cancels, sent, refind>>
  BY DEF EnterTrade
<1>2. todo = {} /\ cancels = {}
  BY <1>1, HandlerSaleIs, QuietFacts
<1>3. CASE UNCHANGED job
  BY <1>1, <1>2, <1>3, SetsOut, QuietFacts
<1>4. CASE db.trade.st = "none" /\ job' = Job("entry", EntryAmount)
  <2>1. job'.kind = "entry" /\ ~ job'.refinding
    BY <1>4, JobFacts, TradeOrdersAssumption DEF Kinds, EntryKinds
  <2> QED
    BY <1>1, <1>2, <1>4, <2>1, SetsOut DEF ExitKinds
<1> QED
  BY <1>3, <1>4 DEF EnterTrade

\* A section begins or ends, or one of its orders is left as it is.
LEMMA SectionSale ==
  ASSUME SaleStands, Quiet, UNCHANGED <<xo, db, stored, handler>>,
         pc' # "recover", todo' \subseteq OpenRows(db),
         pc' # "stops" => todo' \subseteq Waiting(xo, db),
         todo' # {} => (pc' \in {"manage", "stops"} \/ holder' = "rpc") /\ holder' # "free"
  PROVE  SaleInv'
<1>1. Quiet' /\ UNCHANGED <<cancels, job, sent, refind>>
  BY DEF Quiet, handler
<1>2. HandlerSale'
  BY <1>1, HandlerSaleIs, QuietFacts DEF HandlerSale
<1> QED
  BY <1>1, <1>2, SameDataSale

LEMMA AbortIterationSale ==
  ASSUME SaleStands, AbortIteration PROVE SaleInv'
<1>1. Quiet /\ UNCHANGED <<xo, db, stored, handler>> /\ pc' = "toManage" /\ todo' = {}
  BY DEF AbortIteration, IterationAborted
<1> QED
  BY <1>1, SectionSale

LEMMA ManageDoneSale ==
  ASSUME SaleStands, ManageDone PROVE SaleInv'
<1>1. Quiet /\ UNCHANGED <<xo, db, stored, handler>> /\ pc' = "toExits" /\ todo' = {}
  BY DEF ManageDone
<1> QED
  BY <1>1, SectionSale

LEMMA StartupDoneSale ==
  ASSUME SaleStands, StartupDone PROVE SaleInv'
<1>1. Quiet /\ UNCHANGED <<xo, db, stored, handler>> /\ pc' = "toManage" /\ todo' = {}
  BY DEF StartupDone
<1> QED
  BY <1>1, SectionSale

LEMMA StopNotFetchedSale ==
  ASSUME SaleStands, NEW o \in Ids, StopNotFetched(o) PROVE SaleInv'
<1>1. /\ Quiet /\ UNCHANGED <<xo, db, stored, holder, handler>> /\ holder = "main" /\ pc = "stops"
      /\ (todo' = todo \ {o} /\ pc' = pc) \/ (pc' = AfterExits /\ todo' = {})
  BY DEF StopNotFetched
<1> QED
  BY <1>1, SectionSale, HandlerSaleIs DEF AfterExits

LEMMA ManageSkipSale ==
  ASSUME SaleStands, NEW o \in Ids, ManageSkip(o) PROVE SaleInv'
<1>1. /\ Quiet /\ UNCHANGED <<xo, db, stored, holder, pc, handler>> /\ holder = "main" /\ pc = "manage"
      /\ todo' = todo \ {o}
  BY DEF ManageSkip, Managing, handler
<1> QED
  BY <1>1, SectionSale, HandlerSaleIs

LEMMA RpcCancelOpenOrderSale ==
  ASSUME SaleStands, RpcCancelOpenOrder PROVE SaleInv'
<1>1. /\ UNCHANGED <<xo, db, stored, pc, handler>> /\ holder = "free" /\ pc \in Sections
      /\ holder' = "rpc" /\ todo' = OpenOrders(db)
  BY DEF RpcCancelOpenOrder
<1>2. Quiet
  BY <1>1 DEF SaleStands, IInv, JobInv
<1> QED
  BY <1>1, <1>2, SectionSale, RowsKnown DEF Sections

LEMMA StartSale ==
  ASSUME SaleStands, Start PROVE SaleInv'
<1>1. /\ UNCHANGED <<xo, db, stored, handler>> /\ pc = "down" /\ pc' = "startup" /\ holder' = "main"
      /\ todo' = OpenRows(db)
  BY DEF Start
<1>2. OpenRows(db) = {}
  BY <1>1, EmptySale DEF SaleStands, NonEmptyInv
<1>3. HandlerSale'
  BY <1>1, <1>2, StandsFacts DEF HandlerSale, handler
<1> QED
  BY <1>1, <1>3, SameDataSale DEF handler

LEMMA AcquireSale ==
  ASSUME SaleStands, Acquire PROVE SaleInv'
<1>1. UNCHANGED <<xo, db, stored, handler>> /\ holder = "free" /\ holder' = "main" /\ pc \in Sections
  BY DEF Acquire
<1>2. Quiet
  BY <1>1 DEF SaleStands, IInv, JobInv
<1>3. ~ (Open(db) /\ CoinsMissing)
  <2> SUFFICES ASSUME Open(db), CoinsMissing PROVE FALSE
    OBVIOUS
  <2>1. OpenRows(db) = {} /\ SuccessfulEntries(db) # {} /\ Owned < db.trade.amount
    BY DEF CoinsMissing
  <2>2. BoughtIn(xo, db)
    BY <2>1, SuccessfulIsBought
  <2>3. NetIn(xo, db) > 0
    BY <2>2, StandsFacts DEF DataSale, SaleOf, Open
  <2>4. FinalIn(xo, db) /\ NetHeld(xo, db)
    BY StandsFacts DEF Fits
  <2>5. db.trade.amount = NetIn(xo, db)
    BY <2>3, <2>4 DEF NetHeld, Open
  <2>6. Unseen(xo, db, 0)
    BY <1>2, QuietFacts, NothingSent
  <2>7. Known(db) \subseteq Used /\ Used \subseteq Ids
    BY StandsFacts DEF Known, Used, Fits
  <2>8. Traded(Used) = NetIn(xo, db)
    BY <2>1, <2>4, <2>6, <2>7, StandsFacts, TradedOfDone
  <2>9. Owned = NetIn(xo, db) /\ NetIn(xo, db) \in Int
    BY <2>8, StandsFacts, OneSaleFacts, OwnedIs, NetIsInt DEF SaleStands
  <2> QED
    BY <2>1, <2>5, <2>9
<1>4. \/ pc' = "manage" /\ todo' \subseteq OpenOrders(db)
      \/ pc' = "stops" /\ todo' = OpenStops(db)
      \/ pc' \in {"signal", AfterExits, "adjust", "enter"} /\ todo' = {}
  BY <1>1, <1>3 DEF Acquire, ToTrade, Sections
<1> QED
  BY <1>1, <1>2, <1>4, SectionSale, RowsKnown DEF AfterExits

(***************************************************************************)
(* Steps that look at an order.                                            *)
(***************************************************************************)

\* What an answer about an open order leaves in the database.
Applied(o, c) ==
  /\ FreeIn(xo') >= 0 /\ Unseen(xo', db', sent.id) /\ SaleOf(xo', db') /\ SaleOf(xo', stored')
  /\ Known(db') = Known(db)
  /\ OpenRows(db') = IF c.status = "open" THEN OpenRows(db) \cup {o} ELSE OpenRows(db) \ {o}
  /\ Waiting(xo', db') \subseteq Waiting(xo, db)
  /\ xo[o].side # "entry" => NetIn(xo', db') <= NetIn(xo, db)
  /\ StopsAfterFill(db', o, c) = {}

LEMMA ApplySale ==
  ASSUME SaleStands, NEW o \in OpenRows(db), NEW c \in Seen, Apply(o, c), Grows(xo, xo')
  PROVE  Applied(o, c)
<1> DEFINE e == UpdateTradeState(db, o, c)
<1>1. /\ AnswersAreTrue /\ Crashes = 0 /\ xo \in Orders /\ xo' \in Orders /\ db \in Databases /\ stored \in Databases
      /\ Fits(xo, db) /\ Backed(xo, db) /\ DataSale
      /\ \A p \in Ids : xo'[p].side = xo[p].side
  BY StandsFacts DEF Grows
<1>2. o \in Ids /\ o \in Known(db) /\ db.rows[o].open
  BY DEF OpenRows, Known
<1>3. e \in Databases /\ e.rows = [db.rows EXCEPT ![o] = Row(c)]
  BY <1>1, <1>2, UpdateStateFacts
<1>4. SaleOf(xo, e)
  BY <1>1, <1>2, StateSale DEF DataSale
<1>5. db' = e /\ stored' = e
  BY DEF Apply, Save
<1> HIDE DEF e
<1>6. /\ Known(e) = Known(db)
      /\ OpenRows(e) = IF c.status = "open" THEN OpenRows(db) \cup {o} ELSE OpenRows(db) \ {o}
  <2>1. /\ Known(e) = Known(db) \cup {o}
        /\ OpenRows(e) = IF c.status = "open" THEN OpenRows(db) \cup {o} ELSE OpenRows(db) \ {o}
    BY <1>1, <1>2, <1>3, RowJoins
  <2> QED
    BY <1>2, <2>1
<1>7. /\ SaleOf(xo', e) /\ Waiting(xo', e) = Waiting(xo, e) /\ NetIn(xo', e) = NetIn(xo, e)
  <2>1. \A p \in Ids : e.rows[p].known => xo'[p].side = xo[p].side
    BY <1>1
  <2> QED
    BY <1>1, <1>3, <1>4, <2>1, SaleFrame
<1>8. SaleOf(xo', stored)
  <2>1. \A p \in Ids : stored.rows[p].known => xo'[p].side = xo[p].side
    BY <1>1
  <2> QED
    BY <1>1, <2>1, SaleFrame DEF DataSale
<1>9. FreeIn(xo') >= 0 /\ Unseen(xo', db, sent.id)
  <2>1. /\ FreeIn(xo) <= FreeIn(xo') /\ FreeIn(xo) \in Int /\ FreeIn(xo') \in Int
        /\ Unseen(xo', db, sent.id)
    BY <1>1, GrowsFacts DEF DataSale
  <2> QED
    BY <1>1, <2>1 DEF DataSale
<1>10. Unseen(xo', e, sent.id)
  BY <1>6, <1>9 DEF Unseen, Known
<1>11. Waiting(xo, e) \subseteq Waiting(xo, db)
  <2>1. \A p \in Waiting(xo, e) : p \in OpenRows(e) /\ xo[p].side # "stoploss"
    BY DEF Waiting, OpenRows, Known
  <2>2. OpenRows(e) \subseteq OpenRows(db)
    BY <1>6
  <2> QED
    BY <2>1, <2>2 DEF Waiting, OpenRows, Known
<1>12. xo[o].side # "entry" => NetIn(xo, e) <= NetIn(xo, db)
  <2> SUFFICES ASSUME xo[o].side # "entry" PROVE NetIn(xo, e) <= NetIn(xo, db)
    OBVIOUS
  <2>1. /\ NetIn(xo, e) + Part(xo, db, o) = NetIn(xo, db) + Part(xo, e, o)
        /\ NetIn(xo, e) \in Int /\ NetIn(xo, db) \in Int /\ Part(xo, e, o) \in Int
    BY <1>1, <1>2, <1>3, NetChanges
  <2>2. Part(xo, db, o) = 0
    BY <1>2 DEF Part
  <2>3. Part(xo, e, o) <= 0
    <3>1. Sign(xo[o].side) = -1 /\ e.rows[o].filled \in Nat
      BY <1>2, <1>3 DEF Sign, Databases
    <3> QED
      BY <3>1 DEF Part
  <2> QED
    BY <2>1, <2>2, <2>3
<1>13. StopsAfterFill(e, o, c) = {}
  BY <1>1, <1>6, NoStopsYet DEF DataSale
<1> QED
  BY <1>5, <1>6, <1>7, <1>8, <1>9, <1>10, <1>11, <1>12, <1>13 DEF Applied

LEMMA SnapGrows ==
  ASSUME OrdersFit(xo), UNCHANGED xo
  PROVE  Grows(xo, xo')
  BY DEF OrdersFit, Orders, Grows

LEMMA AppliedData ==
  ASSUME NEW o, NEW c, Applied(o, c), UNCHANGED sent
  PROVE  DataSale'
  BY DEF Applied, DataSale

LEMMA ManageUpdateSale ==
  ASSUME SaleStands, NEW o \in Ids, ManageUpdate(o) PROVE SaleInv'
<1>1. /\ Quiet /\ pc = "manage" /\ o \in todo /\ todo' = todo \ {o}
      /\ Apply(o, Snap(o)) /\ cancels' = StopsAfterFill(db', o, Snap(o))
      /\ UNCHANGED <<xo, job, pc, holder, sent, refind>>
  BY DEF ManageUpdate, Managing
<1>2. o \in OpenRows(db) /\ \A p \in todo : p = o
  BY <1>1, HandlerSaleIs, StandsFacts DEF DataSale, SaleOf
<1>3. Snap(o) \in Seen /\ OrdersFit(xo)
  BY SnapFacts, StandsFacts
<1>4. Applied(o, Snap(o))
  BY <1>1, <1>2, <1>3, ApplySale, SnapGrows
<1>5. cancels' = {} /\ todo' = {} /\ DataSale'
  BY <1>1, <1>2, <1>4, AppliedData DEF Applied
<1>6. HandlerSale'
  BY <1>1, <1>5, HandlerOver, QuietFacts
<1> QED
  BY <1>5, <1>6 DEF SaleInv

\* A done entry, fetched again, says what its row says.
LEMMA AssignFeesSale ==
  ASSUME SaleStands, AssignFees PROVE SaleInv'
<1>1. holder = "free" /\ pc = "toManage" /\ UNCHANGED <<xo, loop, handler>>
  BY DEF AssignFees
<1>2. Quiet /\ todo = {}
  BY <1>1, HandlerSaleIs DEF SaleStands, IInv, JobInv
<1>3. PICK o \in SuccessfulEntries(db) : Apply(o, Snap(o))
  BY DEF AssignFees, EntriesSettled
<1> DEFINE c == Snap(o)
           e == UpdateTradeState(db, o, c)
<1>4. /\ o \in Ids /\ o \in Known(db) /\ db.rows[o].known /\ ~ db.rows[o].open
      /\ xo[o].side = "entry" /\ db.rows[o].filled > 0
  BY <1>3 DEF SuccessfulEntries, Known
<1>5. /\ xo \in Orders /\ db \in Databases /\ OrdersFit(xo) /\ DataSale /\ SaleOf(xo, db)
      /\ xo[o].status # "open" /\ db.rows[o].filled = xo[o].filled
  BY <1>4, StandsFacts DEF Fits, FinalIn, DataSale
<1>6. c \in Seen /\ c.status # "open" /\ c.filled = db.rows[o].filled /\ c.filled > 0
  BY <1>4, <1>5, SnapFacts
<1>7. db' = e /\ stored' = e
  BY <1>3 DEF Apply, Save
<1> HIDE DEF c
<1>8. /\ e \in Databases /\ e.rows = [db.rows EXCEPT ![o] = Row(c)] /\ e.trade.st = db.trade.st
  BY <1>4, <1>5, <1>6, UpdateStateFacts, StateOf
<1> HIDE DEF e
<1>9. \A p \in Ids : /\ e.rows[p].known <=> db.rows[p].known
                     /\ e.rows[p].open <=> db.rows[p].open
                     /\ e.rows[p].filled = db.rows[p].filled
  <2>1. e.rows[o] = Row(c) /\ \A p \in Ids : p # o => e.rows[p] = db.rows[p]
    BY <1>4, <1>5, <1>8 DEF Databases
  <2> QED
    BY <1>4, <1>6, <2>1, RowValues
<1>10. SaleOf(xo, e)
  <2>1. Known(e) = Known(db) /\ Waiting(xo, e) = Waiting(xo, db)
    BY <1>9 DEF Known, Waiting
  <2>2. BoughtIn(xo, e) <=> BoughtIn(xo, db)
    BY <1>9 DEF BoughtIn
  <2>3. NetIn(xo, e) = NetIn(xo, db)
    <3>1. \A p \in Ids : Part(xo, e, p) = Part(xo, db, p)
      BY <1>9 DEF Part
    <3>2. /\ NetIn(xo, e) + Part(xo, db, o) = NetIn(xo, db) + Part(xo, e, o)
          /\ NetIn(xo, e) \in Int /\ NetIn(xo, db) \in Int
          /\ Part(xo, db, o) \in Int /\ Part(xo, e, o) \in Int
      BY <1>4, <1>5, <1>8, NetChanges
    <3>3. Part(xo, e, o) = Part(xo, db, o)
      BY <1>4, <3>1
    <3>4. \A i, j, k, l \in Int : i + j = k + l /\ l = j => i = k
      OBVIOUS
    <3> QED
      BY <3>2, <3>3, <3>4, Zenon
  <2> QED
    BY <1>5, <1>8, <2>1, <2>2, <2>3 DEF SaleOf
<1>11. Unseen(xo, e, sent.id)
  BY <1>5, <1>9 DEF DataSale, Unseen
<1>12. DataSale'
  BY <1>1, <1>5, <1>7, <1>10, <1>11 DEF DataSale, handler
<1>13. HandlerSale'
  BY <1>1, <1>2, HandlerOver, QuietFacts DEF loop, handler
<1> QED
  BY <1>12, <1>13 DEF SaleInv

LEMMA StopFetchedSale ==
  ASSUME SaleStands, NEW o \in Ids, StopFetched(o) PROVE SaleInv'
<1>1. /\ Quiet /\ pc = "stops" /\ holder = "main" /\ o \in todo /\ Apply(o, Snap(o))
      /\ (pc' = AfterExits /\ todo' = {}) \/ (pc' = pc /\ todo' = todo \ {o})
      /\ UNCHANGED <<xo, holder, handler>>
  BY DEF StopFetched
<1>2. o \in OpenRows(db) /\ todo \subseteq OpenRows(db)
  BY <1>1, HandlerSaleIs
<1>3. Snap(o) \in Seen /\ OrdersFit(xo)
  BY SnapFacts, StandsFacts
<1>4. Applied(o, Snap(o))
  BY <1>1, <1>2, <1>3, ApplySale, SnapGrows
<1>5. DataSale'
  BY <1>1, <1>4, AppliedData DEF handler
<1>6. todo' \subseteq OpenRows(db')
  BY <1>1, <1>2, <1>4 DEF Applied
<1>7. Quiet'
  BY <1>1 DEF Quiet, handler
<1>8. HandlerSale'
  <2>1. job'.kind = "none" /\ ~ job'.refinding /\ job'.kind \notin ExitKinds \cup EntryKinds
        /\ cancels' = {} /\ refind' = {} /\ sent' = NotSent
    BY <1>7, NoJobFacts DEF Quiet
  <2>2. ExitFits(xo', db', job', cancels')
    BY <2>1 DEF ExitFits
  <2>3. pc' # "recover" /\ (pc' # "stops" => todo' = {})
    BY <1>1 DEF AfterExits
  <2> QED
    BY <1>1, <1>6, <1>7, <2>1, <2>2, <2>3 DEF HandlerSale
<1> QED
  BY <1>5, <1>8 DEF SaleInv

LEMMA RefindSale ==
  ASSUME SaleStands, NEW o \in Ids, Refind(o) PROVE SaleInv'
<1>1. /\ o \in refind /\ cancels = {} /\ refind' = refind \ {o} /\ UNCHANGED <<xo, loop, job, sent>>
  BY DEF Refind
<1>2. o \in OpenRows(db) /\ refind \subseteq OpenRows(db)
  BY <1>1, HandlerSaleIs
<1>3. job.refinding /\ sent = NotSent
  BY <1>1 DEF SaleStands, IInv, JobInv, SentInv
<1>4. todo = {} /\ pc # "stops"
  BY <1>3, QuietFacts, BusyFacts
<1>5. job.kind \notin EntryKinds
  <2>1. db.trade.st # "none"
    BY <1>2, RowsKnown, StandsFacts DEF DataSale, SaleOf
  <2> QED
    BY <2>1, HandlerSaleIs
<1>6. DataSale' /\ cancels' = {} /\ refind' \subseteq OpenRows(db')
  <2>1. CASE Apply(o, Snap(o)) /\ cancels' = StopsAfterFill(db', o, Snap(o))
    <3>1. Snap(o) \in Seen /\ OrdersFit(xo)
      BY SnapFacts, StandsFacts
    <3>2. Applied(o, Snap(o))
      BY <1>1, <1>2, <2>1, <3>1, ApplySale, SnapGrows
    <3> QED
      BY <1>1, <1>2, <2>1, <3>2, AppliedData DEF Applied
  <2>2. CASE UNCHANGED <<db, stored, cancels>>
    BY <1>1, <1>2, <2>2, StandsFacts DEF DataSale
  <2> QED
    BY <2>1, <2>2 DEF Refind
<1>7. ExitFits(xo', db', job', cancels')
  BY <1>1, <1>3 DEF ExitFits
<1>8. HandlerSale'
  BY <1>1, <1>3, <1>4, <1>5, <1>6, <1>7, HandlerSaleIs DEF HandlerSale, loop
<1> QED
  BY <1>6, <1>8 DEF SaleInv

LEMMA CancelStopSale ==
  ASSUME SaleStands, NEW o \in Ids, CancelStop(o) PROVE SaleInv'
<1>1. /\ o \in cancels /\ xo[o].side = "stoploss" /\ cancels' = cancels \ {o}
      /\ UNCHANGED <<loop, job, sent, refind>>
  BY DEF CancelStop
<1>2. o \in OpenRows(db) /\ cancels \subseteq OpenRows(db)
  BY <1>1, HandlerSaleIs
<1>3. sent = NotSent /\ refind = {} /\ ~ job.refinding
  BY <1>1, HandlerSaleIs DEF SaleStands, IInv, JobInv, SentInv
<1>4. todo = {} /\ pc # "stops"
  BY <1>1, QuietFacts, BusyFacts
<1>5. job.kind \notin EntryKinds
  <2>1. db.trade.st # "none"
    BY <1>2, RowsKnown, StandsFacts DEF DataSale, SaleOf
  <2> QED
    BY <2>1, HandlerSaleIs
<1>6. CASE xo[o].status = "open"
  <2>1. PICK r \in CancelResults(o) : xo' = [xo EXCEPT ![o] = r.to] /\ Apply(o, r.c)
    BY <1>6 DEF CancelStop
  <2>2. OneSale /\ OrdersFit(xo) /\ Fits(xo, db) /\ xo' = With(xo, o, r)
    BY <2>1, StandsFacts DEF SaleStands, With
  <2>3. Becomes(xo, xo', o, r)
    BY <1>6, <2>2, ResultSale
  <2>4. r.c \in Seen /\ r.c.status # "open"
    <3>1. r.c.status # "open"
      BY <1>6, <2>2, CancelResultsSale
    <3>2. r.c \in Seen
      BY <1>6, <2>2, CancelResultsFacts
    <3> QED
      BY <3>1, <3>2
  <2>5. Grows(xo, xo') /\ \A p \in Ids : p # o => xo'[p] = xo[p]
    BY <2>3 DEF Becomes
  <2>6. Applied(o, r.c)
    BY <1>2, <2>1, <2>4, <2>5, ApplySale
  <2>7. cancels' \subseteq OpenRows(db')
    BY <1>1, <1>2, <2>4, <2>6 DEF Applied
  <2>8. ExitFits(xo', db', job', cancels')
    <3>1. Waiting(xo', db') \subseteq Waiting(xo, db) /\ NetIn(xo', db') <= NetIn(xo, db)
      BY <1>1, <2>6 DEF Applied
    <3>2. \A p \in Waiting(xo, db) : p \in Ids /\ p # o
      BY <1>1 DEF Waiting
    <3>3. \A p \in Waiting(xo, db) : (p \in cancels \/ xo[p].filled > 0) => (p \in cancels' \/ xo'[p].filled > 0)
      BY <1>1, <2>5, <3>2
    <3>4. NetIn(xo, db) \in Int /\ NetIn(xo', db') \in Int /\ job.want \in Nat
      <4>1. db' \in Databases /\ xo' \in Orders
        <5>1. db' = UpdateTradeState(db, o, r.c)
          BY <2>1 DEF Apply, Save
        <5> QED
          BY <2>4, <2>5, <5>1, StandsFacts, UpdateStateFacts DEF Grows
      <4> QED
        BY <4>1, NetIsInt, StandsFacts DEF SaleStands, IInv, TypeOK
    <3>5. job' = job
      BY <1>1
    <3>6. job.want >= NetIn(xo, db) => job.want >= NetIn(xo', db')
      BY <3>1, <3>4
    <3> QED
      BY <3>1, <3>3, <3>5, <3>6, HandlerSaleIs DEF ExitFits
  <2>9. HandlerSale'
    BY <1>1, <1>3, <1>4, <1>5, <2>7, <2>8, HandlerSaleIs DEF HandlerSale, loop
  <2> QED
    BY <1>1, <2>6, <2>9, AppliedData DEF SaleInv
<1>7. CASE xo[o].status # "open"
  <2>1. UNCHANGED <<xo, db, stored>>
    BY <1>7 DEF CancelStop
  <2>2. ExitFits(xo', db', job', cancels')
    <3>1. \A p \in Waiting(xo, db) : p # o
      BY <1>1 DEF Waiting
    <3> QED
      BY <1>1, <2>1, <3>1, HandlerSaleIs DEF ExitFits
  <2>3. HandlerSale'
    BY <1>1, <1>2, <1>3, <1>4, <1>5, <2>1, <2>2, HandlerSaleIs DEF HandlerSale, loop
  <2> QED
    BY <1>1, <2>1, <2>3, SameDataSale
<1> QED
  BY <1>6, <1>7

(***************************************************************************)
(* Steps of the exchange, and steps up to a new order.                     *)
(***************************************************************************)

LEMMA OrdersMoveSale ==
  ASSUME SaleStands, Grows(xo, xo'), UNCHANGED <<db, stored, loop, handler>>
  PROVE  SaleInv'
<1>1. /\ xo \in Orders /\ xo' \in Orders /\ db \in Databases /\ stored \in Databases /\ DataSale
      /\ \A p \in Ids : xo'[p].side = xo[p].side /\ xo[p].filled <= xo'[p].filled
      /\ \A p \in Ids : xo[p].filled \in Nat /\ xo'[p].filled \in Nat
  BY StandsFacts DEF Grows, Orders
<1>2. UNCHANGED <<db, stored, pc, holder, todo, live, cancels, job, sent, refind>>
  BY DEF loop, handler
<1>3. /\ SaleOf(xo', db) /\ Waiting(xo', db) = Waiting(xo, db) /\ NetIn(xo', db) = NetIn(xo, db)
      /\ SaleOf(xo', stored)
  <2>1. \A p \in Ids : /\ db.rows[p].known => xo'[p].side = xo[p].side
                       /\ stored.rows[p].known => xo'[p].side = xo[p].side
    BY <1>1
  <2> QED
    BY <1>1, <2>1, SaleFrame DEF DataSale
<1>4. FreeIn(xo') >= 0 /\ Unseen(xo', db, sent.id)
  <2>1. /\ FreeIn(xo) <= FreeIn(xo') /\ FreeIn(xo) \in Int /\ FreeIn(xo') \in Int
        /\ Unseen(xo', db, sent.id)
    BY <1>1, GrowsFacts DEF DataSale
  <2> QED
    BY <1>1, <2>1 DEF DataSale
<1>5. DataSale'
  BY <1>2, <1>3, <1>4 DEF DataSale
<1>6. ExitFits(xo', db', job', cancels')
  <2>1. \A p \in Waiting(xo, db) : p \in Ids
    BY DEF Waiting
  <2>2. \A p \in Waiting(xo, db) : (p \in cancels \/ xo[p].filled > 0) => (p \in cancels \/ xo'[p].filled > 0)
    BY <1>1, <2>1
  <2> QED
    BY <1>2, <1>3, <2>2, HandlerSaleIs DEF ExitFits
<1>7. sent # NotSent => sent.id \in Ids
  BY SentFacts DEF SaleStands
<1>8. /\ sent # NotSent /\ job.kind \in ExitKinds => Waiting(xo, db) = {}
      /\ sent # NotSent => xo[sent.id].side = Side(job.kind)
  BY StandsFacts DEF HandlerSale
<1>9. Quiet' <=> Quiet
  BY <1>2 DEF Quiet
<1>10. HandlerSale'
  BY <1>1, <1>2, <1>3, <1>6, <1>7, <1>8, <1>9, HandlerSaleIs DEF HandlerSale
<1> QED
  BY <1>5, <1>10 DEF SaleInv

LEMMA ExchangeSale ==
  ASSUME SaleStands, Exchange PROVE SaleInv'
<1>1. OrdersFit(xo) /\ xo \in Orders
  BY StandsFacts
<1>2. PICK o \in Ids : ExchangeFills(o) \/ ExchangeCancels(o)
  BY DEF Exchange
<1>3. /\ xo[o].status = "open" /\ UNCHANGED <<db, stored, loop, handler>>
      /\ xo[o].filled \in Nat /\ xo[o].amount \in Nat /\ xo[o].filled < xo[o].amount
  BY <1>1, <1>2 DEF ExchangeFills, ExchangeCancels, OrdersFit, Orders
<1>4. \A p \in Ids : xo[p].filled \in Nat /\ xo[p].amount \in Nat /\ xo[p].filled <= xo[p].amount
  BY <1>1 DEF OrdersFit, Orders
<1>5. CASE ExchangeFills(o)
  <2> DEFINE now == IF xo[o].filled + 1 = xo[o].amount THEN "closed" ELSE "open"
  <2>1. xo' = [xo EXCEPT ![o].filled = @ + 1, ![o].status = now]
    BY <1>5 DEF ExchangeFills
  <2>2. now \in Status
    BY DEF Status
  <2> HIDE DEF now
  <2>3. /\ xo' \in Orders /\ \A p \in Ids : p # o => xo'[p] = xo[p]
        /\ xo'[o].side = xo[o].side /\ xo'[o].amount = xo[o].amount /\ xo'[o].filled = xo[o].filled + 1
    <3> DEFINE x == xo[o]
               z == [x EXCEPT !.filled = x.filled + 1, !.status = now]
    <3>1. xo' = [xo EXCEPT ![o] = z]
      BY <2>1
    <3>2. x \in AnOrder /\ x.filled + 1 \in Nat
      BY <1>1, <1>3 DEF Orders, AnOrder
    <3>3. z = [x EXCEPT !.filled = x.filled + 1, !.status = now]
      OBVIOUS
    <3> HIDE DEF x, z
    <3>4. z \in AnOrder /\ z.side = x.side /\ z.amount = x.amount /\ z.filled = x.filled + 1
      BY <2>2, <3>2, <3>3 DEF AnOrder
    <3>5. xo' \in Orders /\ xo'[o] = z /\ \A p \in Ids : p # o => xo'[p] = xo[p]
      BY <1>1, <3>1, <3>4 DEF Orders, AnOrder
    <3> QED
      BY <3>4, <3>5 DEF x
  <2>4. Grows(xo, xo')
    BY <1>1, <1>3, <1>4, <2>3 DEF Grows
  <2> QED
    BY <1>3, <2>4, OrdersMoveSale
<1>6. CASE ExchangeCancels(o)
  <2>1. xo' = [xo EXCEPT ![o].status = "canceled"]
    BY <1>6 DEF ExchangeCancels
  <2>2. /\ xo' \in Orders /\ \A p \in Ids : p # o => xo'[p] = xo[p]
        /\ xo'[o].side = xo[o].side /\ xo'[o].amount = xo[o].amount /\ xo'[o].filled = xo[o].filled
    BY <1>1, <2>1 DEF Orders, Status
  <2>3. Grows(xo, xo')
    BY <1>1, <1>3, <1>4, <2>2 DEF Grows
  <2> QED
    BY <1>3, <2>3, OrdersMoveSale
<1> QED
  BY <1>2, <1>5, <1>6

\* All there is covers what the rows that are done add up to.
LEMMA AmountCovers ==
  ASSUME NEW x \in Orders, NEW d, Fits(x, d), SaleOf(x, d), AnswersAreTrue, Crashes = 0, Waiting(x, d) # {}
  PROVE  d.trade.amount >= NetIn(x, d)
<1>1. d \in Databases /\ d.trade.amount \in Nat /\ d.trade.st \in {"none", "open", "closed"}
      /\ NetIn(x, d) \in Int /\ NetHeld(x, d)
  BY NetIsInt DEF Fits, Databases
<1>2. d.trade.st # "none"
  BY DEF SaleOf, Waiting, Known
<1>3. CASE d.trade.st = "open"
  BY <1>1, <1>3 DEF NetHeld
<1>4. CASE d.trade.st = "closed"
  BY <1>1, <1>4 DEF SaleOf
<1> QED
  BY <1>1, <1>2, <1>3, <1>4

LEMMA JobReadySale ==
  ASSUME SaleStands, JobReady PROVE SaleInv'
<1>1. /\ job.kind \in ExitKinds \cup EntryKinds /\ ~ job.ready /\ cancels = {}
      /\ cancels' = OpenOrders(db) /\ UNCHANGED <<xo, db, stored, loop, sent, refind>>
  BY DEF JobReady
<1>2. job \in Jobs /\ db.trade.amount \in Nat
  BY StandsFacts DEF SaleStands, IInv, TypeOK, Jobs, Databases
<1>3. /\ job'.ready /\ job'.kind = job.kind /\ job'.refinding = job.refinding
      /\ job.kind \in ExitKinds => job'.want = IF job.want = 0 THEN db.trade.amount ELSE job.want
  BY <1>2 DEF JobReady, ExitAmount, Jobs
<1>4. ~ Quiet
  BY <1>1, QuietFacts
<1>5. refind = {} /\ sent = NotSent /\ ~ job.refinding
  BY <1>1 DEF SaleStands, IInv, JobInv, SentInv
<1>6. todo = {} /\ pc # "stops" /\ pc # "recover"
  BY <1>4, BusyFacts, HandlerSaleIs
<1>7. ExitFits(xo', db', job', cancels')
  <2> SUFFICES ASSUME job.kind \in ExitKinds, Waiting(xo, db) # {}
               PROVE  job'.want >= NetIn(xo, db) /\ \A o \in Waiting(xo, db) : o \in cancels'
    BY <1>1, <1>3 DEF ExitFits
  <2>1. job.want = 0
    BY <1>1, <1>5, HandlerSaleIs DEF ExitFits
  <2>2. db.trade.amount >= NetIn(xo, db)
    BY StandsFacts, AmountCovers DEF DataSale
  <2> QED
    BY <1>1, <1>3, <2>1, <2>2, RowsKnown
<1>8. HandlerSale'
  BY <1>1, <1>3, <1>5, <1>6, <1>7, RowsKnown, HandlerSaleIs DEF HandlerSale, loop
<1> QED
  BY <1>1, <1>8, SameDataSale

LEMMA PlaceUncoveredSale ==
  ASSUME SaleStands, PlaceUncovered PROVE SaleInv'
<1>1. /\ job.ready /\ cancels = {} /\ sent = NotSent /\ refind' = OpenRows(db)
      /\ job' = [job EXCEPT !.refinding = TRUE]
      /\ UNCHANGED <<xo, db, stored, loop, cancels, sent>>
  BY DEF PlaceUncovered, Placing
<1>2. job \in Jobs
  BY StandsFacts DEF SaleStands, IInv, TypeOK, Jobs
<1>3. job'.kind = job.kind /\ job'.refinding
  BY <1>1, <1>2 DEF Jobs
<1>4. todo = {} /\ pc # "stops" /\ pc # "recover"
  BY <1>1, QuietFacts, BusyFacts, HandlerSaleIs
<1>5. ExitFits(xo', db', job', cancels')
  BY <1>3 DEF ExitFits
<1>6. HandlerSale'
  BY <1>1, <1>3, <1>4, <1>5, HandlerSaleIs DEF HandlerSale, loop
<1> QED
  BY <1>1, <1>6, SameDataSale

LEMMA PlaceFailsSale ==
  ASSUME SaleStands, PlaceFails PROVE SaleInv'
<1>1. /\ job.ready /\ ~ job.refinding /\ cancels = {} /\ sent = NotSent /\ xo' = xo
      /\ UNCHANGED <<loop, sent, refind>>
      /\ \/ JobFails /\ UNCHANGED cancels
         \/ /\ job.kind = "stoploss" /\ job' = Job("emergency", 0) /\ cancels' = OpenStops(db)
            /\ UNCHANGED <<db, stored>>
  BY OneSaleFacts DEF SaleStands, PlaceFails, Placing, StopsToCancel
<1>2. todo = {} /\ pc # "stops" /\ pc # "recover" /\ refind = {}
  BY <1>1, QuietFacts, BusyFacts, HandlerSaleIs DEF SaleStands, IInv, JobInv
<1>3. CASE JobFails /\ UNCHANGED cancels
  BY <1>1, <1>2, <1>3, NothingSent, JobEndsSale, SaleEnds DEF loop
<1>4. CASE /\ job' = Job("emergency", 0) /\ cancels' = OpenStops(db)
           /\ UNCHANGED <<db, stored>>
  <2>1. job'.kind = "emergency" /\ ~ job'.ready /\ job'.want = 0 /\ ~ job'.refinding
    BY <1>4, JobFacts DEF Kinds, ExitKinds
  <2>2. ExitFits(xo', db', job', cancels')
    BY <2>1 DEF ExitFits
  <2>3. HandlerSale'
    BY <1>1, <1>2, <1>4, <2>1, <2>2, RowsKnown DEF HandlerSale, loop, EntryKinds
  <2> QED
    BY <1>1, <1>4, <2>3, SameDataSale
<1> QED
  BY <1>1, <1>3, <1>4

\* An exit is only placed when there is nothing else to wait for: the exchange
\* does not sell twice what a waiting exit has begun to sell.
LEMMA ExitsWaitForNone ==
  ASSUME SaleStands, Placing, Covered, job.kind \in ExitKinds
  PROVE  Waiting(xo, db) = {}
<1> SUFFICES ASSUME NEW o \in Waiting(xo, db) PROVE FALSE
  OBVIOUS
<1>1. job.ready /\ ~ job.refinding /\ cancels = {} /\ sent = NotSent
  BY DEF Placing
<1>2. job.want >= NetIn(xo, db) /\ xo[o].filled > 0
  BY <1>1, HandlerSaleIs DEF ExitFits
<1>3. /\ xo \in Orders /\ db \in Databases /\ FinalIn(xo, db) /\ SaleOf(xo, db) /\ Unseen(xo, db, 0)
      /\ OneSale /\ OrdersFit(xo)
  BY <1>1, StandsFacts, NothingSent DEF DataSale, Fits, SaleStands
<1>4. o \in Ids /\ db.rows[o].open /\ o \in OpenRows(db)
  BY DEF Waiting, OpenRows, Known
<1>5. job.kind \notin EntryKinds /\ job.kind # "stoploss"
  BY DEF ExitKinds, EntryKinds
<1>6. BoughtIn(xo, db)
  BY <1>5, StandsFacts, PlacingSells
<1>7. xo[o].side # "entry" /\ FreeIn(xo) <= NetIn(xo, db) + Effect(xo, o)
  <2>1. /\ \A p \in OpenRows(db) : xo[p].side # "entry"
        /\ \A p \in Ids : ~ db.rows[p].known \/ db.rows[p].open => xo[p].side # "entry" \/ xo[p].filled = 0
    BY <1>3, <1>6, EntriesDone
  <2>2. FreeIn(xo) <= NetIn(xo, db) + Effect(xo, o)
    BY <1>3, <1>4, <2>1, FreeWithin
  <2> QED
    BY <1>4, <2>1, <2>2
<1>8. Effect(xo, o) < 0 /\ Effect(xo, o) \in Int
  <2>1. xo[o].filled \in Nat /\ xo[o].amount \in Nat /\ xo[o].filled <= xo[o].amount
    BY <1>3, <1>4 DEF OrdersFit, Orders
  <2> QED
    BY <1>2, <1>7, <2>1 DEF Effect
<1>9. job.want <= FreeIn(xo)
  <2>1. \A p \in Ids : xo[p].status = "none" => xo[p].filled = 0
    <3>1. \A p \in Ids : xo[p].status = "none" => ~ db.rows[p].known /\ p # 0
      BY StandsFacts, IdsFinite DEF Fits
    <3> QED
      BY <1>3, <3>1 DEF Unseen
  <2>2. Free = FreeIn(xo)
    BY <1>3, <2>1, OneSaleFacts, FreeIs
  <2> QED
    BY <1>5, <2>2 DEF Covered, PlacedAmount
<1>10. job.want \in Nat /\ NetIn(xo, db) \in Int /\ FreeIn(xo) \in Int
  BY <1>3, NetIsInt, EffectIsInt DEF SaleStands, IInv, TypeOK
<1> QED
  BY <1>2, <1>7, <1>8, <1>9, <1>10

\* A new order leaves no less than nothing.
LEMMA NewOrderLeaves ==
  ASSUME SaleStands, Placing, Covered, NextId <= MaxOrders, xo' \in Orders,
         \A p \in Ids : p # NextId => xo'[p] = xo[p],
         xo'[NextId].side = Side(job.kind), xo'[NextId].amount = PlacedAmount,
         xo'[NextId].filled <= xo'[NextId].amount
  PROVE  FreeIn(xo') >= 0
<1> DEFINE N == NextId
           f == [o \in Ids |-> Effect(xo', o)]
           g == [o \in Ids |-> Effect(xo, o)]
<1>1. /\ xo \in Orders /\ OrdersFit(xo) /\ OneSale /\ FreeIn(xo) >= 0 /\ Unseen(xo, db, 0) /\ Fits(xo, db)
  BY StandsFacts, NothingSent DEF DataSale, SaleStands, Placing
<1>2. N \in Ids /\ xo[N].status = "none"
  BY <1>1, NextIdIsNew
<1>3. \A p \in Ids : xo[p].status = "none" => xo[p].filled = 0
  <2>1. \A p \in Ids : xo[p].status = "none" => ~ db.rows[p].known /\ p # 0
    BY <1>1, IdsFinite DEF Fits
  <2> QED
    BY <1>1, <2>1 DEF Unseen
<1>4. Free = FreeIn(xo)
  BY <1>1, <1>3, OneSaleFacts, FreeIs
<1> HIDE DEF N
<1>5. Effect(xo, N) = 0
  BY <1>2, <1>3 DEF Effect
<1>6. FreeIn(xo') + Effect(xo, N) = FreeIn(xo) + Effect(xo', N)
  <2>1. \A p \in Ids : p # N => f[p] = g[p]
    <3>1. \A p \in Ids : p # N => xo'[p] = xo[p]
      BY DEF N
    <3> QED
      BY <3>1 DEF Effect
  <2>2. f \in [Ids -> Int]
    BY EffectIsInt
  <2>3. g \in [Ids -> Int]
    BY <1>1, EffectIsInt
  <2>4. f[N] = Effect(xo', N) /\ g[N] = Effect(xo, N)
    BY <1>2
  <2>5. FreeIn(xo') = SumFunction(f) /\ FreeIn(xo) = SumFunction(g)
    BY DEF FreeIn
  <2>6. IsFiniteSet(Ids)
    BY IdsFinite
  <2> HIDE DEF f, g
  <2>7. SumFunction(f) + g[N] = SumFunction(g) + f[N]
    BY <1>2, <2>1, <2>2, <2>3, <2>6, SumChange
  <2> QED
    BY <2>4, <2>5, <2>7
<1>7. /\ xo'[N].filled \in Nat /\ xo'[N].amount \in Nat /\ xo'[N].side = Side(job.kind)
      /\ xo'[N].amount = PlacedAmount /\ xo'[N].filled <= xo'[N].amount
      /\ FreeIn(xo) \in Int /\ FreeIn(xo') \in Int
  BY <1>1, <1>2, EffectIsInt DEF N, Orders
<1>8. xo'[N].side = "entry" \/ PlacedAmount <= FreeIn(xo)
  BY <1>4, <1>7, StandsFacts, PlacingSells DEF Covered
<1>9. Effect(xo', N) + FreeIn(xo) >= 0 /\ Effect(xo', N) \in Int
  BY <1>1, <1>7, <1>8 DEF Effect
<1> QED
  BY <1>5, <1>6, <1>7, <1>9

LEMMA PlaceSale ==
  ASSUME SaleStands, Place PROVE SaleInv'
<1>1. /\ Placing /\ Covered /\ NextId <= MaxOrders
      /\ UNCHANGED <<db, stored, pc, holder, todo, cancels, job, refind>>
      /\ job.ready /\ ~ job.refinding /\ cancels = {} /\ sent = NotSent
  BY DEF Place, Placing, loop
<1>2. PICK x \in NewOrders :
        /\ xo' = [xo EXCEPT ![NextId] = x]
        /\ sent' = [id |-> NextId, c |-> [status |-> x.status, filled |-> x.filled]]
  BY DEF Place
<1>3. /\ x \in AnOrder /\ x.status # "none" /\ x.filled <= x.amount
      /\ x.status = "open" => x.filled < x.amount
  BY <1>1, NewOrderFacts DEF SaleStands
<1>4. x.side = Side(job.kind) /\ x.amount = PlacedAmount
  BY DEF NewOrders, Order
<1>5. /\ OrdersFit(xo') /\ xo' \in Orders /\ xo'[NextId] = x
      /\ \A p \in Ids : p # NextId => xo'[p] = xo[p]
  BY <1>1, <1>2, <1>3, NewOrderFits DEF SaleStands, IInv, OrdersFit
<1>6. NextId \in Ids /\ xo[NextId].status = "none"
  BY <1>1, NextIdIsNew DEF SaleStands, IInv
<1>7. /\ ~ db.rows[NextId].known /\ ~ stored.rows[NextId].known
      /\ xo \in Orders /\ db \in Databases /\ stored \in Databases /\ DataSale
  BY <1>6, StandsFacts DEF Fits
<1>8. sent'.id = NextId
  BY <1>2
<1>9. FreeIn(xo') >= 0
  BY <1>1, <1>3, <1>4, <1>5, NewOrderLeaves
<1>10. /\ SaleOf(xo', db) /\ Waiting(xo', db) = Waiting(xo, db)
       /\ SaleOf(xo', stored)
  <2>1. \A p \in Ids : /\ db.rows[p].known => xo'[p].side = xo[p].side
                       /\ stored.rows[p].known => xo'[p].side = xo[p].side
    BY <1>5, <1>7
  <2> QED
    BY <1>5, <1>7, <2>1, SaleFrame DEF DataSale
<1>11. Unseen(xo', db, NextId)
  <2>1. Unseen(xo, db, 0)
    BY <1>1, NothingSent
  <2>2. \A p \in Ids : p # 0
    BY IdsFinite
  <2> QED
    BY <1>5, <2>1, <2>2 DEF Unseen
<1>12. DataSale'
  BY <1>1, <1>8, <1>9, <1>10, <1>11 DEF DataSale
<1>13. job.kind \in ExitKinds => Waiting(xo', db') = {}
  BY <1>1, <1>10, ExitsWaitForNone
<1>14. ExitFits(xo', db', job', cancels')
  BY <1>1, <1>13 DEF ExitFits
<1>15. todo = {} /\ pc # "stops" /\ pc # "recover"
  BY <1>1, QuietFacts, BusyFacts, HandlerSaleIs
<1>16. HandlerSale'
  BY <1>1, <1>4, <1>5, <1>8, <1>13, <1>14, <1>15, HandlerSaleIs DEF HandlerSale
<1> QED
  BY <1>12, <1>16 DEF SaleInv

(***************************************************************************)
(* Steps that record an order.                                             *)
(***************************************************************************)

LEMMA RecordedIsSeen ==
  ASSUME SaleStands, sent # NotSent, NEW e, e.rows = [db.rows EXCEPT ![sent.id] = Row(sent.c)]
  PROVE  Unseen(xo, e, 0)
<1>1. sent.id \in Ids /\ sent.c \in Seen /\ db \in Databases /\ Unseen(xo, db, sent.id)
  BY SentFacts, StandsFacts DEF SaleStands, DataSale
<1>2. e.rows[sent.id] = Row(sent.c) /\ \A p \in Ids : p # sent.id => e.rows[p] = db.rows[p]
  BY <1>1 DEF Databases
<1>3. Row(sent.c).known
  BY <1>1, RowValues
<1> QED
  BY <1>1, <1>2, <1>3 DEF Unseen

LEMMA OpenStateIs ==
  ASSUME NEW d \in Databases, NEW o \in Ids, NEW c \in Seen, c.status = "open"
  PROVE  UpdateTradeState(d, o, c) = UpdateRow(d, o, c)
<1> DEFINE u == UpdateRow(d, o, c)
<1>1. u.rows = [d.rows EXCEPT ![o] = Row(c)]
  BY UpdateRowFacts
<1>2. u.rows[o].open
  BY <1>1, RowValues DEF Databases
<1>3. UpdateTradeState(d, o, c) = UpdateTrade(u, o, ClosesTrade(u, o))
  BY DEF UpdateTradeState, CanceledEmpty
<1> HIDE DEF u
<1> QED
  BY <1>2, <1>3 DEF UpdateTrade, u

\* What is left to show of a step that records an order.
LEMMA RecordingSale ==
  ASSUME SaleStands, sent # NotSent, UNCHANGED <<xo, loop, refind>>, job' = NoJob, sent' = NotSent,
         cancels' = {}, Unseen(xo, db', 0), SaleOf(xo, db'), stored' = db' \/ stored' = stored
  PROVE  SaleInv'
<1>1. job.ready /\ refind = {} /\ pc # "recover"
  BY SentFacts, HandlerSaleIs DEF SaleStands
<1>2. todo = {}
  BY <1>1, QuietFacts, BusyFacts
<1>3. HandlerSale'
  BY <1>1, <1>2, HandlerOver DEF loop
<1>4. DataSale'
  BY NoJobFacts, StandsFacts DEF DataSale
<1> QED
  BY <1>3, <1>4 DEF SaleInv

\* An order that is not an entry, once it is a row.
LEMMA SaleRecorded ==
  ASSUME SaleStands, sent # NotSent, job.kind \in ExitKinds \cup {"stoploss"}
  PROVE  LET e == UpdateTradeState(db, sent.id, sent.c)
         IN  SaleOf(xo, e) /\ Unseen(xo, e, 0)
<1> DEFINE e == UpdateTradeState(db, sent.id, sent.c)
<1>1. /\ AnswersAreTrue /\ Crashes = 0 /\ xo \in Orders /\ Fits(xo, db) /\ Backed(xo, db) /\ SaleOf(xo, db)
      /\ sent.id \in Ids /\ sent.c \in Seen /\ db \in Databases /\ ~ db.rows[sent.id].known
  BY SentFacts, StandsFacts DEF SaleStands, DataSale
<1>2. e.rows = [db.rows EXCEPT ![sent.id] = Row(sent.c)] /\ (e.trade.amount > 0 => db.trade.amount > 0 \/ BoughtIn(xo, e))
  BY <1>1, UpdateStateFacts, UpdateStateBacked
<1> HIDE DEF e
<1>3. BoughtIn(xo, db)
  <2>1. job.kind \notin EntryKinds
    BY DEF ExitKinds, EntryKinds
  <2> QED
    BY <1>2, <2>1, SentBacked, StandsFacts
<1>4. /\ xo[sent.id].side = Side(job.kind)
      /\ job.kind \in ExitKinds => Waiting(xo, db) = {}
  BY StandsFacts DEF HandlerSale
<1>5. Side(job.kind) = IF job.kind = "stoploss" THEN "stoploss" ELSE "exit"
  BY DEF Side, ExitKinds, EntryKinds
<1>6. SaleOf(xo, e)
  BY <1>1, <1>3, <1>4, <1>5, StateSale DEF e
<1>7. Unseen(xo, e, 0)
  BY <1>2, RecordedIsSeen
<1> QED
  BY <1>6, <1>7 DEF e

LEMMA RecordStopSale ==
  ASSUME SaleStands, RecordStop PROVE SaleInv'
<1>1. /\ sent # NotSent /\ job.kind = "stoploss" /\ job' = NoJob /\ sent' = NotSent
      /\ db' = UpdateRow(db, sent.id, sent.c) /\ stored' = stored
      /\ UNCHANGED <<xo, loop, cancels, refind>>
  BY DEF RecordStop, Save
<1>2. sent.c.status = "open" /\ sent.id \in Ids /\ sent.c \in Seen /\ db \in Databases /\ cancels = {}
  BY <1>1, SentFacts DEF SaleStands, IInv, SentInv
<1>3. db' = UpdateTradeState(db, sent.id, sent.c)
  BY <1>1, <1>2, OpenStateIs
<1>4. SaleOf(xo, db') /\ Unseen(xo, db', 0)
  BY <1>1, <1>3, SaleRecorded
<1> QED
  BY <1>1, <1>2, <1>4, RecordingSale

LEMMA RecordExitSale ==
  ASSUME SaleStands, RecordExit PROVE SaleInv'
<1>1. /\ sent # NotSent /\ job.kind \in ExitKinds /\ job' = NoJob /\ sent' = NotSent
      /\ db' = (IF sent.c.status = "open" THEN UpdateRow(db, sent.id, sent.c)
                ELSE UpdateTradeState(db, sent.id, sent.c))
      /\ stored' = db'
      /\ UNCHANGED <<xo, loop, cancels, refind>>
  BY DEF RecordExit, Save
<1>2. sent.id \in Ids /\ sent.c \in Seen /\ db \in Databases /\ cancels = {}
  BY <1>1, SentFacts DEF SaleStands
<1>3. db' = UpdateTradeState(db, sent.id, sent.c)
  BY <1>1, <1>2, OpenStateIs
<1>4. SaleOf(xo, db') /\ Unseen(xo, db', 0)
  BY <1>1, <1>3, SaleRecorded
<1> QED
  BY <1>1, <1>2, <1>4, RecordingSale

LEMMA RecordEntrySale ==
  ASSUME SaleStands, RecordEntry PROVE SaleInv'
<1>1. sent # NotSent /\ job.kind \in EntryKinds /\ sent' = NotSent /\ UNCHANGED <<xo, loop, refind>>
  BY DEF RecordEntry
<1>2. /\ sent.id \in Ids /\ sent.c \in Seen /\ ~ db.rows[sent.id].known
      /\ xo \in Orders /\ db \in Databases
      /\ job.ready /\ cancels = {} /\ refind = {}
      /\ sent.c.status # "open" => xo[sent.id].status = sent.c.status /\ xo[sent.id].filled = sent.c.filled
      /\ xo[sent.id].side = "entry"
  <2>1. xo[sent.id].side = "entry"
    BY <1>1 DEF SaleStands, BackedInv, HandlerBacked
  <2> QED
    BY <1>1, <2>1, SentFacts DEF SaleStands, IInv, SentInv
<1>3. todo = {} /\ pc # "recover"
  BY <1>2, QuietFacts, BusyFacts, HandlerSaleIs
<1>4. CASE CanceledEmpty(sent.c)
  <2>1. JobFails /\ UNCHANGED cancels
    BY <1>4 DEF RecordEntry
  <2>2. Unseen(xo, db, 0)
    <3>1. Unseen(xo, db, sent.id)
      BY StandsFacts DEF DataSale
    <3>2. xo[sent.id].status # "open" /\ xo[sent.id].filled = 0
      BY <1>2, <1>4 DEF CanceledEmpty
    <3> QED
      BY <3>1, <3>2 DEF Unseen
  <2> QED
    BY <1>1, <1>2, <1>3, <2>1, <2>2, JobEndsSale, SaleEnds DEF loop
<1>5. CASE ~ CanceledEmpty(sent.c)
  <2> DEFINE d == EntryRecorded
             e == UpdateTradeState(d, sent.id, sent.c)
  <2>1. /\ db' = (IF sent.c.status = "open" THEN d ELSE e) /\ stored' = db'
        /\ cancels' = StopsAfterFill(d, sent.id, sent.c) /\ job' = NoJob
    BY <1>5 DEF RecordEntry, Save
  <2>2. Known(db) = {}
    <3>1. db.trade.st = "none"
      BY <1>1, HandlerSaleIs
    <3> QED
      BY <3>1, StandsFacts DEF DataSale, SaleOf
  <2>3. /\ d \in Databases /\ d.rows = [db.rows EXCEPT ![sent.id] = Row(sent.c)]
        /\ d.trade.st = "open"
    BY <1>1, EntryRecordedBacked, StandsFacts
  <2> HIDE DEF d
  <2>4. Known(d) = {sent.id}
    <3>1. Known(d) = Known(db) \cup {sent.id}
      BY <1>2, <2>3, RowJoins
    <3> QED
      BY <2>2, <3>1
  <2>5. cancels' = {}
    BY <1>2, <2>1, <2>4, StopsAfterFillFacts
  <2>6. e \in Databases /\ e.rows = [d.rows EXCEPT ![sent.id] = Row(sent.c)]
    BY <1>2, <2>3, UpdateStateFacts
  <2>7. sent.c.status # "open" => e.trade.st = "open"
    <3> SUFFICES ASSUME sent.c.status # "open" PROVE e.trade.st = "open"
      OBVIOUS
    <3>1. sent.c.filled > 0
      BY <1>2, <1>5 DEF CanceledEmpty, Seen
    <3> QED
      BY <1>2, <2>3, <3>1, StateOf
  <2> HIDE DEF e
  <2>8. e.rows = [db.rows EXCEPT ![sent.id] = Row(sent.c)]
    BY <1>2, <2>3, <2>6 DEF Databases
  <2>9. db' \in Databases /\ db'.rows = [db.rows EXCEPT ![sent.id] = Row(sent.c)] /\ db'.trade.st = "open"
    BY <2>1, <2>3, <2>6, <2>7, <2>8
  <2>10. SaleOf(xo, db')
    BY <1>2, <2>2, <2>9, EntrySale
  <2>11. Unseen(xo, db', 0)
    BY <1>1, <2>9, RecordedIsSeen
  <2> QED
    BY <1>1, <2>1, <2>5, <2>10, <2>11, RecordingSale
<1> QED
  BY <1>4, <1>5

(***************************************************************************)
(* Steps that cancel an order.                                             *)
(***************************************************************************)

\* What a cancellation leaves: the order itself, if it has begun to fill, or
\* nothing to wait for.
LEMMA CancelledLeaves ==
  ASSUME SaleStands, NEW d, SaleOf(xo, d), NEW o \in OpenRows(d), xo[o].side # "stoploss",
         NEW r, NEW h, Cancelled(d, o, r, h), \A p \in Ids : xo'[p].side = xo[p].side
  PROVE  \/ h.d = d /\ xo' = xo /\ h.commit = FALSE /\ h.ok = FALSE /\ xo[o].filled > 0
         \/ Waiting(xo', h.d) = {}
<1>1. CASE h.d = d /\ h.commit = FALSE /\ h.ok = FALSE /\ xo' = xo /\ xo[o].filled > 0
  BY <1>1
<1>2. CASE h.d = EmptyDb
  BY <1>2, EmptySale
<1>3. CASE OpenRows(h.d) = OpenRows(d) \ {o}
  <2> SUFFICES ASSUME NEW p \in Waiting(xo', h.d) PROVE FALSE
    OBVIOUS
  <2>1. p \in OpenRows(h.d) /\ p \in Ids /\ xo[p].side # "stoploss"
    BY DEF Waiting, OpenRows, Known
  <2>2. p \in OpenRows(d) /\ p # o
    BY <1>3, <2>1
  <2>3. p \in Waiting(xo, d) /\ o \in Waiting(xo, d)
    BY <2>1, <2>2 DEF Waiting, OpenRows, Known
  <2> QED
    BY <2>2, <2>3 DEF SaleOf
<1> QED
  BY <1>1, <1>2, <1>3 DEF Cancelled

LEMMA CancelOrderSale ==
  ASSUME SaleStands, NEW o \in Ids, CancelOrder(o) PROVE SaleInv'
<1> DEFINE replacing == job.kind # "force"
           h(r) == HandleCancel(db, o, Snap(o), r.c, replacing)
<1>1. /\ o \in cancels /\ xo[o].side # "stoploss" /\ UNCHANGED <<loop, sent, refind>>
  BY DEF CancelOrder
<1>2. \E r \in IF CancelRequested(db, o, Snap(o)) THEN CancelResults(o) ELSE {[to |-> xo[o], c |-> Snap(o)]} :
        /\ xo' = [xo EXCEPT ![o] = r.to]
        /\ db' = h(r).d /\ stored' = IF h(r).commit THEN h(r).d ELSE stored
        /\ cancels' = ((cancels \ {o}) \cap Known(h(r).d)) \cup StopsAfterFill(h(r).d, o, r.c)
        /\ \E b : job' = [job EXCEPT !.entered = b]
  BY DEF CancelOrder, Save
<1> HIDE DEF h
<1>3. PICK r \in IF CancelRequested(db, o, Snap(o)) THEN CancelResults(o) ELSE {[to |-> xo[o], c |-> Snap(o)]} :
        /\ xo' = [xo EXCEPT ![o] = r.to]
        /\ db' = h(r).d /\ stored' = IF h(r).commit THEN h(r).d ELSE stored
        /\ cancels' = ((cancels \ {o}) \cap Known(h(r).d)) \cup StopsAfterFill(h(r).d, o, r.c)
        /\ \E b : job' = [job EXCEPT !.entered = b]
  BY <1>2
<1>4. Answered(db, o, r) /\ xo' = With(xo, o, r)
  BY <1>3 DEF Answered, With
<1>5. /\ o \in OpenRows(db) /\ cancels \subseteq OpenRows(db)
      /\ sent = NotSent /\ ~ job.refinding /\ refind = {}
  BY <1>1, HandlerSaleIs DEF SaleStands, IInv, JobInv, SentInv
<1>6. /\ Fits(xo, db) /\ Backed(xo, db) /\ SaleOf(xo, db) /\ Unseen(xo, db, 0) /\ SaleOf(xo, stored)
      /\ xo \in Orders /\ stored \in Databases /\ job \in Jobs
  BY <1>5, StandsFacts, NothingSent DEF DataSale, SaleStands, IInv, TypeOK, Jobs
<1>7. Cancelled(db, o, r, h(r))
  BY <1>4, <1>5, <1>6, CancelSale DEF h
<1>8. xo' \in Orders /\ \A p \in Ids : xo'[p].side = xo[p].side
  BY <1>4, AnsweredFacts
<1>9. job'.kind = job.kind /\ job'.want = job.want /\ job'.ready = job.ready /\ job'.refinding = job.refinding
  BY <1>3, <1>6 DEF Jobs
<1>10. todo = {} /\ pc # "stops" /\ pc # "recover"
  BY <1>1, QuietFacts, BusyFacts, HandlerSaleIs
<1>11. job.kind \notin EntryKinds
  <2>1. db.trade.st # "none"
    BY <1>5, <1>6, RowsKnown DEF SaleOf
  <2> QED
    BY <2>1, HandlerSaleIs
<1>12. DataSale'
  <2>1. SaleOf(xo', stored)
    <3>1. \A p \in Ids : stored.rows[p].known => xo'[p].side = xo[p].side
      BY <1>8
    <3> QED
      BY <1>6, <1>8, <3>1, SaleFrame
  <2>2. FreeIn(xo') >= 0 /\ Unseen(xo', db', 0) /\ SaleOf(xo', db')
    BY <1>3, <1>7 DEF Cancelled
  <2>3. sent'.id = 0
    BY <1>1, <1>5, NoJobFacts
  <2> QED
    BY <1>3, <2>1, <2>2, <2>3 DEF DataSale
<1>13. cancels' = (cancels \ {o}) \cap Known(db')
  BY <1>3, <1>7 DEF Cancelled
<1>14. cancels' \subseteq OpenRows(db')
  <2>1. \/ db' = db \/ db' = EmptyDb \/ OpenRows(db') = OpenRows(db) \ {o}
    BY <1>3, <1>7 DEF Cancelled
  <2>2. CASE db' = EmptyDb
    <3>1. Known(db') = {}
      BY <2>2, EmptyFacts DEF Known
    <3> QED
      BY <1>13, <3>1
  <2> QED
    BY <1>5, <1>13, <2>1, <2>2
<1>15. ExitFits(xo', db', job', cancels')
  <2> SUFFICES ASSUME job.kind \in ExitKinds, ~ (~ job.ready /\ job.want = 0), Waiting(xo', db') # {}
               PROVE  job.ready /\ job.want >= NetIn(xo', db') /\ \A p \in Waiting(xo', db') : p \in cancels' \/ xo'[p].filled > 0
    BY <1>9 DEF ExitFits
  <2>1. o \in Waiting(xo, db)
    BY <1>1, <1>5 DEF Waiting, OpenRows, Known
  <2>2. job.ready /\ job.want >= NetIn(xo, db)
    BY <1>5, <2>1, HandlerSaleIs DEF ExitFits
  <2>3. db' = db /\ xo' = xo /\ xo[o].filled > 0
    BY <1>1, <1>3, <1>5, <1>6, <1>7, <1>8, CancelledLeaves
  <2>4. \A p \in Waiting(xo, db) : p = o
    BY <1>6, <2>1 DEF SaleOf
  <2> QED
    BY <2>2, <2>3, <2>4
<1>16. HandlerSale'
  BY <1>1, <1>5, <1>9, <1>10, <1>11, <1>14, <1>15, HandlerSaleIs DEF HandlerSale, loop
<1> QED
  BY <1>12, <1>16 DEF SaleInv

\* The order a section visits is the only one it has to visit.
LEMMA LastVisit ==
  ASSUME SaleStands, pc # "stops", NEW o \in todo, todo' = todo \ {o}
  PROVE  /\ todo' = {} /\ o \in OpenRows(db) /\ xo[o].side # "stoploss" /\ Unseen(xo, db, 0)
         /\ pc # "recover" /\ o \in Ids
<1>1. todo \subseteq Waiting(xo, db) /\ o \in OpenRows(db) /\ todo # {} /\ pc # "recover"
  BY HandlerSaleIs
<1>2. \A p \in todo : p = o
  BY <1>1, StandsFacts DEF DataSale, SaleOf
<1>3. Unseen(xo, db, 0)
  BY <1>1, HandlerSaleIs, QuietFacts, NothingSent
<1> QED
  BY <1>1, <1>2, <1>3 DEF Waiting

LEMMA SameUnseen ==
  ASSUME NEW x, NEW d, NEW e, Known(e) = Known(d), Unseen(x, d, 0)
  PROVE  Unseen(x, e, 0)
  BY DEF Unseen, Known

\* What an emergency exit cancels besides are stoploss orders.
LEMMA CancelOpenSale ==
  ASSUME SaleStands, Quiet, NEW d0, Fits(xo, d0), Backed(xo, d0), SaleOf(xo, d0), Unseen(xo, d0, 0),
         NEW s0 \in Databases, SaleOf(xo, s0),
         NEW o \in OpenRows(d0), xo[o].side # "stoploss", CancelOpen(o, "timeout", d0, s0),
         UNCHANGED <<pc, sent, refind>>, todo' = {}, pc \notin {"stops", "recover"}
  PROVE  SaleInv'
<1> DEFINE replacing == FALSE
           h(r) == HandleCancel(d0, o, Snap(o), r.c, replacing)
<1>1. PICK r \in IF CancelRequested(d0, o, Snap(o)) THEN CancelResults(o) ELSE {[to |-> xo[o], c |-> Snap(o)]} :
        /\ xo' = [xo EXCEPT ![o] = r.to]
        /\ db' = h(r).d /\ stored' = IF h(r).commit THEN h(r).d ELSE s0
        /\ job' = NoJob \/ (h(r).ok /\ job' = Job("emergency", xo[o].amount))
        /\ cancels' = StopsAfterFill(h(r).d, o, r.c)
                        \cup (IF job'.kind \in ExitKinds THEN StopsToCancel(h(r).d) ELSE {})
  BY DEF CancelOpen
<1> HIDE DEF h, replacing
<1>2. o \in Ids /\ xo \in Orders /\ refind = {} /\ sent = NotSent
  BY QuietFacts, RowsKnown, StandsFacts
<1>3. Answered(d0, o, r) /\ xo' = With(xo, o, r)
  BY <1>1 DEF Answered, With
<1>4. Cancelled(d0, o, r, h(r))
  BY <1>3, CancelSale DEF h
<1>5. xo' \in Orders /\ \A p \in Ids : xo'[p].side = xo[p].side
  BY <1>2, <1>3, AnsweredFacts
<1>6. DataSale'
  <2>1. SaleOf(xo', s0)
    <3>1. \A p \in Ids : s0.rows[p].known => xo'[p].side = xo[p].side
      BY <1>5
    <3> QED
      BY <1>2, <1>5, <3>1, SaleFrame
  <2>2. FreeIn(xo') >= 0 /\ Unseen(xo', db', 0) /\ SaleOf(xo', db')
    BY <1>1, <1>4 DEF Cancelled
  <2>3. sent'.id = 0
    BY <1>2, NoJobFacts
  <2> QED
    BY <1>1, <2>1, <2>2, <2>3 DEF DataSale
<1>7. StopsAfterFill(db', o, r.c) = {} /\ StopsToCancel(db') \subseteq OpenRows(db')
  BY <1>1, <1>4 DEF Cancelled, StopsToCancel, OpenStops
<1>8. CASE job' = NoJob
  <2>1. cancels' = {}
    BY <1>1, <1>7, <1>8, NoJobFacts
  <2> QED
    BY <1>2, <1>6, <1>8, <2>1, HandlerOver DEF SaleInv
<1>9. CASE h(r).ok /\ job' = Job("emergency", xo[o].amount)
  <2>1. job'.kind = "emergency" /\ ~ job'.ready /\ ~ job'.refinding
    <3>1. xo[o].amount \in Nat
      BY <1>2 DEF Orders
    <3> QED
      BY <1>9, <3>1, JobFacts DEF Kinds, ExitKinds
  <2>2. Waiting(xo', db') = {}
    BY <1>1, <1>4, <1>5, <1>9, CancelledLeaves
  <2>3. ExitFits(xo', db', job', cancels')
    BY <2>2 DEF ExitFits
  <2>4. cancels' \subseteq OpenRows(db')
    BY <1>1, <1>7
  <2>5. HandlerSale'
    BY <1>2, <2>1, <2>3, <2>4 DEF HandlerSale, EntryKinds
  <2> QED
    BY <1>6, <2>5 DEF SaleInv
<1> QED
  BY <1>1, <1>8, <1>9

LEMMA ManageCancelSale ==
  ASSUME SaleStands, NEW o \in Ids, NEW why \in {"timeout", "drop", "replace"}, ManageCancel(o, why)
  PROVE  SaleInv'
<1> DEFINE d == UpdateTradeState(db, o, Snap(o))
<1>1. why = "timeout"
  BY OneSaleFacts DEF SaleStands, ManageCancel
<1>2. /\ Quiet /\ o \in todo /\ pc = "manage" /\ todo' = todo \ {o}
      /\ xo[o].status = "open" /\ CancelOpen(o, "timeout", d, d)
      /\ UNCHANGED <<pc, sent, refind>>
  BY <1>1 DEF ManageCancel, Managing
<1>3. todo' = {} /\ o \in OpenRows(db) /\ xo[o].side # "stoploss" /\ Unseen(xo, db, 0)
  BY <1>2, LastVisit
<1>4. /\ AnswersAreTrue /\ Crashes = 0 /\ OrdersFit(xo) /\ xo \in Orders /\ Fits(xo, db) /\ db \in Databases /\ Backed(xo, db)
      /\ SaleOf(xo, db)
  BY StandsFacts DEF DataSale
<1>5. /\ Snap(o) \in Seen /\ Told(xo, o, Snap(o)) /\ OrdersStep(xo, xo)
      /\ Snap(o).status = xo[o].status
  BY <1>4, SnapFacts
<1>6. Fits(xo, d)
  BY <1>2, <1>4, <1>5, FitsState
<1>7. o \in Known(db)
  BY <1>3, RowsKnown
<1>8. Backed(xo, d)
  BY <1>2, <1>4, <1>5, <1>7, StateBacked
<1>9. SaleOf(xo, d)
  BY <1>3, <1>4, <1>5, StateSale
<1>10. d \in Databases /\ d.rows = [db.rows EXCEPT ![o] = Row(Snap(o))]
  BY <1>4, <1>5, UpdateStateFacts
<1> HIDE DEF d
<1>11. Known(d) = Known(db) \cup {o} /\ OpenRows(d) = OpenRows(db) \cup {o}
  BY <1>2, <1>4, <1>5, <1>10, RowJoins
<1>12. Unseen(xo, d, 0) /\ o \in OpenRows(d)
  BY <1>3, <1>7, <1>11, SameUnseen
<1> QED
  BY <1>2, <1>3, <1>6, <1>8, <1>9, <1>10, <1>12, CancelOpenSale

\* An order that is done already is handled without a request.
LEMMA DoneSale ==
  ASSUME SaleStands, NEW o \in OpenRows(db), xo[o].side # "stoploss", xo[o].status # "open", Unseen(xo, db, 0),
         Quiet, UNCHANGED <<xo, sent, refind, job>>, todo' = {}, pc' # "recover",
         NEW h, h = HandleCancel(db, o, Snap(o), Snap(o), FALSE),
         Save(h.d, h.commit), cancels' = {} \/ cancels' = StopsAfterFill(h.d, o, Snap(o))
  PROVE  SaleInv'
<1> DEFINE r == [to |-> xo[o], c |-> Snap(o)]
<1>1. /\ o \in Ids /\ xo \in Orders /\ refind = {} /\ sent = NotSent /\ job = NoJob
      /\ Fits(xo, db) /\ Backed(xo, db) /\ SaleOf(xo, db) /\ SaleOf(xo, stored)
  BY QuietFacts, RowsKnown, StandsFacts DEF DataSale
<1>2. ~ CancelRequested(db, o, Snap(o))
  BY DEF CancelRequested, Snap
<1>3. r.to = xo[o] /\ r.c = Snap(o)
  OBVIOUS
<1> HIDE DEF r
<1>4. Answered(db, o, r)
  BY <1>2, <1>3 DEF Answered
<1>5. xo' = With(xo, o, r)
  BY <1>1, <1>3 DEF With, Orders
<1>6. Cancelled(db, o, r, h)
  <2>1. Cancelled(db, o, r, HandleCancel(db, o, Snap(o), r.c, FALSE))
    BY <1>1, <1>4, <1>5, CancelSale
  <2> QED
    BY <1>3, <2>1
<1>7. DataSale'
  BY <1>1, <1>6, NoJobFacts DEF Cancelled, DataSale, Save
<1>8. cancels' = {}
  BY <1>3, <1>6 DEF Cancelled
<1> QED
  BY <1>1, <1>7, <1>8, HandlerOver DEF SaleInv

LEMMA RpcVisitsSale ==
  ASSUME SaleStands, NEW o \in Ids, RpcVisits(o) PROVE SaleInv'
<1>1. /\ Quiet /\ o \in todo /\ holder = "rpc" /\ todo' = todo \ {o}
      /\ UNCHANGED <<pc, sent, refind>>
  BY DEF RpcVisits
<1>2. pc \notin {"stops", "recover"}
  BY <1>1 DEF SaleStands, IInv, JobInv, Sections
<1>3. todo' = {} /\ o \in OpenRows(db) /\ xo[o].side # "stoploss" /\ Unseen(xo, db, 0)
  BY <1>1, <1>2, LastVisit
<1>4. CASE xo[o].status = "open" /\ CancelOpen(o, "timeout", db, stored)
  <2>1. Fits(xo, db) /\ Backed(xo, db) /\ SaleOf(xo, db) /\ stored \in Databases /\ SaleOf(xo, stored)
    BY StandsFacts DEF DataSale
  <2> QED
    BY <1>1, <1>2, <1>3, <1>4, <2>1, CancelOpenSale
<1>5. CASE /\ xo[o].status # "open"
           /\ LET h == HandleCancel(db, o, Snap(o), Snap(o), FALSE)
              IN  Save(h.d, h.commit) /\ cancels' = StopsAfterFill(h.d, o, Snap(o))
           /\ UNCHANGED <<xo, job>>
  BY <1>1, <1>2, <1>3, <1>5, DoneSale
<1> QED
  BY <1>4, <1>5 DEF RpcVisits

LEMMA ManageCanceledSale ==
  ASSUME SaleStands, NEW o \in Ids, ManageCanceled(o) PROVE SaleInv'
<1> DEFINE h == HandleCancel(UpdateRow(db, o, Snap(o)), o, Snap(o), Snap(o), FALSE)
<1>1. /\ Quiet /\ o \in todo /\ pc = "manage" /\ todo' = todo \ {o} /\ CanceledEmpty(Snap(o))
      /\ Save(h.d, h.commit) /\ UNCHANGED <<xo, pc, cancels, job, sent, refind>>
  BY DEF ManageCanceled, Managing
<1>2. todo' = {} /\ o \in OpenRows(db) /\ xo[o].side # "stoploss" /\ Unseen(xo, db, 0) /\ pc' # "recover"
  BY <1>1, LastVisit
<1>3. Snap(o) \in Seen /\ Snap(o).status = xo[o].status /\ xo \in Orders /\ db \in Databases
  BY SnapFacts, StandsFacts
<1>4. h = HandleCancel(db, o, Snap(o), Snap(o), FALSE)
  BY <1>1, <1>2, <1>3, CanceledTwice
<1>5. xo[o].status # "open" /\ cancels' = {}
  BY <1>1, <1>3, QuietFacts DEF CanceledEmpty
<1> HIDE DEF h
<1> QED
  BY <1>1, <1>2, <1>4, <1>5, DoneSale

(***************************************************************************)
(* The invariant is inductive, and what it gives.                          *)
(***************************************************************************)

LEMMA InitSale == Init => SaleInv
<1> SUFFICES ASSUME Init PROVE SaleInv
  OBVIOUS
<1>1. /\ xo = [o \in Ids |-> NoOrder] /\ db = EmptyDb /\ stored = EmptyDb
      /\ pc = "down" /\ holder = "free" /\ todo = {} /\ cancels = {} /\ job = NoJob
      /\ sent = NotSent /\ refind = {}
  BY DEF Init
<1>2. \A o \in Ids : xo[o].status = "none" /\ xo[o].filled = 0 /\ Effect(xo, o) = 0
  BY <1>1 DEF NoOrder, Effect
<1>3. FreeIn(xo) = 0
  <2> DEFINE f == [o \in Ids |-> Effect(xo, o)]
             T == {0}
  <2>1. f \in [Ids -> T]
    BY <1>2
  <2>2. 0 \in T /\ \A a, b \in T : a + b \in T
    OBVIOUS
  <2>3. FreeIn(xo) = SumFunction(f)
    BY DEF FreeIn
  <2> HIDE DEF f, T
  <2>4. SumFunction(f) \in T
    BY <2>1, <2>2, IdsFinite, SumIsIn
  <2> QED
    BY <2>3, <2>4 DEF T
<1>4. DataSale
  BY <1>1, <1>2, <1>3, EmptySale DEF DataSale, Unseen
<1>5. HandlerSale
  BY <1>1, NoJobFacts DEF HandlerSale, ExitFits
<1> QED
  BY <1>4, <1>5 DEF SaleInv

\* What does not happen: no crash, no coins that are missing, no trade to start
\* with.
LEMMA OutOfReach ==
  ASSUME SaleStands
  PROVE  /\ ~ Dying /\ ~ RpcDelete /\ ~ RpcReload /\ ~ DeleteTrade /\ ~ Recover /\ ~ RecoverFails
         /\ ~ AdjustPosition /\ ~ RefindError
         /\ \A o \in Ids : /\ ~ DeleteCancels(o) /\ ~ StartupUpdate(o) /\ ~ StartupSkip(o)
                           /\ ~ StartupUnknown(o)
<1>1. OneSale /\ IInv /\ NonEmptyInv
  BY DEF SaleStands
<1>2. ~ Dying
  <2>1. crashes \in 0 .. Crashes /\ Crashes = 0
    BY <1>1, OneSaleFacts DEF IInv, TypeOK
  <2>2. ~ Dies
    BY <2>1 DEF Dies
  <2> QED
    BY <2>2 DEF Dying, Crash, CrashInUpdate, CrashInRecovery
<1>3. ~ RpcDelete /\ ~ RpcReload
  BY <1>1, OneSaleFacts DEF RpcDelete, RpcReload, Command
<1>4. ~ DeleteTrade /\ ~ Recover /\ ~ RecoverFails /\ ~ RefindError /\ \A o \in Ids : ~ DeleteCancels(o)
  BY HandlerSaleIs DEF DeleteTrade, Recover, RecoverFails, RefindError, DeleteCancels
<1>5. ~ AdjustPosition
  BY <1>1 DEF NonEmptyInv, AdjustPosition
<1>6. \A o \in Ids : ~ Starting(o)
  <2> SUFFICES ASSUME NEW o \in Ids, Starting(o) PROVE FALSE
    OBVIOUS
  <2>1. pc = "startup" /\ o \in Known(db)
    BY DEF Starting
  <2> QED
    BY <1>1, <2>1, EmptyFacts DEF NonEmptyInv, Known
<1>7. \A o \in Ids : ~ StartupUpdate(o) /\ ~ StartupSkip(o) /\ ~ StartupUnknown(o)
  BY <1>6 DEF StartupUpdate, StartupSkip, StartupUnknown
<1> QED
  BY <1>2, <1>3, <1>4, <1>5, <1>7

LEMMA HandlerSells ==
  ASSUME SaleStands, Handler PROVE SaleInv'
<1>1. ASSUME NEW o \in Ids,
             CancelStop(o) \/ CancelOrder(o) \/ DeleteCancels(o) \/ Refind(o) \/ RpcVisits(o)
      PROVE  SaleInv'
  BY <1>1, CancelStopSale, CancelOrderSale, OutOfReach, RefindSale, RpcVisitsSale
<1>2. CASE RpcVisitFails \/ CancelError
  BY <1>2, RpcVisitFailsSale, CancelErrorSale
<1>3. CASE JobReady \/ JobRefused \/ JobDropped
  BY <1>3, JobReadySale, JobRefusedSale, JobDroppedSale
<1>4. CASE Place \/ PlaceFails
  BY <1>4, PlaceSale, PlaceFailsSale
<1>5. CASE PlaceUncovered \/ RefindError \/ RefindDone
  BY <1>5, PlaceUncoveredSale, OutOfReach, RefindDoneSale
<1>6. CASE StopDropped \/ ForceExitGoesOn \/ DeleteTrade
  BY <1>6, StopDroppedSale, ForceExitGoesOnSale, OutOfReach
<1>7. CASE RecordEntry \/ RecordExit \/ RecordStop
  BY <1>7, RecordEntrySale, RecordExitSale, RecordStopSale
<1> QED
  BY <1>1, <1>2, <1>3, <1>4, <1>5, <1>6, <1>7 DEF Handler

LEMMA MainThreadSells ==
  ASSUME SaleStands, MainThread PROVE SaleInv'
<1>1. CASE AssignFees \/ Acquire \/ Release
  BY <1>1, AssignFeesSale, AcquireSale, ReleaseSale
<1>2. ASSUME NEW o \in Ids, ManageSkip(o) \/ ManageUpdate(o) \/ ManageCanceled(o) PROVE SaleInv'
  BY <1>2, ManageSkipSale, ManageUpdateSale, ManageCanceledSale
<1>3. ASSUME NEW o \in Ids, NEW why \in {"timeout", "drop", "replace"}, ManageCancel(o, why)
      PROVE  SaleInv'
  BY <1>3, ManageCancelSale
<1>4. CASE AbortIteration \/ ManageDone
  BY <1>4, AbortIterationSale, ManageDoneSale
<1>5. CASE Recover \/ RecoverFails \/ AdjustPosition
  BY <1>5, OutOfReach
<1>6. ASSUME NEW o \in Ids, StopFetched(o) \/ StopNotFetched(o) PROVE SaleInv'
  BY <1>6, StopFetchedSale, StopNotFetchedSale
<1>7. CASE StopDecided \/ ExitSignal \/ EnterTrade
  BY <1>7, StopDecidedSale, ExitSignalSale, EnterTradeSale
<1>8. CASE Start \/ StartupDone
  BY <1>8, StartSale, StartupDoneSale
<1>9. ASSUME NEW o \in Ids, StartupUpdate(o) \/ StartupSkip(o) \/ StartupUnknown(o) PROVE SaleInv'
  BY <1>9, OutOfReach
<1> QED
  BY <1>1, <1>2, <1>3, <1>4, <1>5, <1>6, <1>7, <1>8, <1>9 DEF MainThread

LEMMA NextSells ==
  ASSUME SaleStands, [Next]_vars PROVE SaleInv'
<1>1. CASE Exchange
  BY <1>1, ExchangeSale
<1>2. CASE Handler
  BY <1>2, HandlerSells
<1>3. CASE MainThread
  BY <1>3, MainThreadSells
<1>4. CASE RpcThread
  BY <1>4, RpcForceExitSale, RpcCancelOpenOrderSale, OutOfReach DEF RpcThread
<1>5. CASE Dying
  BY <1>5, OutOfReach
<1>6. CASE UNCHANGED vars
  BY <1>6, StutterSale
<1> QED
  BY <1>1, <1>2, <1>3, <1>4, <1>5, <1>6 DEF Next

LEMMA InductiveSale ==
  ASSUME OneSale
  PROVE  Spec => [](IInv /\ BackedInv /\ NonEmptyInv /\ SaleInv)
<1>1. Init => IInv /\ BackedInv /\ NonEmptyInv /\ SaleInv
  BY InitIInv, InitBacked, InitSale
<1>2. IInv /\ BackedInv /\ NonEmptyInv /\ SaleInv /\ [Next]_vars
        => (IInv /\ BackedInv /\ NonEmptyInv /\ SaleInv)'
  <2> SUFFICES ASSUME IInv, BackedInv, NonEmptyInv, SaleInv, [Next]_vars
               PROVE  IInv' /\ BackedInv' /\ NonEmptyInv' /\ SaleInv'
    OBVIOUS
  <2>1. SaleStands
    BY DEF SaleStands
  <2>2. IInv'
    BY NextKeeps
  <2>3. StaysBacked /\ OneEntryWatched
    BY <2>1, StandsFacts, NextStays
  <2>4. SaleInv'
    BY <2>1, NextSells
  <2> QED
    BY <2>2, <2>3, <2>4 DEF StaysBacked
<1> QED
  BY <1>1, <1>2, PTL DEF Spec

\* The data of an idle bot.
LEMMA IdleFacts ==
  ASSUME OneSale, IInv, BackedInv, NonEmptyInv, SaleInv, Idle
  PROVE  /\ xo \in Orders /\ OrdersFit(xo) /\ db \in Databases /\ stored \in Databases
         /\ Fits(xo, db) /\ Fits(xo, stored) /\ FinalIn(xo, db) /\ FinalIn(xo, stored)
         /\ SaleOf(xo, db) /\ SaleOf(xo, stored) /\ Unseen(xo, db, 0) /\ FreeIn(xo) >= 0
         /\ Known(stored) = Known(db)
<1>1. SaleStands
  BY DEF SaleStands
<1>2. holder = "free"
  BY DEF Idle
<1>3. Quiet
  BY <1>2 DEF IInv, JobInv
<1>4. Unseen(xo, db, 0)
  BY <1>1, <1>3, QuietFacts, NothingSent
<1>5. Known(stored) = Known(db)
  BY <1>2 DEF IInv, CommittedInv
<1> QED
  BY <1>1, <1>4, <1>5, StandsFacts DEF DataSale, Fits

\* NoOrderForgotten: where the bot alone sells one entry, on an exchange that
\* answers requests or fails to without doing half of them, an order that is open
\* at the exchange while the bot is idle is an open row of an open trade.
THEOREM NoOrderIsForgotten ==
  ASSUME OneSale
  PROVE  Spec => []NoOrderForgotten
<1>1. IInv /\ BackedInv /\ NonEmptyInv /\ SaleInv => NoOrderForgotten
  <2> SUFFICES ASSUME IInv, BackedInv, NonEmptyInv, SaleInv, Idle, NEW o \in Used, xo[o].status = "open"
               PROVE  o \in OpenRows(stored) /\ Open(stored)
    BY DEF NoOrderForgotten
  <2>1. /\ xo \in Orders /\ OrdersFit(xo) /\ stored \in Databases
        /\ FinalIn(xo, stored) /\ SaleOf(xo, stored) /\ Unseen(xo, stored, 0) /\ FreeIn(xo) >= 0
    BY IdleFacts, SameUnseen
  <2>2. o \in Ids /\ o # 0
    BY IdsFinite DEF Used
  <2>3. stored.rows[o].known /\ stored.rows[o].open
    BY <2>1, <2>2 DEF Unseen, FinalIn
  <2>4. o \in OpenRows(stored) /\ o \in Known(stored)
    BY <2>2, <2>3 DEF OpenRows, Known
  <2>5. stored.trade.st \in {"none", "open", "closed"} /\ stored.trade.st # "none"
    BY <2>1, <2>4 DEF Databases, SaleOf
  <2>6. stored.trade.st # "closed"
    <3> SUFFICES ASSUME stored.trade.st = "closed" PROVE FALSE
      OBVIOUS
    <3>1. BoughtIn(xo, stored) /\ NetIn(xo, stored) <= 0
      BY <2>1 DEF SaleOf
    <3>2. /\ \A p \in OpenRows(stored) : xo[p].side # "entry"
          /\ \A p \in Ids : ~ stored.rows[p].known \/ stored.rows[p].open
                              => xo[p].side # "entry" \/ xo[p].filled = 0
      BY <2>1, <3>1, EntriesDone
    <3>3. FreeIn(xo) <= NetIn(xo, stored) + Effect(xo, o)
      BY <2>1, <2>2, <2>3, <3>2, FreeWithin
    <3>4. Effect(xo, o) < 0 /\ Effect(xo, o) \in Int
      <4>1. xo[o].filled \in Nat /\ xo[o].amount \in Nat /\ xo[o].filled < xo[o].amount
        BY <2>1, <2>2 DEF OrdersFit, Orders
      <4> QED
        BY <2>4, <3>2, <4>1 DEF Effect
    <3>5. NetIn(xo, stored) \in Int /\ FreeIn(xo) \in Int
      BY <2>1, NetIsInt, EffectIsInt
    <3> QED
      BY <2>1, <3>1, <3>3, <3>4, <3>5
  <2> QED
    BY <2>4, <2>5, <2>6 DEF Open
<1> QED
  BY <1>1, InductiveSale, PTL

\* ClosedIsSold: under the same assumption, what the exchange traded for a trade
\* that is closed adds up to nothing left.
THEOREM ClosedTradesAreSold ==
  ASSUME OneSale
  PROVE  Spec => []ClosedIsSold
<1>1. IInv /\ BackedInv /\ NonEmptyInv /\ SaleInv => ClosedIsSold
  <2> SUFFICES ASSUME IInv, BackedInv, NonEmptyInv, SaleInv, Idle, db.trade.st = "closed"
               PROVE  Traded(Known(db)) <= 0
    BY DEF ClosedIsSold
  <2> DEFINE f == [o \in Ids |-> IF o \in Known(db) THEN TradedBy(xo, o) ELSE 0]
             g == [o \in Ids |-> Part(xo, db, o)]
  <2>1. /\ xo \in Orders /\ db \in Databases /\ FinalIn(xo, db) /\ SaleOf(xo, db)
        /\ BoughtIn(xo, db) /\ NetIn(xo, db) <= 0
    BY IdleFacts DEF SaleOf
  <2>2. \A o \in OpenRows(db) : xo[o].side # "entry"
    BY <2>1, EntriesDone
  <2>3. \A o \in Ids : f[o] <= g[o]
    <3> SUFFICES ASSUME NEW o \in Ids PROVE f[o] <= Part(xo, db, o)
      OBVIOUS
    <3>1. xo[o].filled \in Nat /\ db.rows[o].filled \in Nat
      BY <2>1 DEF Orders, Databases
    <3>2. CASE db.rows[o].known /\ ~ db.rows[o].open
      <4>1. f[o] = Sign(xo[o].side) * xo[o].filled
        BY <3>2 DEF Known, TradedBy
      <4>2. Part(xo, db, o) = Sign(xo[o].side) * xo[o].filled
        BY <2>1, <3>2 DEF Part, FinalIn
      <4>3. Sign(xo[o].side) * xo[o].filled \in Int
        BY <3>1 DEF Sign
      <4> QED
        BY <4>1, <4>2, <4>3
    <3>3. CASE db.rows[o].known /\ db.rows[o].open
      <4>1. xo[o].side # "entry"
        BY <2>2, <3>3 DEF OpenRows, Known
      <4>2. Sign(xo[o].side) = -1
        BY <4>1 DEF Sign
      <4>3. f[o] = - xo[o].filled
        BY <3>1, <3>3, <4>2 DEF Known, TradedBy
      <4>4. Part(xo, db, o) = 0
        BY <3>3 DEF Part
      <4> QED
        BY <3>1, <4>3, <4>4
    <3>4. CASE ~ db.rows[o].known
      <4>1. f[o] = 0 /\ Part(xo, db, o) = 0
        BY <3>4 DEF Known, Part
      <4> QED
        BY <4>1
    <3> QED
      BY <3>2, <3>3, <3>4
  <2>4. f \in [Ids -> Int]
    BY <2>1 DEF TradedBy, Sign, Orders
  <2>5. g \in [Ids -> Int] /\ NetIn(xo, db) = SumFunction(g)
    BY <2>1, PartIsInt
  <2>6. Traded(Known(db)) = SumFunction(f)
    BY <2>1, RowsKnown, TradedIs
  <2>7. IsFiniteSet(Ids)
    BY IdsFinite
  <2> HIDE DEF f, g
  <2>8. SumFunction(f) <= SumFunction(g) /\ SumFunction(f) \in Int /\ SumFunction(g) \in Int
    BY <2>3, <2>4, <2>5, <2>7, SumMonotone, SumIsInt
  <2> QED
    BY <2>1, <2>5, <2>6, <2>8
<1> QED
  BY <1>1, InductiveSale, PTL

\* AmountIsOwned: under the same assumption, once no order of an open trade is
\* open its amount is what the exchange has traded for it.
THEOREM AmountIsWhatIsOwned ==
  ASSUME OneSale
  PROVE  Spec => []AmountIsOwned
<1>1. IInv /\ BackedInv /\ NonEmptyInv /\ SaleInv => AmountIsOwned
  <2> SUFFICES ASSUME IInv, BackedInv, NonEmptyInv, SaleInv, Idle, Open(db), OpenRows(db) = {}
               PROVE  db.trade.amount = Traded(Known(db))
    BY DEF AmountIsOwned
  <2>1. /\ xo \in Orders /\ db \in Databases /\ FinalIn(xo, db) /\ SaleOf(xo, db) /\ Unseen(xo, db, 0)
        /\ NetHeld(xo, db)
    BY IdleFacts, OneSaleFacts DEF Fits
  <2>2. BoughtIn(xo, db)
    <3>1. NonEmpty(xo, db) /\ db.trade.st = "open"
      BY DEF NonEmptyInv, Open
    <3>2. \A o \in Ids : ~ (db.rows[o].known /\ db.rows[o].open)
      BY DEF OpenRows, Known
    <3> QED
      BY <3>1, <3>2 DEF NonEmpty
  <2>3. db.trade.amount = NetIn(xo, db)
    BY <2>1, <2>2 DEF SaleOf, NetHeld, Open
  <2>4. Known(db) \in SUBSET Ids
    BY DEF Known
  <2>5. Traded(Known(db)) = NetIn(xo, db)
    BY <2>1, <2>4, TradedOfDone
  <2> QED
    BY <2>3, <2>5
<1> QED
  BY <1>1, InductiveSale, PTL
=============================================================================
