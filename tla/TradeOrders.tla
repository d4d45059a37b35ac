---------------------------- MODULE TradeOrders ----------------------------
(***************************************************************************)
(* One spot trade of one pair, its order rows in the database and the      *)
(* orders as the exchange knows them.                                      *)
(*                                                                         *)
(* The bot's threads work on the trade one at a time, under `_exit_lock`;  *)
(* meanwhile the exchange fills and cancels orders on its own, and the     *)
(* process may die between any two calls to the exchange.  A step of a     *)
(* handler holds at most one change at the exchange and what the code does *)
(* with the answer; `job`, `cancels`, `todo` and `sent` say how far the    *)
(* handler that holds the lock has come.                                   *)
(*                                                                         *)
(* Amounts are in units of the base currency.  Prices, fees paid in the    *)
(* base currency and the 2% tolerance on wallet amounts are left out.      *)
(***************************************************************************)
EXTENDS Integers, FiniteSets, FiniteSetsExt, Functions

CONSTANTS
  MaxOrders,       \* bound: orders ever created at the exchange
  EntryAmount,     \* amount of an entry order
  MinAmount,       \* amount below which a position cannot be exited; 0: none
  ExitTimeouts,    \* unfilledtimeout.exit_timeout_count; 0: never
  Spare,           \* base currency in the wallet that belongs to no trade
  OnExchangeStop,  \* order_types["stoploss_on_exchange"]
  TrailingStop,    \* trailing_stop or use_custom_stoploss
  Adjust,          \* position_adjustment_enable
  Replace,         \* the strategy implements adjust_order_price
  Commands,        \* RPC commands in use, a subset of {"exit", "cancel", "delete", "reload"}
  Crashes,         \* bound: crashes
  Answers          \* what the exchange may do besides doing as it is told

ASSUME TradeOrdersAssumption ==
  /\ MaxOrders \in Nat /\ EntryAmount \in Nat \ {0} /\ MinAmount \in Nat
  /\ ExitTimeouts \in Nat /\ Spare \in Nat /\ Crashes \in Nat
  /\ {OnExchangeStop, TrailingStop, Adjust, Replace} \subseteq BOOLEAN
  /\ Commands \subseteq {"exit", "cancel", "delete", "reload"}
  /\ Answers \subseteq {"raced", "slow", "forgotten", "unknown", "expired", "error", "lost"}

Ids    == 1 .. MaxOrders
Sides  == {"entry", "exit", "stoploss"}
Status == {"open", "closed", "canceled", "expired"}

VARIABLES
  xo,       \* orders at the exchange
  db,       \* [rows, trade]: order rows and trade as the session has them
  stored,   \* what of it is committed
  pc,       \* where process() is
  holder,   \* who holds _exit_lock
  todo,     \* orders the section still has to visit
  live,     \* stoploss orders handle_stoploss_on_exchange could fetch
  cancels,  \* orders the current handler has to cancel before it goes on
  job,      \* what the current handler is about to do then
  sent,     \* order created at the exchange and not recorded yet
  refind,   \* orders handle_insufficient_funds still has to fetch
  crashes   \* crashes so far

handler == <<cancels, job, sent, refind>>
loop    == <<pc, holder, todo, live>>
vars    == <<xo, db, stored, loop, handler, crashes>>

(***************************************************************************)
(* Orders at the exchange.                                                 *)
(***************************************************************************)

NoOrder == [side |-> "none", amount |-> 0, filled |-> 0, status |-> "none"]

Used == {o \in Ids : xo[o].status # "none"}

Sign(side) == IF side = "entry" THEN 1 ELSE -1

\* The base currency the account holds, and the part no open order blocks.
Owned == Spare + MapThenSumSet(LAMBDA o : Sign(xo[o].side) * xo[o].filled, Used)

Blocked ==
  MapThenSumSet(LAMBDA o : xo[o].amount - xo[o].filled,
                {o \in Used : xo[o].status = "open" /\ xo[o].side # "entry"})

Free == Owned - Blocked

\* What a fetch or an answer says of an order.
Snap(o) == [status |-> xo[o].status, filled |-> xo[o].filled]

\* One more unit of an open order is traded.
ExchangeFills(o) ==
  /\ o \in Used /\ xo[o].status = "open"
  /\ xo' = [xo EXCEPT ![o].filled = @ + 1,
                      ![o].status = IF xo[o].filled + 1 = xo[o].amount THEN "closed" ELSE "open"]
  /\ UNCHANGED <<db, stored, loop, handler, crashes>>

\* The exchange, or the user at the exchange, cancels an open order.
ExchangeCancels(o) ==
  /\ o \in Used /\ xo[o].status = "open"
  /\ xo' = [xo EXCEPT ![o].status = "canceled"]
  /\ UNCHANGED <<db, stored, loop, handler, crashes>>

\* cancel_order_with_result and cancel_stoploss_order_with_result for an open
\* order: the order as it is afterwards (`to`) and the result the caller gets
\* (`c`).  The order may have been filled further since it was fetched, even
\* completely ("raced"); the result may still say open after the retries
\* ("slow"); an exchange that does not return canceled orders makes the code
\* fake a result with nothing filled, or for a stoploss order with no word on
\* it ("forgotten").
CancelResults(o) ==
  LET x == xo[o]
      as(status, filled) == [x EXCEPT !.status = status, !.filled = filled]
      result(y) == [to |-> y, c |-> [status |-> y.status, filled |-> y.filled]]
  IN  {result(as("canceled", f)) : f \in x.filled .. x.amount - 1}
      \cup (IF "raced" \in Answers THEN {result(as("closed", x.amount))} ELSE {})
      \cup (IF "slow" \in Answers THEN {result(x)} ELSE {})
      \cup (IF "forgotten" \notin Answers THEN {} ELSE
              {[to |-> as("canceled", x.filled),
                c  |-> [status |-> "canceled",
                        filled |-> IF x.side = "stoploss" THEN db.rows[o].filled ELSE 0]]})

(***************************************************************************)
(* The database: order rows and the trade.                                 *)
(***************************************************************************)

NoRow   == [known |-> FALSE, open |-> FALSE, status |-> "none", filled |-> 0]
NoTrade == [st |-> "none", amount |-> 0]
EmptyDb == [rows |-> [o \in Ids |-> NoRow], trade |-> NoTrade]

Open(d) == d.trade.st = "open"

Known(d)    == {o \in Ids : d.rows[o].known}
OpenRows(d) == {o \in Known(d) : d.rows[o].open}

\* Trade.open_orders and Trade.open_sl_orders
OpenOrders(d) == {o \in OpenRows(d) : xo[o].side # "stoploss"}
OpenStops(d)  == {o \in OpenRows(d) : xo[o].side = "stoploss"}

\* Trade.nr_of_successful_entries
SuccessfulEntries(d) ==
  {o \in Known(d) : xo[o].side = "entry" /\ ~ d.rows[o].open /\ d.rows[o].filled > 0}

CanceledExits(d) ==
  {o \in Known(d) : xo[o].side = "exit" /\ d.rows[o].status \in {"canceled", "expired"}}

\* What an order adds to the trade once its row is not open any more.
Share(d, o) ==
  IF o \in Known(d) \ OpenRows(d) THEN Sign(xo[o].side) * d.rows[o].filled ELSE 0

\* What the rows that are not open add up to.
Net(d) == SumFunction([o \in Ids |-> Share(d, o)])

\* Mutant: open rows count as well.
RecalcAllRows(d) ==
  [d EXCEPT !.trade.amount =
     MapThenSumSet(LAMBDA o : Sign(xo[o].side) * d.rows[o].filled, Known(d))]

\* Trade.recalc_trade_from_orders
Recalc(d) == IF Net(d) > 0 THEN [d EXCEPT !.trade.amount = Net(d)] ELSE d

\* Mutant: what was to be cancelled counts as done.
UpdateRowDone(d, o, c) ==
  [d EXCEPT !.rows[o] = [known |-> TRUE, open |-> FALSE, status |-> c.status, filled |-> c.filled]]

\* Order.update_from_ccxt_object
UpdateRow(d, o, c) ==
  [d EXCEPT !.rows[o] = [known |-> TRUE, open |-> c.status = "open",
                         status |-> c.status, filled |-> c.filled]]

\* Mutant: any exit closes the trade.
ClosesTradeAlways(d, o) == d.rows[o].filled > 0

\* An exit closes the trade when it sold all there was.
ClosesTrade(d, o) == d.rows[o].filled >= d.trade.amount

\* "When recalculating a trade, only coming out to 0 can force a close"
ClosesExactly(d, o) == d.rows[o].filled = d.trade.amount

\* Trade.update_trade, on rows already updated.
UpdateTrade(d, o, closes) ==
  CASE d.rows[o].open -> d
    [] ~ d.rows[o].open /\ xo[o].side = "entry" ->
         Recalc([d EXCEPT !.trade.amount = d.rows[o].filled])
    [] ~ d.rows[o].open /\ xo[o].side # "entry" ->
         Recalc(IF closes THEN [d EXCEPT !.trade.st = "closed"] ELSE d)

\* Mutant: a partial fill of a canceled order is overlooked.
CanceledAtAll(c) == c.status \in {"canceled", "expired"}

\* check_order_canceled_empty
CanceledEmpty(c) == c.status # "open" /\ c.filled = 0

\* FreqtradeBot.update_trade_state
UpdateTradeState(d, o, c) ==
  LET u == UpdateRow(d, o, c)
  IN  IF CanceledEmpty(c) THEN u ELSE UpdateTrade(u, o, ClosesTrade(u, o))

\* _update_trade_after_fill: an entry that is done cancels the stoploss orders,
\* whose amount is now too small.
StopsAfterFill(d, o, c) ==
  IF xo[o].side = "entry" /\ c.status # "open" /\ ~ CanceledEmpty(c) THEN OpenStops(d) ELSE {}

\* Mutant: the trade stays, with no order to wait for.
NeverDeletable(d, o, replacing) == FALSE

\* handle_cancel_enter deletes a trade nothing was ever bought for.
Deletable(d, o, replacing) ==
  /\ OpenRows(d) \subseteq {o}
  /\ SuccessfulEntries(d) = {}
  /\ ~ replacing

\* handle_cancel_enter and handle_cancel_exit for an order fetched as `s`: no
\* request is sent when it is done already, or filled so far that what it
\* leaves could not be exited.
CancelRequested(d, o, s) ==
  /\ s.status = "open"
  /\ IF xo[o].side = "entry"
     THEN s.filled \notin 1 .. MinAmount - 1
     ELSE s.filled = 0 \/ d.trade.amount - s.filled >= MinAmount

\* Mutant: a request that is confirmed means that nothing was bought.
ConfirmedIsUnfilled(c) == c.status = "canceled"

\* `isclose(filled_amount, 0.0)`
Unfilled(c) == c.filled = 0

\* What they do with the result `c` of the request (`c` is `s` when none was
\* sent): the database afterwards, whether it is committed, and the value
\* returned.
HandleCancel(d, o, s, c, replacing) ==
  LET u == UpdateTradeState(d, o, c)
      entry == xo[o].side = "entry"
  IN  CASE s.status = "open" /\ ~ CancelRequested(d, o, s) ->
             [d |-> d, commit |-> FALSE, ok |-> FALSE]
        [] CancelRequested(d, o, s) /\ entry /\ c.status = "open" ->
             [d |-> d, commit |-> FALSE, ok |-> FALSE]
        [] entry /\ c.status # "open" /\ Unfilled(c) /\ Deletable(d, o, replacing) ->
             [d |-> EmptyDb, commit |-> TRUE, ok |-> TRUE]
        [] OTHER -> [d |-> u, commit |-> TRUE,
                     ok |-> IF entry THEN Unfilled(c) ELSE s.status = "open"]

\* replace_order_failed
ReplaceFailed(d) == IF SuccessfulEntries(d) = {} THEN EmptyDb ELSE d

\* Mutant: only orders that are in the database already.
ListedAndKnown == {o \in Known(db) : o >= Min(Known(db))}

\* handle_onexchange_order: the orders the exchange lists since the trade was
\* opened, in the order they were created.
Listed == {o \in Used : o >= Min(Known(db))}

RecoverOrder(d, o) ==
  LET u == UpdateRow(d, o, Snap(o))
  IN  IF CanceledEmpty(Snap(o)) THEN u ELSE UpdateTrade(u, o, ClosesExactly(u, o))

\* All of them become, or update, rows of the trade: the database after those
\* among the first n orders of the exchange, as a set of one element.
Reloaded[n \in 0 .. MaxOrders] ==
  IF n = 0 THEN {db}
  ELSE IF n \in Listed THEN {RecoverOrder(d, n) : d \in Reloaded[n - 1]}
  ELSE Reloaded[n - 1]

CanceledEntries(d) ==
  {o \in Known(d) : /\ xo[o].side = "entry" /\ d.rows[o].filled = 0
                    /\ d.rows[o].status \in {"canceled", "expired"}}

\* A trade that only has entry orders without a fill and no coins is deleted.
Recovered ==
  {IF Open(d) /\ Owned < d.trade.amount /\ CanceledEntries(d) = Known(d) THEN EmptyDb ELSE d :
   d \in Reloaded[MaxOrders]}

\* Its stoploss orders are cancelled if the amount of an open trade has changed.
StopsOfOtherAmount(d) ==
  IF Open(d) /\ d.trade.amount # db.trade.amount THEN OpenStops(d) \cap Known(db) ELSE {}

\* A stoploss order found that way is taken for an exit.
TakenForExit ==
  [o \in Ids |-> IF o \in Listed \ Known(db) /\ xo[o].side = "stoploss"
                 THEN [xo[o] EXCEPT !.side = "exit"] ELSE xo[o]]

(***************************************************************************)
(* Steps every handler is made of.                                         *)
(***************************************************************************)

\* What a handler is up to after its cancellations; `want` is the amount asked
\* for, 0 for all of the trade; `entered`: force exit has fully cancelled an
\* entry order; `refinding`: handle_insufficient_funds is at work.
NoJob == [kind |-> "none", want |-> 0, ready |-> FALSE, entered |-> FALSE, refinding |-> FALSE]

Job(kind, want) == [NoJob EXCEPT !.kind = kind, !.want = want]

ExitKinds  == {"exit", "reexit", "emergency"}
EntryKinds == {"entry", "reentry"}
Kinds      == ExitKinds \cup EntryKinds \cup {"none", "stoploss", "force", "delete"}

NotSent == [id |-> 0, c |-> [status |-> "none", filled |-> 0]]

Quiet == cancels = {} /\ job = NoJob /\ sent = NotSent /\ refind = {}

\* The session gets database d; it is committed or not.
Save(d, commit) == db' = d /\ stored' = IF commit THEN d ELSE stored

\* update_trade_state for order o, seen as c.  It commits twice, the row first:
\* see CrashInUpdate.
Apply(o, c) == Save(UpdateTradeState(db, o, c), TRUE)

\* The job ends without an order; a replacement that fails may take the trade.
JobEnds ==
  /\ job' = NoJob
  /\ IF job.kind \in {"reentry", "reexit"}
     THEN Save(ReplaceFailed(db), ReplaceFailed(db) # db)
     ELSE UNCHANGED <<db, stored>>

\* It ends with an exception: a command's session is dropped uncommitted.
JobFails ==
  IF holder = "rpc" /\ job.kind # "emergency"
  THEN job' = NoJob /\ Save(stored, FALSE)
  ELSE JobEnds

\* cancel_stoploss_on_exchange, one order: a stoploss order that is no longer
\* open makes the request fail, and its row stays as it was.
CancelStop(o) ==
  /\ o \in cancels /\ xo[o].side = "stoploss" /\ job.kind # "delete"
  /\ IF xo[o].status = "open"
     THEN \E r \in CancelResults(o) : xo' = [xo EXCEPT ![o] = r.to] /\ Apply(o, r.c)
     ELSE UNCHANGED <<xo, db, stored>>
  /\ cancels' = cancels \ {o}
  /\ UNCHANGED <<loop, job, sent, refind, crashes>>

\* The stoploss orders execute_trade_exit cancels first.
StopsToCancel(d) == OpenStops(d)

\* One order of cancel_open_orders_of_trade (replacing), or of the loop in
\* __exec_force_exit (not replacing).
CancelOrder(o) ==
  /\ o \in cancels /\ xo[o].side # "stoploss" /\ job.kind # "delete"
  /\ \A p \in cancels : xo[p].side # "stoploss"
  /\ LET s == Snap(o)
         request == CancelRequested(db, o, s)
         results == IF request THEN CancelResults(o) ELSE {[to |-> xo[o], c |-> s]}
     IN  \E r \in results :
           LET h == HandleCancel(db, o, s, r.c, job.kind # "force")
           IN  /\ xo' = [xo EXCEPT ![o] = r.to]
               /\ Save(h.d, h.commit)
               /\ cancels' = ((cancels \ {o}) \cap Known(h.d)) \cup StopsAfterFill(h.d, o, r.c)
               /\ job' = [job EXCEPT !.entered =
                            @ \/ (job.kind = "force" /\ xo[o].side = "entry" /\ h.ok)]
  /\ UNCHANGED <<loop, sent, refind, crashes>>

\* The section after exit_positions, and after the lock is given up.
AfterExits == IF Adjust THEN "toAdjust" ELSE "toEnter"

\* An exception leaves process(): the lock is free, nothing is committed.
IterationAborted == pc' = "toManage" /\ holder' = "free" /\ todo' = {}

\* A request to cancel raises an exchange error.  In manage_open_orders that
\* ends the iteration; a handler of exit_positions, or of a command, is
\* abandoned.
CancelError ==
  /\ "error" \in Answers /\ cancels # {} /\ job.kind # "delete" /\ ~ job.refinding
  /\ cancels' = {} /\ JobFails
  /\ CASE holder = "main" /\ pc = "manage" /\ job = NoJob -> IterationAborted
       [] holder = "main" /\ pc = "signal" -> pc' = AfterExits /\ UNCHANGED <<holder, todo>>
       [] holder = "rpc" /\ job.kind # "emergency" -> todo' = {} /\ UNCHANGED <<pc, holder>>
       [] OTHER -> UNCHANGED <<pc, holder, todo>>
  /\ UNCHANGED <<xo, live, sent, refind, crashes>>

\* The amount execute_trade_exit would sell, by `sub_trade_amt or trade.amount`.
ExitAmount == IF job.want = 0 THEN db.trade.amount ELSE job.want

\* execute_entry and execute_trade_exit come to handle_similar_open_order: what
\* is open is cancelled.  _safe_exit_amount has found the amount in the wallet.
JobReady ==
  /\ job.kind \in ExitKinds \cup EntryKinds /\ ~ job.ready /\ cancels = {}
  /\ job.kind \in ExitKinds => ExitAmount \in 1 .. Owned
  /\ job' = [job EXCEPT !.ready = TRUE,
                        !.want = IF job.kind \in ExitKinds THEN ExitAmount ELSE @]
  /\ cancels' = OpenOrders(db)
  /\ UNCHANGED <<xo, db, stored, loop, sent, refind, crashes>>

\* The wallet does not hold the amount to exit.
JobRefused ==
  /\ job.kind \in ExitKinds /\ ~ job.ready /\ cancels = {}
  /\ ExitAmount \notin 1 .. Owned
  /\ JobFails
  /\ UNCHANGED <<xo, loop, cancels, sent, refind, crashes>>

\* The strategy denies a full exit or an entry, there is no stake, a similar
\* order is open already, or the exchange fails to answer.
JobDropped ==
  /\ job.kind \in ExitKinds \cup EntryKinds /\ ~ job.ready /\ cancels = {}
  /\ \/ (job.kind \in EntryKinds \/ job.want = 0 \/ OpenOrders(db) # {}) /\ JobEnds
     \/ "error" \in Answers /\ JobFails
  /\ UNCHANGED <<xo, loop, cancels, sent, refind, crashes>>

(***************************************************************************)
(* Placing an order and recording it.                                      *)
(***************************************************************************)

NextId == Cardinality(Used) + 1

Side(kind) ==
  CASE kind \in EntryKinds -> "entry" [] kind \in ExitKinds -> "exit" [] OTHER -> "stoploss"

PlacedAmount == IF job.kind = "stoploss" THEN db.trade.amount ELSE job.want

\* The handler is about to call create_order or create_stoploss; the trailing
\* stoploss looks once more whether the trade is open.
Placing ==
  /\ job.ready /\ ~ job.refinding /\ cancels = {} /\ sent = NotSent
  /\ job.kind = "stoploss" => Open(db)

\* The exchange does not let two orders sell the same coins.
Covered == job.kind \in EntryKinds \/ PlacedAmount <= Free

Order(status, filled) ==
  [side |-> Side(job.kind), amount |-> PlacedAmount, filled |-> filled, status |-> status]

\* How a new order may come back: open, or filled at once, or expired with a
\* part filled (time in force).
NewOrders ==
  {Order("open", 0)}
    \cup (IF job.kind = "stoploss" THEN {} ELSE
           {Order("closed", PlacedAmount)} \cup
           (IF "expired" \in Answers
            THEN {Order("expired", f) : f \in 0 .. PlacedAmount - 1} ELSE {}))

Place ==
  /\ Placing /\ Covered /\ NextId <= MaxOrders
  /\ \E x \in NewOrders :
       /\ xo' = [xo EXCEPT ![NextId] = x]
       /\ sent' = [id |-> NextId, c |-> [status |-> x.status, filled |-> x.filled]]
  /\ UNCHANGED <<db, stored, loop, cancels, job, refind, crashes>>

\* InsufficientFundsError: handle_insufficient_funds looks at the open orders.
PlaceUncovered ==
  /\ Placing /\ ~ Covered
  /\ refind' = OpenRows(db)
  /\ job' = [job EXCEPT !.refinding = TRUE]
  /\ UNCHANGED <<xo, db, stored, loop, cancels, sent, crashes>>

\* One of them; an order that cannot be fetched is left as it is.
Refind(o) ==
  /\ o \in refind /\ cancels = {}
  /\ refind' = refind \ {o}
  /\ \/ Apply(o, Snap(o)) /\ cancels' = StopsAfterFill(db', o, Snap(o))
     \/ "error" \in Answers /\ UNCHANGED <<db, stored, cancels>>
  /\ UNCHANGED <<xo, loop, job, sent, crashes>>

\* It also catches what cancelling the stoploss orders raises.
RefindError ==
  /\ "error" \in Answers /\ job.refinding /\ cancels # {}
  /\ cancels' = {}
  /\ UNCHANGED <<xo, db, stored, loop, job, sent, refind, crashes>>

RefindDone ==
  /\ job.refinding /\ refind = {} /\ cancels = {}
  /\ JobEnds
  /\ UNCHANGED <<xo, loop, cancels, sent, refind, crashes>>

\* The request fails, or its answer is lost and the order lives on unknown.  A
\* stoploss order the exchange declares invalid leads to an emergency exit.  At
\* the bound of orders every request fails.
PlaceFails ==
  /\ Placing
  /\ \/ ("error" \in Answers \/ NextId > MaxOrders) /\ xo' = xo
     \/ /\ "lost" \in Answers /\ Covered /\ NextId <= MaxOrders
        /\ xo' = [xo EXCEPT ![NextId] = Order("open", 0)]
  /\ \/ JobFails /\ UNCHANGED cancels
     \/ /\ job.kind = "stoploss" /\ xo' = xo /\ "error" \in Answers
        /\ job' = Job("emergency", 0) /\ cancels' = StopsToCancel(db)
        /\ UNCHANGED <<db, stored>>
  /\ UNCHANGED <<loop, sent, refind, crashes>>

\* A trailing stoploss whose predecessor has filled meanwhile.
StopDropped ==
  /\ job.kind = "stoploss" /\ job.ready /\ ~ job.refinding /\ cancels = {} /\ ~ Open(db)
  /\ job' = NoJob
  /\ UNCHANGED <<xo, db, stored, loop, cancels, sent, refind, crashes>>

\* execute_entry commits the trade with the row of the new order.
EntryRecorded == Recalc([UpdateRow(db, sent.id, sent.c) EXCEPT !.trade.st = "open"])

\* execute_entry with the answer: an order that expired with nothing filled
\* counts as never placed.  Otherwise row and trade are committed, and an order
\* that is done already is processed like a fetched one.
RecordEntry ==
  /\ sent # NotSent /\ job.kind \in EntryKinds
  /\ IF CanceledEmpty(sent.c)
     THEN JobFails /\ UNCHANGED cancels
     ELSE LET d == EntryRecorded
          IN  /\ Save(IF sent.c.status = "open" THEN d
                      ELSE UpdateTradeState(d, sent.id, sent.c), TRUE)
              /\ cancels' = StopsAfterFill(d, sent.id, sent.c)
              /\ job' = NoJob
  /\ sent' = NotSent
  /\ UNCHANGED <<xo, loop, refind, crashes>>

\* execute_trade_exit with the answer.
RecordExit ==
  /\ sent # NotSent /\ job.kind \in ExitKinds
  /\ Save(IF sent.c.status = "open" THEN UpdateRow(db, sent.id, sent.c)
          ELSE UpdateTradeState(db, sent.id, sent.c), TRUE)
  /\ job' = NoJob /\ sent' = NotSent
  /\ UNCHANGED <<xo, loop, cancels, refind, crashes>>

\* create_stoploss_order appends the row; the section commits it.
RecordStop ==
  /\ sent # NotSent /\ job.kind = "stoploss"
  /\ Save(UpdateRow(db, sent.id, sent.c), FALSE)
  /\ job' = NoJob /\ sent' = NotSent
  /\ UNCHANGED <<xo, loop, cancels, refind, crashes>>

(***************************************************************************)
(* The main thread: process().                                             *)
(***************************************************************************)

Sections == {"toManage", "toExits", "toAdjust", "toEnter"}

\* exit_positions: all orders are done, and the wallet holds less than the trade.
CoinsMissing ==
  OpenRows(db) = {} /\ SuccessfulEntries(db) # {} /\ Owned < db.trade.amount

\* It goes on with the stoploss on exchange, or with the signal.
ToTrade(d) ==
  IF OnExchangeStop THEN pc' = "stops" /\ todo' = OpenStops(d) ELSE pc' = "signal" /\ todo' = {}

\* Entries that are done and filled, while none is open.
EntriesSettled(d) ==
  IF \E o \in OpenRows(d) : xo[o].side = "entry" THEN {} ELSE SuccessfulEntries(d)

\* No entry has got beyond its row: the fee of the trade is not known.
FeesDue == Open(db) /\ db.trade.amount = 0 /\ EntriesSettled(db) # {}

\* update_trades_without_assigned_fees, for an open trade whose entry fee is not
\* known, at the head of process(): the last entry is fetched and the trade is
\* updated from it again.
AssignFees ==
  /\ holder = "free" /\ pc = "toManage" /\ Open(db)
  /\ \E o \in EntriesSettled(db) :
       /\ \A p \in EntriesSettled(db) : p <= o
       /\ Apply(o, Snap(o))
  /\ UNCHANGED <<xo, loop, handler, crashes>>

\* The next section takes the lock.  The first three work on open trades only.
\* After a further entry nothing is recovered before its fee is known.
Acquire ==
  /\ holder = "free" /\ pc \in Sections
  /\ pc = "toManage" /\ FeesDue => "error" \in Answers
  /\ holder' = "main" /\ live' = {}
  /\ CASE pc = "toManage" ->
            pc' = "manage" /\ todo' = IF Open(db) THEN OpenOrders(db) ELSE {}
       [] pc = "toExits" /\ Open(db) /\ CoinsMissing ->
            \/ pc' = "recover" /\ todo' = {}
            \/ Cardinality(SuccessfulEntries(db)) > 1 /\ ToTrade(db)
       [] pc = "toExits" /\ Open(db) /\ ~ CoinsMissing -> ToTrade(db)
       [] pc = "toExits" /\ ~ Open(db) -> pc' = AfterExits /\ todo' = {}
       [] pc = "toAdjust" -> pc' = "adjust" /\ todo' = {}
       [] pc = "toEnter" -> pc' = "enter" /\ todo' = {}
  /\ UNCHANGED <<xo, db, stored, handler, crashes>>

\* Mutant: exit_positions is not followed by a commit under the lock.
NoCommit == stored' = stored

\* exit_positions, enter_positions and the commands end with a commit, which
\* process_open_trade_positions and manage_open_orders leave to others.
SectionCommit ==
  stored' = IF holder = "rpc" \/ pc \in {AfterExits, "toManage"} THEN db ELSE stored

Release ==
  /\ holder # "free" /\ Quiet /\ todo \cap Known(db) = {}
  /\ holder = "main" => pc \in Sections
  /\ holder' = "free" /\ todo' = {} /\ live' = {}
  /\ SectionCommit
  /\ UNCHANGED <<xo, db, pc, handler, crashes>>

\* manage_open_orders, one open order: the main thread has the lock and is
\* done with the order before.
Managing(o) ==
  /\ holder = "main" /\ pc = "manage" /\ Quiet
  /\ o \in todo \cap Known(db) /\ todo' = todo \ {o}
  /\ UNCHANGED <<pc, holder, live, sent, refind, crashes>>

\* The order cannot be fetched.
ManageSkip(o) ==
  /\ Managing(o) /\ "error" \in Answers
  /\ UNCHANGED <<xo, db, stored, cancels, job>>

\* The order is still open and is kept, or it is done and something is filled.
ManageUpdate(o) ==
  /\ Managing(o) /\ ~ CanceledEmpty(Snap(o))
  /\ Apply(o, Snap(o))
  /\ cancels' = StopsAfterFill(db', o, Snap(o))
  /\ UNCHANGED <<xo, job>>

\* The order was canceled at the exchange with nothing filled.
ManageCanceled(o) ==
  /\ Managing(o) /\ CanceledEmpty(Snap(o))
  /\ LET h == HandleCancel(UpdateRow(db, o, Snap(o)), o, Snap(o), Snap(o), FALSE)
     IN  Save(h.d, h.commit)
  /\ UNCHANGED <<xo, cancels, job>>

\* handle_cancel_order: exits were canceled exit_timeout_count times.
EmergencyDue(d) == ExitTimeouts > 0 /\ Cardinality(CanceledExits(d)) >= ExitTimeouts

\* handle_cancel_order for an open order, and what its callers do next: `why`
\* is "timeout" (also the command), "drop" when the strategy wants the order
\* gone and "replace" when it wants another one.  `d0` and `s0` are what the
\* session and the database hold before.
CancelOpen(o, why, d0, s0) ==
  LET s == Snap(o)
      results == IF CancelRequested(d0, o, s) THEN CancelResults(o)
                 ELSE {[to |-> xo[o], c |-> s]}
      entry == xo[o].side = "entry"
  IN  \E r \in results :
        LET h == HandleCancel(d0, o, s, r.c, why = "replace")
            d == IF why # "timeout" /\ ~ h.ok THEN ReplaceFailed(h.d) ELSE h.d
            emergency == ~ entry /\ why # "replace" /\ h.ok /\ EmergencyDue(d)
            again == why = "replace" /\ h.ok
        IN  /\ xo' = [xo EXCEPT ![o] = r.to]
            /\ db' = d /\ stored' = IF h.commit \/ d # h.d THEN d ELSE s0
            /\ job' = CASE emergency -> Job("emergency", xo[o].amount)
                        [] again /\ entry -> Job("reentry", xo[o].amount - d.rows[o].filled)
                        [] again /\ ~ entry -> Job("reexit", xo[o].amount - d.rows[o].filled)
                        [] OTHER -> NoJob
            /\ cancels' = StopsAfterFill(d, o, r.c)
                            \cup (IF job'.kind \in ExitKinds THEN StopsToCancel(d) ELSE {})

\* ft_check_timed_out, or replace_order with a new price or with none.
ManageCancel(o, why) ==
  /\ Managing(o) /\ xo[o].status = "open"
  /\ why # "timeout" => Replace
  /\ LET d == UpdateTradeState(db, o, Snap(o)) IN CancelOpen(o, why, d, d)

\* A request to cancel, or to fetch the rate, fails: the iteration is over.
AbortIteration ==
  /\ "error" \in Answers /\ holder = "main" /\ pc = "manage" /\ Quiet /\ todo # {}
  /\ IterationAborted
  /\ UNCHANGED <<xo, db, stored, live, handler, crashes>>

ManageDone ==
  /\ holder = "main" /\ pc = "manage" /\ Quiet /\ todo \cap Known(db) = {}
  /\ pc' = "toExits" /\ todo' = {}
  /\ UNCHANGED <<xo, db, stored, holder, live, handler, crashes>>

\* exit_positions looks for the missing coins in the exchange's list of orders.
Recover ==
  /\ holder = "main" /\ pc = "recover" /\ Quiet
  /\ \E d \in Recovered :
       /\ xo' = TakenForExit /\ Save(d, TRUE) /\ cancels' = StopsOfOtherAmount(d)
       /\ IF Known(d) = {} THEN pc' = AfterExits /\ UNCHANGED todo ELSE ToTrade(d)
  /\ UNCHANGED <<holder, live, job, sent, refind, crashes>>

\* There is no list.
RecoverFails ==
  /\ holder = "main" /\ pc = "recover" /\ Quiet /\ "error" \in Answers
  /\ ToTrade(db)
  /\ UNCHANGED <<xo, db, stored, holder, live, handler, crashes>>

\* exit_positions: handle_stoploss_on_exchange fetches one stoploss order.
StopFetched(o) ==
  /\ holder = "main" /\ pc = "stops" /\ Quiet /\ o \in todo
  /\ Apply(o, Snap(o))
  /\ IF xo[o].status = "closed"
     THEN pc' = AfterExits /\ todo' = {} /\ live' = {}
     ELSE UNCHANGED pc /\ todo' = todo \ {o} /\ live' = live \cup {o}
  /\ UNCHANGED <<xo, holder, handler, crashes>>

\* InvalidOrderException: on to the next; any other error: on to the next trade.
StopNotFetched(o) ==
  /\ holder = "main" /\ pc = "stops" /\ Quiet /\ o \in todo
  /\ "error" \in Answers
  /\ \/ todo' = todo \ {o} /\ UNCHANGED <<pc, live>>
     \/ pc' = AfterExits /\ todo' = {} /\ live' = {}
  /\ UNCHANGED <<xo, db, stored, holder, handler, crashes>>

\* Mutant: orders of the past block the coins as well.
BlockedByAnyOrder == db.trade.amount = 0 \/ ~ Open(db) \/ Known(db) # {}

\* Nothing to protect, or orders that block the coins.
NoStopNeeded == db.trade.amount = 0 \/ ~ Open(db) \/ OpenOrders(db) # {}

\* Then it creates a stoploss order when it saw none, or only canceled ones;
\* with a live one, a trailing stoploss may have to be moved.
StopDecided ==
  /\ holder = "main" /\ pc = "stops" /\ Quiet /\ todo = {}
  /\ pc' = "signal" /\ live' = {}
  /\ LET active == {o \in live : db.rows[o].status # "canceled"}
     IN  CASE NoStopNeeded -> UNCHANGED <<job, cancels>>
           [] ~ NoStopNeeded /\ active = {} ->
                job' = [Job("stoploss", 0) EXCEPT !.ready = TRUE] /\ UNCHANGED cancels
           [] ~ NoStopNeeded /\ active # {} ->
                \/ UNCHANGED <<job, cancels>>
                \/ /\ TrailingStop
                   /\ job' = [Job("stoploss", 0) EXCEPT !.ready = TRUE]
                   /\ cancels' = OpenStops(db)
  /\ UNCHANGED <<xo, db, stored, holder, todo, sent, refind, crashes>>

\* handle_trade: the strategy wants out, or not.
ExitSignal ==
  /\ holder = "main" /\ pc = "signal" /\ Quiet
  /\ pc' = AfterExits
  /\ \/ UNCHANGED <<job, cancels>>
     \/ /\ db.trade.amount > 0 /\ Open(db)
        /\ job' = Job("exit", 0) /\ cancels' = StopsToCancel(db)
  /\ UNCHANGED <<xo, db, stored, holder, todo, live, sent, refind, crashes>>

\* process_open_trade_positions: the strategy buys more, sells a part that
\* leaves enough to be sold later, or does nothing.
AdjustPosition ==
  /\ holder = "main" /\ pc = "adjust" /\ Quiet
  /\ pc' = "toEnter"
  /\ \/ UNCHANGED <<job, cancels>>
     \/ /\ Open(db) /\ (db.trade.amount > 0 \/ OpenOrders(db) # {})
        /\ job' = Job("entry", EntryAmount) /\ UNCHANGED cancels
     \/ /\ Open(db)
        /\ \E k \in 1 .. db.trade.amount :
             /\ k = db.trade.amount \/ db.trade.amount - k >= MinAmount
             /\ job' = Job("exit", k)
        /\ cancels' = StopsToCancel(db)
  /\ UNCHANGED <<xo, db, stored, holder, todo, live, sent, refind, crashes>>

\* create_trade, while there is no trade of the pair.
EnterTrade ==
  /\ holder = "main" /\ pc = "enter" /\ Quiet
  /\ pc' = "toManage"
  /\ \/ UNCHANGED job
     \/ db.trade.st = "none" /\ job' = Job("entry", EntryAmount)
  /\ UNCHANGED <<xo, db, stored, holder, todo, live, cancels, sent, refind, crashes>>

(***************************************************************************)
(* RPC threads.                                                            *)
(***************************************************************************)

\* A command takes the lock between two sections.
Command(name) ==
  /\ name \in Commands /\ holder = "free" /\ pc \in Sections
  /\ holder' = "rpc"
  /\ UNCHANGED <<pc, todo, live, sent, refind, crashes>>

RpcForceExit ==
  /\ Command("exit") /\ Open(db)
  /\ job' = Job("force", 0) /\ cancels' = OpenOrders(db)
  /\ UNCHANGED <<xo, db, stored>>

\* __exec_force_exit after its cancellations.
ForceExitGoesOn ==
  /\ job.kind = "force" /\ cancels = {}
  /\ IF job.entered \/ OpenOrders(db) # {}
     THEN job' = NoJob /\ UNCHANGED cancels
     ELSE /\ \E k \in {0} \cup 1 .. db.trade.amount - 1 :
               /\ k = 0 \/ db.trade.amount - k >= MinAmount
               /\ job' = Job("exit", k)
          /\ cancels' = StopsToCancel(db)
  /\ UNCHANGED <<xo, db, stored, loop, sent, refind, crashes>>

\* _rpc_cancel_open_order visits the open orders one by one, like
\* manage_open_orders.
RpcCancelOpenOrder ==
  /\ "cancel" \in Commands /\ holder = "free" /\ pc \in Sections
  /\ Open(db) /\ OpenOrders(db) # {}
  /\ holder' = "rpc" /\ todo' = OpenOrders(db)
  /\ UNCHANGED <<xo, db, stored, pc, live, handler, crashes>>

RpcVisits(o) ==
  /\ holder = "rpc" /\ Quiet
  /\ o \in todo \cap Known(db) /\ todo' = todo \ {o}
  /\ \/ xo[o].status = "open" /\ CancelOpen(o, "timeout", db, stored)
     \/ /\ xo[o].status # "open"
        /\ LET h == HandleCancel(db, o, Snap(o), Snap(o), FALSE)
           IN  Save(h.d, h.commit) /\ cancels' = StopsAfterFill(h.d, o, Snap(o))
        /\ UNCHANGED <<xo, job>>
  /\ UNCHANGED <<pc, holder, live, sent, refind, crashes>>

\* An order cannot be fetched or cancelled: the command is given up.
RpcVisitFails ==
  /\ "error" \in Answers /\ holder = "rpc" /\ Quiet /\ todo # {}
  /\ todo' = {} /\ Save(stored, FALSE)
  /\ UNCHANGED <<xo, pc, holder, live, handler, crashes>>

\* _rpc_delete: what can be cancelled is, the answers are not looked at.
RpcDelete ==
  /\ Command("delete") /\ db.trade.st # "none"
  /\ job' = Job("delete", 0)
  /\ cancels' = IF OnExchangeStop THEN OpenRows(db) ELSE OpenOrders(db)
  /\ UNCHANGED <<xo, db, stored>>

DeleteCancels(o) ==
  /\ job.kind = "delete" /\ o \in cancels
  /\ cancels' = cancels \ {o}
  /\ xo' \in {[xo EXCEPT ![o] = r.to] : r \in IF xo[o].status = "open" THEN CancelResults(o) ELSE {}}
               \cup (IF xo[o].status # "open" \/ "error" \in Answers THEN {xo} ELSE {})
  /\ UNCHANGED <<db, stored, loop, job, sent, refind, crashes>>

DeleteTrade ==
  /\ job.kind = "delete" /\ cancels = {}
  /\ Save(EmptyDb, TRUE) /\ job' = NoJob
  /\ UNCHANGED <<xo, loop, cancels, sent, refind, crashes>>

\* _rpc_reload_trade_from_exchange, which does without the lock: here it runs
\* between two sections like the others.
RpcReload ==
  /\ "reload" \in Commands /\ holder = "free" /\ pc \in Sections
  /\ holder' = "rpc" /\ db.trade.st # "none"
  /\ \E d \in Recovered :
       xo' = TakenForExit /\ Save(d, TRUE) /\ cancels' = StopsOfOtherAmount(d)
  /\ UNCHANGED <<pc, todo, live, job, sent, refind, crashes>>

(***************************************************************************)
(* Crash and restart.                                                      *)
(***************************************************************************)

Init ==
  /\ xo = [o \in Ids |-> NoOrder]
  /\ db = EmptyDb /\ stored = EmptyDb
  /\ pc = "down" /\ holder = "free" /\ todo = {} /\ live = {}
  /\ cancels = {} /\ job = NoJob /\ sent = NotSent /\ refind = {}
  /\ crashes = 0

\* The process dies; the orders at the exchange live on.
Dies ==
  /\ pc # "down" /\ crashes < Crashes
  /\ crashes' = crashes + 1
  /\ pc' = "down" /\ holder' = "free" /\ todo' = {} /\ live' = {}
  /\ cancels' = {} /\ job' = NoJob /\ sent' = NotSent /\ refind' = {}

Crash == Dies /\ db' = stored /\ UNCHANGED <<xo, stored>>

\* What an order that the exchange does not find at startup is taken for.
Assumed(o) == [status |-> "canceled", filled |-> db.rows[o].filled]

\* Order o is next to be fetched, to be updated or to be cancelled.
Visited(o) ==
  \/ o \in refind /\ cancels = {}
  \/ Quiet /\ o \in todo \cap Known(db)
  \/ /\ o \in cancels /\ xo[o].side # "stoploss" /\ job.kind # "delete"
     /\ \A p \in cancels : xo[p].side # "stoploss"

\* It dies within update_trade_state: Order.update_orders has committed the row of
\* order o, and the trade is as it was.  (That an order gets done while it is
\* visited is a step of the exchange before.)  Of an order with nothing filled
\* only the row is updated; manage_open_orders comes to cancel it after that.
CrashInUpdate(o) ==
  /\ Dies
  /\ \/ /\ Visited(o) /\ xo[o].status # "open"
        /\ xo[o].filled > 0 \/ (pc = "manage" /\ o \in todo)
        /\ db' = UpdateRow(db, o, Snap(o)) /\ UNCHANGED xo
     \/ /\ o \in cancels /\ xo[o].side = "stoploss" /\ xo[o].status = "open" /\ job.kind # "delete"
        /\ \E r \in CancelResults(o) :
             db' = UpdateRow(db, o, r.c) /\ xo' = [xo EXCEPT ![o] = r.to]
     \/ /\ o = sent.id /\ sent.c.status # "open" /\ ~ CanceledEmpty(sent.c)
        /\ \/ job.kind \in ExitKinds /\ db' = UpdateRow(db, o, sent.c)
           \/ job.kind \in EntryKinds /\ db' = EntryRecorded
        /\ UNCHANGED xo
     \/ /\ "unknown" \in Answers /\ pc = "startup" /\ Quiet /\ o \in todo /\ db.rows[o].filled > 0
        /\ db' = UpdateRow(db, o, Assumed(o)) /\ UNCHANGED xo
  /\ stored' = db'

\* It dies within handle_onexchange_order, which commits what it finds order by
\* order, and each row before the trade.
CrashInRecovery ==
  /\ Dies
  /\ \/ holder = "main" /\ pc = "recover" /\ Quiet
     \/ "reload" \in Commands /\ holder = "free" /\ pc \in Sections /\ db.trade.st # "none"
  /\ \E n \in Listed :
       \E d \in Reloaded[n - 1] : db' \in {UpdateRow(d, n, Snap(n)), RecoverOrder(d, n)}
  /\ xo' = TakenForExit /\ stored' = db'

\* startup_update_open_orders runs before the first iteration.  It takes no
\* lock; that commands are served meanwhile is left out.
Start ==
  /\ pc = "down"
  /\ pc' = "startup" /\ holder' = "main" /\ todo' = OpenRows(db)
  /\ UNCHANGED <<xo, db, stored, live, handler, crashes>>

Starting(o) ==
  /\ pc = "startup" /\ Quiet
  /\ o \in todo \cap Known(db) /\ todo' = todo \ {o}
  /\ UNCHANGED <<xo, pc, holder, live, job, sent, refind, crashes>>

StartupUpdate(o) ==
  /\ Starting(o)
  /\ Apply(o, Snap(o))
  /\ cancels' = StopsAfterFill(db', o, Snap(o))

StartupSkip(o) ==
  /\ Starting(o) /\ "error" \in Answers
  /\ UNCHANGED <<db, stored, cancels>>

\* InvalidOrderException: the test for an age of five days holds for every
\* order, so that the order is handled as if it had been canceled.
StartupUnknown(o) ==
  /\ Starting(o) /\ "unknown" \in Answers
  /\ LET s == Assumed(o)
         h == HandleCancel(db, o, s, s, FALSE)
     IN  Save(h.d, h.commit) /\ cancels' = StopsAfterFill(h.d, o, s)

StartupDone ==
  /\ pc = "startup" /\ Quiet /\ todo \cap Known(db) = {}
  /\ pc' = "toManage" /\ holder' = "free" /\ todo' = {}
  /\ UNCHANGED <<xo, db, stored, live, handler, crashes>>

(***************************************************************************)
(* Specification.                                                          *)
(***************************************************************************)

Exchange == \E o \in Ids : ExchangeFills(o) \/ ExchangeCancels(o)

Handler ==
  \/ \E o \in Ids :
       CancelStop(o) \/ CancelOrder(o) \/ DeleteCancels(o) \/ Refind(o) \/ RpcVisits(o)
  \/ RpcVisitFails
  \/ CancelError
  \/ JobReady
  \/ JobRefused
  \/ JobDropped
  \/ Place
  \/ PlaceUncovered
  \/ RefindError
  \/ RefindDone
  \/ PlaceFails
  \/ StopDropped
  \/ RecordEntry
  \/ RecordExit
  \/ RecordStop
  \/ ForceExitGoesOn
  \/ DeleteTrade

MainThread ==
  \/ AssignFees
  \/ Acquire
  \/ Release
  \/ \E o \in Ids : ManageSkip(o) \/ ManageUpdate(o) \/ ManageCanceled(o)
  \/ \E o \in Ids, why \in {"timeout", "drop", "replace"} : ManageCancel(o, why)
  \/ AbortIteration
  \/ ManageDone
  \/ Recover
  \/ RecoverFails
  \/ \E o \in Ids : StopFetched(o) \/ StopNotFetched(o)
  \/ StopDecided
  \/ ExitSignal
  \/ AdjustPosition
  \/ EnterTrade
  \/ Start
  \/ \E o \in Ids : StartupUpdate(o) \/ StartupSkip(o) \/ StartupUnknown(o)
  \/ StartupDone

RpcThread ==
  \/ RpcForceExit
  \/ RpcCancelOpenOrder
  \/ RpcDelete
  \/ RpcReload

Dying == Crash \/ (\E o \in Ids : CrashInUpdate(o)) \/ CrashInRecovery

Next == Exchange \/ Handler \/ MainThread \/ RpcThread \/ Dying

Spec == Init /\ [][Next]_vars

\* Both loops of the bot are ordinary code that goes on.  Nothing obliges the
\* exchange to fill an order, the strategy to trade or the user to send a
\* command; without "error" in Answers the exchange does answer requests.
FairSpec == Spec /\ WF_vars(MainThread) /\ WF_vars(Handler)

(***************************************************************************)
(* Properties.                                                             *)
(***************************************************************************)

Orders == [Ids -> [side : Sides \cup {"none"}, amount : Nat, filled : Nat,
                   status : Status \cup {"none"}]]

Databases == [rows  : [Ids -> [known : BOOLEAN, open : BOOLEAN,
                               status : Status \cup {"none"}, filled : Nat]],
              trade : [st : {"none", "open", "closed"}, amount : Nat]]

\* Every variable ranges over the values the code gives it.
TypeOK ==
  /\ xo \in Orders
  /\ db \in Databases /\ stored \in Databases
  /\ pc \in Sections \cup {"down", "startup", "manage", "recover", "stops", "signal", "adjust", "enter"}
  /\ holder \in {"free", "main", "rpc"}
  /\ todo \subseteq Ids /\ live \subseteq Ids /\ cancels \subseteq Ids /\ refind \subseteq Ids
  /\ job \in [kind : Kinds, want : Nat, ready : BOOLEAN, entered : BOOLEAN, refinding : BOOLEAN]
  /\ sent \in [id : Ids \cup {0}, c : [status : Status \cup {"none"}, filled : Nat]]
  /\ crashes \in 0 .. Crashes

\* No thread works on the trade.
Idle == holder = "free" /\ pc \in Sections

\* What the exchange has traded for the orders in a set.
Traded(orders) == MapThenSumSet(LAMBDA o : Sign(xo[o].side) * xo[o].filled, orders)

\* A row that is no longer open says what became of the order: nothing is
\* traded after the bot stopped looking at it, whatever filled while requests to
\* cancel, restarts and lost answers were under way.
ClosedRowsAreFinal ==
  \A o \in Known(db) \ OpenRows(db) :
    xo[o].status # "open" /\ db.rows[o].filled = xo[o].filled

\* What the bot believes to own is what its finished orders have traded,
\* whenever that is more than nothing: no fill is left out and none counts twice.
\* A crash within an update may leave one out: see AmountIsOwnedAfterExits.
AmountIsNet ==
  Idle /\ crashes = 0 /\ Open(db) /\ Net(db) > 0 => db.trade.amount = Net(db)

\* docs/trade-object.md on `amount`: "Amount in Asset / Base currency that is
\* currently owned."
AmountIsOwned ==
  Idle /\ Open(db) /\ OpenRows(db) = {} => db.trade.amount = Traded(Known(db))

\* The same once manage_open_orders and exit_positions have seen the trade.
AmountIsOwnedAfterExits == pc = "toEnter" => AmountIsOwned

\* An order that is open at the exchange while the bot is idle is a row the bot
\* will look at again: open in the database, and of an open trade.
NoOrderForgotten ==
  Idle => \A o \in Used : xo[o].status = "open" => o \in OpenRows(stored) /\ Open(stored)

\* Between two handlers every order row is committed: a crash can only lose an
\* order of the handler it interrupts.
CommittedWhenIdle == Idle => Known(db) = Known(stored) /\ db.trade.st = stored.trade.st

\* A trade that is open while the bot is idle has something to wait for or to
\* sell: one without would block a slot for good.
NoEmptyTrade == Idle /\ Open(db) => OpenOrders(db) # {} \/ SuccessfulEntries(db) # {}

\* A trade is closed when the coins it bought are sold: what is left of it at
\* the exchange is nothing.
ClosedIsSold == Idle /\ db.trade.st = "closed" => Traded(Known(db)) <= 0

\* The bot itself removes a trade only if no order of it has traded anything.
RemovedIsEmpty ==
  [][ Open(db) /\ db'.trade.st = "none" /\ pc' # "down" /\ job.kind # "delete"
        => \A o \in Known(db) : xo'[o].filled = 0 ]_vars

\* Several orders have sold a part each.
SoldInParts == \E o, p \in Used : o # p /\ {xo[o].side, xo[p].side} \cap {"entry"} = {}
                                     /\ xo[o].filled > 0 /\ xo[p].filled > 0

\* Coins that are sold do not stay in an open trade: once no order is open at
\* the exchange and all that was bought is sold, the trade gets closed, by
\* whichever section of process() comes to see the last fill, although the
\* process died in between, even within the update that would have closed it.
\* Not so when it died with the coins sold in parts: none of them is all of the
\* trade then, which is what recovery looks for.
SoldTradeCloses ==
  (/\ Open(db) /\ SuccessfulEntries(db) # {} /\ Owned = Spare
   /\ \A o \in Used : xo[o].status # "open")
  ~> (\/ ~ Open(db) \/ (crashes > 0 /\ SoldInParts)
      \/ \E o \in Used : xo[o].status = "open" /\ xo[o].side = "entry")

\* With stoploss_on_exchange a position does not stay unprotected: the bot
\* places a stoploss order, unless another order blocks the coins or the trade
\* ends.
PositionGetsStop ==
  (OnExchangeStop /\ Open(db) /\ Net(db) > 0 /\ OpenOrders(db) = {})
  ~> (\/ OpenRows(db) # {} \/ ~ Open(db) \/ NextId > MaxOrders
      \/ \E o \in Used \ OpenRows(db) : xo[o].status = "open")

(***************************************************************************)
(* What comments, messages and docs say, and the code does not do.         *)
(***************************************************************************)

\* Trade.close logs that the trade "is fulfilled and found no open orders for
\* it".  A stoploss that is hit closes the trade while an entry order of a
\* position adjustment is open.
ClosedHasNoOpenOrders ==
  [][ Open(db) /\ db'.trade.st = "closed"
        => \A o \in OpenRows(db') : xo'[o].status # "open" ]_vars

\* handle_replace_order: "if the cancel is successful, places a new order with
\* the remaining capital".  An exit that filled before the cancellation has
\* nothing remaining, which execute_trade_exit reads as all of the trade.
ReplacementIsRemaining ==
  [][ job.kind = "reexit" /\ job'.kind = "reexit" => job'.want = job.want ]_vars

\* update_trade_state on an order that was canceled unfilled: "Handling of this
\* will happen in handle_cancel_order."  startup_update_open_orders does not call
\* it, and no later section looks at an order that is not open.
CanceledEntryIsHandled ==
  Idle /\ Open(db) /\ OpenRows(db) = {} => SuccessfulEntries(db) # {}

\* startup_update_open_orders: "Order is older than 5 days. Assuming order was
\* fully cancelled."  No order of this model is that old.
YoungOrdersStayOpen ==
  [][ pc = "startup" =>
        \A o \in OpenRows(db) : xo'[o].status = "open" => o \in OpenRows(db') ]_vars

\* Trade.update_trade: "When recalculating a trade, only coming out to 0 can
\* force a close".  Recalculating goes over all orders again, and an earlier exit
\* of just as much as is left now closes the trade, whose coins are still there.
RecalculatingClosesAtZero ==
  [][ Open(db) /\ db'.trade.st = "closed" /\ sent = NotSent /\ cancels = {} /\ todo = {}
      /\ (pc = "recover" \/ holder = "free")
        => Net(db)' <= 0 ]_vars
=============================================================================
