----------------------------- MODULE EntrySlots -----------------------------
(***************************************************************************)
(* How trades come to be opened: the main thread's process(), which looks  *)
(* for entries pair by pair, against RPC threads that force entries, force *)
(* exits, reload or delete trades and pause the bot.                       *)
(*                                                                         *)
(* Every thread reads the database freely; `_exit_lock` is held around     *)
(* what places orders.  The question of this module is which reads happen  *)
(* under the lock and which before it.  A trade is its row: order-level    *)
(* detail is the subject of TradeOrders.                                   *)
(***************************************************************************)
EXTENDS Naturals, FiniteSets

CONSTANTS
  Pairs,               \* the pairs of the whitelist
  Clients,             \* RPC threads (Telegram, REST requests)
  MaxOpenTrades,       \* config["max_open_trades"], not -1
  PositionAdjustment,  \* strategy.position_adjustment_enable
  MaxTrades            \* bound: trades ever created in a behaviour

ASSUME SlotsAssumption ==
  /\ IsFiniteSet(Clients)
  /\ Clients \cap {"free", "main"} = {}
  /\ MaxOpenTrades \in Nat
  /\ PositionAdjustment \in BOOLEAN
  /\ MaxTrades \in Nat

VARIABLES
  botState,  \* FreqtradeBot.state
  open,      \* rows of the trades table with is_open
  nextId,    \* next autoincrement trade id
  lock,      \* holder of _exit_lock
  mpc,       \* where the main thread is inside process()
  todo,      \* enter_positions' whitelist, less the pairs already tried
  cur,       \* pair create_trade works on
  cpc,       \* where each RPC thread is inside _rpc_force_entry
  req,       \* pair each RPC thread was asked to enter
  snap       \* `trade` local of _rpc_force_entry, read before the lock

vars == <<botState, open, nextId, lock, mpc, todo, cur, cpc, req, snap>>

mainVars   == <<mpc, todo, cur>>
clientVars == <<cpc, req, snap>>

NoTrade == [id |-> 0, pair |-> "none", by |-> "none"]

\* A row of the trades table; `by` is history: the thread that created it.
Trade == [id : Nat, pair : Pairs, by : {"main", "rpc"}]

MainPc   == {"idle", "wantExits", "exits", "gate", "list", "loop", "create", "placed"}
ClientPc == {"idle", "lookup", "count", "wantLock", "placing", "placed"}

OpenOn(p) == {t \in open : t.pair = p}

\* Trade.get_open_trade_count()
OpenTradeCount == Cardinality(open)

\* get_free_open_trades() > 0
FreeSlot == OpenTradeCount < MaxOpenTrades

Init ==
  /\ botState = "RUNNING"
  /\ open = {}
  /\ nextId = 1
  /\ lock = "free"
  /\ mpc = "idle" /\ todo = {} /\ cur = "none"
  /\ cpc = [c \in Clients |-> "idle"]
  /\ req = [c \in Clients |-> "none"]
  /\ snap = [c \in Clients |-> NoTrade]

(***************************************************************************)
(* The database.                                                           *)
(***************************************************************************)

\* Mutant: the local that holds the pair is reset before the row is made.
InsertTradeUnnamed(p, who) ==
  /\ open' = open \cup {[id |-> nextId, pair |-> "none", by |-> who]}
  /\ nextId' = nextId + 1

\* Trade.session.add and commit of a new trade.
InsertTrade(p, who) ==
  /\ open' = open \cup {[id |-> nextId, pair |-> p, by |-> who]}
  /\ nextId' = nextId + 1

\* The trade is closed or deleted; nothing in this module tells one from the
\* other, a row that is not open is never read again.
EndTrade(t) == open' = open \ {t}

(***************************************************************************)
(* The main thread: process().                                             *)
(***************************************************************************)

MainBegin ==
  /\ mpc = "idle" /\ botState \in {"RUNNING", "PAUSED"}
  /\ mpc' = "wantExits"
  /\ UNCHANGED <<botState, open, nextId, lock, todo, cur, clientVars>>

\* manage_open_orders, exit_positions and process_open_trade_positions run
\* one after the other, each under the lock; any of them may end a trade: its
\* exit filled, or its entry timed out unfilled.
MainAcquireExits ==
  /\ mpc = "wantExits" /\ lock = "free"
  /\ lock' = "main" /\ mpc' = "exits"
  /\ UNCHANGED <<botState, open, nextId, todo, cur, clientVars>>

MainEndsTrade(t) ==
  /\ mpc = "exits" /\ t \in open
  /\ EndTrade(t)
  /\ UNCHANGED <<botState, nextId, lock, mainVars, clientVars>>

MainReleaseExits ==
  /\ mpc = "exits"
  /\ lock' = "free" /\ mpc' = "gate"
  /\ UNCHANGED <<botState, open, nextId, todo, cur, clientVars>>

\* `if self.state == State.RUNNING and self.get_free_open_trades()`
MainGate ==
  /\ mpc = "gate"
  /\ mpc' = IF botState = "RUNNING" /\ FreeSlot THEN "list" ELSE "idle"
  /\ UNCHANGED <<botState, open, nextId, lock, todo, cur, clientVars>>

\* Mutant: the whitelist is not filtered by the open trades.
AllPairs == Pairs

\* The whitelist without the pairs of the trades that are open now.
Whitelist == {p \in Pairs : OpenOn(p) = {}}

\* enter_positions: filter the whitelist; a global pair lock ends it here.
MainWhitelist ==
  /\ mpc = "list"
  /\ todo' \in {Whitelist, {}}
  /\ mpc' = "loop"
  /\ UNCHANGED <<botState, open, nextId, lock, cur, clientVars>>

\* `with self._exit_lock:` of the main thread's entry loop.
WithLock == lock = "free" /\ lock' = "main"

MainAcquire(p) ==
  /\ mpc = "loop" /\ p \in todo
  /\ WithLock
  /\ todo' = todo \ {p} /\ cur' = p
  /\ mpc' = "create"
  /\ UNCHANGED <<botState, open, nextId, clientVars>>

\* Mutant: create_trade relies on the check made before enter_positions.
SlotCheckedEarlier == TRUE

\* create_trade looks at the free slots again, now under the lock.
SlotCheck == FreeSlot

\* create_trade has a signal, the pair is not locked, the strategy confirms:
\* execute_entry has the exchange create the order.
MainPlace ==
  /\ mpc = "create" /\ SlotCheck
  /\ nextId <= MaxTrades
  /\ mpc' = "placed"
  /\ UNCHANGED <<botState, open, nextId, lock, todo, cur, clientVars>>

\* execute_entry commits the new trade and create_trade returns.
MainCommit ==
  /\ mpc = "placed"
  /\ InsertTrade(cur, "main")
  /\ lock' = "free" /\ mpc' = "loop" /\ cur' = "none"
  /\ UNCHANGED <<botState, todo, clientVars>>

\* No signal, a locked pair, no free slot, an entry denied, or an exception
\* before or after the order was created: no trade, next pair.
MainSkip ==
  /\ mpc \in {"create", "placed"}
  /\ lock' = "free" /\ mpc' = "loop" /\ cur' = "none"
  /\ UNCHANGED <<botState, open, nextId, todo, clientVars>>

MainEnd ==
  /\ mpc = "loop" /\ todo = {}
  /\ mpc' = "idle"
  /\ UNCHANGED <<botState, open, nextId, lock, todo, cur, clientVars>>

(***************************************************************************)
(* RPC threads: _rpc_force_entry.                                          *)
(***************************************************************************)

\* The handler returns or raises: its locals are gone.
FeLeave(c) ==
  /\ cpc' = [cpc EXCEPT ![c] = "idle"]
  /\ req' = [req EXCEPT ![c] = "none"]
  /\ snap' = [snap EXCEPT ![c] = NoTrade]

\* _force_entry_validations: the bot must be running.
FeValidate(c, p) ==
  /\ cpc[c] = "idle" /\ botState = "RUNNING"
  /\ cpc' = [cpc EXCEPT ![c] = "lookup"]
  /\ req' = [req EXCEPT ![c] = p]
  /\ UNCHANGED <<botState, open, nextId, lock, mainVars, snap>>

\* The pair has no open trade: the slots are counted next.
FeLookupNone(c) ==
  /\ cpc[c] = "lookup" /\ OpenOn(req[c]) = {}
  /\ cpc' = [cpc EXCEPT ![c] = "count"]
  /\ UNCHANGED <<botState, open, nextId, lock, mainVars, req, snap>>

\* The pair has an open trade without open orders and positions may be
\* adjusted: the first such trade is kept in the local `trade`.
FeLookupTrade(c) ==
  /\ cpc[c] = "lookup" /\ PositionAdjustment
  /\ \E t \in OpenOn(req[c]) :
       /\ \A u \in OpenOn(req[c]) : t.id <= u.id
       /\ snap' = [snap EXCEPT ![c] = t]
  /\ cpc' = [cpc EXCEPT ![c] = "wantLock"]
  /\ UNCHANGED <<botState, open, nextId, lock, mainVars, req>>

\* "position for {pair} already open", with or without open orders.
FeLookupRefused(c) ==
  /\ cpc[c] = "lookup" /\ OpenOn(req[c]) # {}
  /\ FeLeave(c)
  /\ UNCHANGED <<botState, open, nextId, lock, mainVars>>

\* Mutant: only the main thread counts the open trades.
ForceEntryIgnoresLimit == FALSE

\* `Trade.get_open_trade_count() >= self._config["max_open_trades"]`
RefusedAtLimit == OpenTradeCount >= MaxOpenTrades

FeCount(c) ==
  /\ cpc[c] = "count" /\ ~ RefusedAtLimit
  /\ cpc' = [cpc EXCEPT ![c] = "wantLock"]
  /\ UNCHANGED <<botState, open, nextId, lock, mainVars, req, snap>>

\* "Maximum number of trades is reached."
FeCountRefused(c) ==
  /\ cpc[c] = "count" /\ RefusedAtLimit
  /\ FeLeave(c)
  /\ UNCHANGED <<botState, open, nextId, lock, mainVars>>

FeAcquire(c) ==
  /\ cpc[c] = "wantLock" /\ lock = "free"
  /\ lock' = c
  /\ cpc' = [cpc EXCEPT ![c] = "placing"]
  /\ UNCHANGED <<botState, open, nextId, mainVars, req, snap>>

\* execute_entry: the order is created; nothing of what was read is checked
\* again, neither the slots nor that the trade it will belong to is still open.
FePlace(c) ==
  /\ cpc[c] = "placing"
  /\ nextId <= MaxTrades
  /\ cpc' = [cpc EXCEPT ![c] = "placed"]
  /\ UNCHANGED <<botState, open, nextId, lock, mainVars, req, snap>>

\* The commit: a new trade, or one more order of the trade looked up before
\* (its session still holds it as open, so `is_open = True` writes nothing).
FeCommit(c) ==
  /\ cpc[c] = "placed"
  /\ IF snap[c] = NoTrade THEN InsertTrade(req[c], "rpc") ELSE UNCHANGED <<open, nextId>>
  /\ lock' = "free"
  /\ FeLeave(c)
  /\ UNCHANGED <<botState, mainVars>>

\* execute_entry returns False or raises.
FeFail(c) ==
  /\ cpc[c] \in {"placing", "placed"}
  /\ lock' = "free"
  /\ FeLeave(c)
  /\ UNCHANGED <<botState, open, nextId, mainVars>>

(***************************************************************************)
(* RPC threads: the other commands.  Force exit, cancelling an open order  *)
(* and delete query and act under the lock; reloading a trade from the     *)
(* exchange takes no lock.                                                 *)
(***************************************************************************)

RpcEndsTrade(c, t) ==
  /\ cpc[c] = "idle" /\ lock = "free" /\ t \in open
  /\ EndTrade(t)
  /\ UNCHANGED <<botState, nextId, lock, mainVars, clientVars>>

RpcReloadTrade(c, t) ==
  /\ cpc[c] = "idle" /\ t \in open
  /\ EndTrade(t)
  /\ UNCHANGED <<botState, nextId, lock, mainVars, clientVars>>

\* /start, /pause, /stop
RpcSetState(c, s) ==
  /\ cpc[c] = "idle"
  /\ botState # s /\ botState' = s
  /\ UNCHANGED <<open, nextId, lock, mainVars, clientVars>>

(***************************************************************************)
(* Specification.                                                          *)
(***************************************************************************)

MainThread ==
  \/ MainBegin
  \/ MainAcquireExits
  \/ \E t \in open : MainEndsTrade(t)
  \/ MainReleaseExits
  \/ MainGate
  \/ MainWhitelist
  \/ \E p \in Pairs : MainAcquire(p)
  \/ MainPlace
  \/ MainCommit
  \/ MainSkip
  \/ MainEnd

RpcThread(c) ==
  \/ \E p \in Pairs : FeValidate(c, p)
  \/ FeLookupNone(c)
  \/ FeLookupTrade(c)
  \/ FeLookupRefused(c)
  \/ FeCount(c)
  \/ FeCountRefused(c)
  \/ FeAcquire(c)
  \/ FePlace(c)
  \/ FeCommit(c)
  \/ FeFail(c)
  \/ \E t \in open : RpcEndsTrade(c, t)
  \/ \E t \in open : RpcReloadTrade(c, t)
  \/ \E s \in {"RUNNING", "PAUSED", "STOPPED"} : RpcSetState(c, s)

Next == MainThread \/ \E c \in Clients : RpcThread(c)

Spec == Init /\ [][Next]_vars

(***************************************************************************)
(* Properties.                                                             *)
(***************************************************************************)

\* Every variable ranges over the values the code gives it.
TypeOK ==
  /\ botState \in {"RUNNING", "PAUSED", "STOPPED"}
  /\ open \subseteq Trade /\ IsFiniteSet(open)
  /\ nextId \in Nat
  /\ lock \in Clients \cup {"free", "main"}
  /\ mpc \in MainPc
  /\ todo \subseteq Pairs /\ cur \in Pairs \cup {"none"}
  /\ cpc \in [Clients -> ClientPc]
  /\ req \in [Clients -> Pairs \cup {"none"}]
  /\ snap \in [Clients -> Trade \cup {NoTrade}]

\* RPC threads that passed the slot check and have not committed yet.
Inflight ==
  {c \in Clients : cpc[c] \in {"wantLock", "placing", "placed"} /\ snap[c] = NoTrade}

\* How far the limit of open trades can be exceeded: force entries are counted
\* before the lock is taken, so each RPC thread can be one trade too late, and
\* none can be two; the main thread never adds to the excess.
OpenTradesBounded == OpenTradeCount <= MaxOpenTrades + Cardinality(Clients)

\* With as many slots more as there are RPC threads, max_open_trades is kept at
\* every step: trades come one at a time, and only while a slot is left.
Open == INSTANCE Slots WITH Limit <- MaxOpenTrades + Cardinality(Clients), held <- open

KeepsSlots == Open!Spec

\* A trade the main thread creates never exceeds the limit, whatever the RPC
\* threads did since process() looked at the free slots: the second look is
\* taken under the lock and the lock is kept until the commit.
MainCommitsWithinLimit ==
  [][ mpc = "placed" /\ open' # open /\ nextId' # nextId
        => Cardinality(open') <= MaxOpenTrades ]_vars

\* The main thread never opens a second trade for a pair it has a trade on,
\* although the whitelist is filtered once and the lock is released between
\* the pairs: two open trades of one pair involve a forced entry.
MainNeverDuplicates ==
  \A t, u \in open : t.pair = u.pair /\ t.by = "main" /\ u.by = "main" => t = u

\* docs/configuration.md on max_open_trades: "Only one open trade per pair is
\* possible".  _rpc_force_entry looks for the pair's trade without the lock,
\* and create_trade does not look for it under the lock.
OneTradePerPair == \A t, u \in open : t.pair = u.pair => t = u
=============================================================================
