------------------------------ MODULE PairLocks ------------------------------
(***************************************************************************)
(* The pair locks of a live bot: rows of the table pairlocks, written when *)
(* a trade closes (the automatic lock, then what the protections ask for), *)
(* by the strategy and by the RPC threads, and read before an entry.  A    *)
(* stoploss that is found filled while the bot does something else closes  *)
(* its trade without them.                                                 *)
(*                                                                         *)
(* Time is counted in ticks, a candle is Timeframe of them, and a candle   *)
(* is named by its start.  Whether a protection triggers, and until when,  *)
(* is a choice.  One trade per pair.                                       *)
(***************************************************************************)
EXTENDS Integers, FiniteSets

CONSTANTS
  Pairs,
  Timeframe,     \* ticks of a candle
  Durations,     \* how long locks are asked for, in ticks
  Reasons,       \* reasons a strategy may give
  MaxLocks,      \* bound: rows of the table
  MaxTime        \* bound: the last tick

ASSUME PairLocksAssumption ==
  /\ Timeframe \in Nat \ {0} /\ Durations \subseteq Nat
  /\ MaxLocks \in Nat /\ MaxTime \in Nat
  /\ "*" \notin Pairs

VARIABLES
  now,
  rows,        \* the table pairlocks
  trade,       \* side of the open trade of a pair, or "none"
  data,        \* the last candle of the analyzed dataframe of a pair
  closing,     \* the trade handle_protections works for: pair, side and step
  exits,       \* history: when a pair and side exited last, locks set since
  verdicts     \* history: what protections asked for and nobody lifted

vars == <<now, rows, trade, data, closing, exits, verdicts>>

Sides    == {"long", "short"}
LockSide == Sides \cup {"*"}
Never    == -1
Idle     == [step |-> "idle"]
AutoLock == "Auto lock"
Protection == "protection"

\* timeframe_to_next_date: the start of a candle is rounded up as well.
NextDate(t) == (t \div Timeframe + 1) * Timeframe

LastClosed(t) == (t \div Timeframe - 1) * Timeframe

Init ==
  /\ now = Timeframe
  /\ rows = {}
  /\ trade = [p \in Pairs |-> "none"]
  /\ data = [p \in Pairs |-> LastClosed(now)]
  /\ closing = Idle
  /\ exits = [p \in Pairs |-> [s \in Sides |-> Never]]
  /\ verdicts = {}

-----------------------------------------------------------------------------
(* PairLocks *)

\* A query for "*" finds the locks of both sides only.
Covers(lockSide, side) == lockSide \in {"*", side}

\* query_pair_locks
Locks(pair, t, side) ==
  {r \in rows : r.active /\ r.end > t /\ r.pair = pair /\ Covers(r.side, side)}

IsGlobalLock(t, side) == Locks("*", t, side) # {}
IsPairLocked(pair, t, side) == Locks(pair, t, side) # {} \/ IsGlobalLock(t, side)

\* lock_pair
Locked(pair, until, side, reason) ==
  rows \cup {[id |-> Cardinality(rows) + 1, pair |-> pair, side |-> side,
              end |-> NextDate(until), reason |-> reason, active |-> TRUE]}

Room == Cardinality(rows) < MaxLocks

\* What releasing the rows rs takes back: protections they stand for, or that
\* set no lock of their own because these were there.
Lift(rs) ==
  /\ verdicts' = {v \in verdicts : \A r \in rs :
                    ~(r.pair \in {v.pair, "*"} /\ r.side \in {v.side, "*"})}
  /\ exits' = [p \in Pairs |-> [s \in Sides |->
                 IF \E r \in rs : r.pair \in {p, "*"} /\ r.side \in {s, "*"}
                 THEN Never ELSE exits[p][s]]]

Release(rs) ==
  /\ rows' = (rows \ rs) \cup {[r EXCEPT !.active = FALSE] : r \in rs}
  /\ Lift(rs)

-----------------------------------------------------------------------------
(* The main thread *)

\* Mutant: the lock is checked against the clock.
ClockTime(pair) == now

\* is_pair_locked of the strategy: until the candle after the signal's begins
SignalTime(pair) == NextDate(data[pair])

\* enter_positions and create_trade
Enter(pair, side) ==
  /\ closing = Idle
  /\ trade[pair] = "none"
  /\ ~IsGlobalLock(now, "*")
  /\ ~IsPairLocked(pair, SignalTime(pair), side)
  /\ trade' = [trade EXCEPT ![pair] = side]
  /\ UNCHANGED <<now, rows, data, closing, exits, verdicts>>

SideOf(pair) == trade[pair]

\* An exit order is found filled, or handle_stoploss_on_exchange finds the
\* stoploss filled; Trade.commit has stored it.
Exit(pair) ==
  /\ closing = Idle
  /\ trade[pair] # "none"
  /\ closing' = [step |-> "auto", pair |-> pair, side |-> SideOf(pair)]
  /\ exits' = [exits EXCEPT ![pair][trade[pair]] = now]
  /\ trade' = [trade EXCEPT ![pair] = "none"]
  /\ UNCHANGED <<now, rows, data, verdicts>>

\* cancel_stoploss_on_exchange, startup_update_open_orders or
\* handle_insufficient_funds finds the stoploss filled: it is no order of the
\* exit side, and order_close_notify does not call handle_protections.
StopFound(pair) ==
  /\ closing = Idle
  /\ trade[pair] # "none"
  /\ trade' = [trade EXCEPT ![pair] = "none"]
  /\ UNCHANGED <<now, rows, data, closing, exits, verdicts>>

\* handle_protections
SetAutoLock ==
  /\ closing.step = "auto" /\ Room
  /\ rows' = Locked(closing.pair, now, closing.side, AutoLock)
  /\ closing' = [closing EXCEPT !.step = "pair"]
  /\ UNCHANGED <<now, trade, data, exits, verdicts>>

\* Mutant: a lock that is there now is enough.
LockedByNow(pair, until, side) == IsPairLocked(pair, now, side)

LockedBy(pair, until, side) == IsPairLocked(pair, until, side)

Triggered(pair, until, side) ==
  verdicts' = verdicts \cup {[pair |-> pair, side |-> side, until |-> until]}

\* One handler stops the pair (stop_per_pair)
StopPair(until, side) ==
  /\ closing.step = "pair" /\ Room
  /\ side \in {"*", closing.side}
  /\ rows' = IF LockedBy(closing.pair, until, side) THEN rows
             ELSE Locked(closing.pair, until, side, Protection)
  /\ Triggered(closing.pair, until, side)
  /\ UNCHANGED <<now, trade, data, closing, exits>>

PairsDone ==
  /\ closing.step = "pair"
  /\ closing' = [closing EXCEPT !.step = "global"]
  /\ UNCHANGED <<now, rows, trade, data, exits, verdicts>>

\* One handler stops every pair (global_stop)
StopGlobal(until, side) ==
  /\ closing.step = "global" /\ Room
  /\ side \in {"*", closing.side}
  /\ rows' = IF IsGlobalLock(until, side) THEN rows
             ELSE Locked("*", until, side, Protection)
  /\ Triggered("*", until, side)
  /\ UNCHANGED <<now, trade, data, closing, exits>>

ProtectionsDone ==
  /\ closing.step = "global"
  /\ closing' = Idle
  /\ UNCHANGED <<now, rows, trade, data, exits, verdicts>>

\* After the trade was committed as closed the process dies, or a call on the way
\* to handle_protections raises (wallets.update); nothing handles protections for
\* that trade later.
Crash ==
  /\ closing # Idle
  /\ closing' = Idle
  /\ exits' = IF closing.step = "auto"
                THEN [exits EXCEPT ![closing.pair][closing.side] = Never]
                ELSE exits
  /\ UNCHANGED <<now, rows, trade, data, verdicts>>

\* The dataframe of a pair is analyzed again, up to the last closed candle.
Analyze(pair) ==
  /\ data[pair] < LastClosed(now)
  /\ data' = [data EXCEPT ![pair] = LastClosed(now)]
  /\ UNCHANGED <<now, rows, trade, closing, exits, verdicts>>

-----------------------------------------------------------------------------
(* The strategy, the RPC threads, time *)

\* self.lock_pair, and _rpc_add_lock
AddLock(pair, until, side, reason) ==
  /\ Room
  /\ rows' = Locked(pair, until, side, reason)
  /\ UNCHANGED <<now, trade, data, closing, exits, verdicts>>

\* PairLocks.unlock_pair of the strategy, whose side is "*"
UnlockPair(pair) ==
  /\ Release(Locks(pair, now, "*"))
  /\ UNCHANGED <<now, trade, data, closing>>

UnlockReason(reason) ==
  /\ Release({r \in rows : r.active /\ r.end > now /\ r.reason = reason})
  /\ UNCHANGED <<now, trade, data, closing>>

\* _rpc_delete_lock, by id or by pair on any side; the row ends now.
DeleteLocks(rs) ==
  /\ rs # {}
  /\ rows' = (rows \ rs) \cup {[r EXCEPT !.active = FALSE, !.end = now] : r \in rs}
  /\ Lift(rs)
  /\ UNCHANGED <<now, trade, data, closing>>

DeleteById(r) == DeleteLocks({r})
DeleteByPair(pair) ==
  DeleteLocks({r \in rows : r.active /\ r.end > now /\ r.pair = pair})

Tick ==
  /\ now < MaxTime
  /\ now' = now + 1
  /\ UNCHANGED <<rows, trade, data, closing, exits, verdicts>>

-----------------------------------------------------------------------------
Main ==
  \/ \E p \in Pairs : Exit(p) \/ StopFound(p) \/ Analyze(p) \/ \E s \in Sides : Enter(p, s)
  \/ SetAutoLock \/ PairsDone \/ ProtectionsDone
  \/ \E d \in Durations, s \in LockSide : StopPair(now + d, s) \/ StopGlobal(now + d, s)

Strategy ==
  \/ \E p \in Pairs \cup {"*"}, d \in Durations, s \in LockSide, r \in Reasons :
       AddLock(p, now + d, s, r)
  \/ \E p \in Pairs : UnlockPair(p)
  \/ \E r \in Reasons : UnlockReason(r)

Rpc ==
  \/ \E p \in Pairs \cup {"*"} : DeleteByPair(p)
  \/ \E r \in rows : DeleteById(r)

Next == Main \/ Strategy \/ Rpc \/ Crash \/ Tick

Spec == Init /\ [][Next]_vars

-----------------------------------------------------------------------------
(* Properties *)

Lock == [id : 1..MaxLocks, pair : Pairs \cup {"*"}, side : LockSide, end : Nat,
         reason : Reasons \cup {AutoLock, Protection}, active : BOOLEAN]

TypeOK ==
  /\ now \in Nat
  /\ rows \subseteq Lock /\ Cardinality(rows) <= MaxLocks
  /\ trade \in [Pairs -> Sides \cup {"none"}]
  /\ data \in [Pairs -> Nat]
  /\ closing \in {Idle} \cup [step : {"auto", "pair", "global"}, pair : Pairs, side : Sides]
  /\ exits \in [Pairs -> [Sides -> Nat \cup {Never}]]
  /\ verdicts \subseteq [pair : Pairs \cup {"*"}, side : LockSide, until : Nat]

Enters(p, s) == trade[p] = "none" /\ trade'[p] = s

\* After an exit that handle_protections is called for (an exit order, or a
\* stoploss that handle_stoploss_on_exchange finds filled) nothing is entered on
\* that side with a signal of a candle that was over when the bot exited, however
\* late the new candle arrives.
NoEntryOnOldSignal ==
  [][\A p \in Pairs, s \in Sides :
       Enters(p, s) => exits[p][s] < data[p] + Timeframe]_vars

\* A protection that stopped a pair, or all pairs, stops their entries on its side
\* to the end, whichever locks existed, were added or ran out meanwhile, unless a
\* lock that covers it was lifted by hand.
ProtectionHolds ==
  [][\A p \in Pairs, s \in Sides : Enters(p, s) =>
       \A v \in verdicts : (v.pair \in {p, "*"} /\ v.side \in {s, "*"}) => v.until <= now]_vars

\* "Freqtrade locks pairs automatically for the current candle (until that candle
\* is over) when a pair exits": whoever finds a trade closed, its pair and side are
\* locked to the end of the candle, or handle_protections is about to lock them.
ExitsAreLocked ==
  [][\A p \in Pairs, s \in Sides : trade[p] = s /\ trade'[p] = "none" =>
       \/ closing' = [step |-> "auto", pair |-> p, side |-> s]
       \/ IsPairLocked(p, NextDate(now) - 1, s)']_vars

\* "Unlocks a pair previously locked using lock_pair."
UnlockUnlocks ==
  [][\A p \in Pairs : UnlockPair(p) => ~\E r \in rows' : r.pair = p /\ r.active /\ r.end > now]_vars
=============================================================================
