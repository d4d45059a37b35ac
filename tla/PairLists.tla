----------------------------- MODULE PairLists -----------------------------
(***************************************************************************)
(* The whitelist: a chain of pairlist handlers with caches of their own,   *)
(* the blacklist that RPC commands change while the chain runs, and the    *)
(* pairs of open trades the bot adds to the result.                        *)
(*                                                                         *)
(* A pairlist is a set here: its order matters where it is cut off only,   *)
(* which is an arbitrary choice.  What does matter is which list OBJECT a  *)
(* handler passes on: most filters return a new one, others remove from    *)
(* the one they got, and so do the check against the blacklist and the     *)
(* extension by open trades.  `cur.slot` names the cache that holds the    *)
(* object as well.  Tickers, candles and rankings are arbitrary choices;   *)
(* an entry of the blacklist matches one pair.                             *)
(***************************************************************************)
EXTENDS Integers, FiniteSets, FiniteSetsExt, Sequences, SequencesExt

CONSTANTS
  Pairs,          \* the markets of the exchange
  Configured,     \* exchange.pair_whitelist
  Generators,     \* handlers a chain may begin with
  Filters,        \* handlers it may go on with
  MaxFilters,     \* bound: filters of a chain
  MaxAssets,      \* number_assets
  MaxOpen,        \* max_open_trades
  KeepOnFailure,  \* keep_pairlist_on_failure
  AllowInactive,  \* allow_inactive
  MaxBlack,       \* bound: entries of the blacklist
  DeleteInCheck   \* entries may be deleted while the blacklist is gone through

RemoteKinds == {"remote", "remoteFilter", "remoteBlock"}
RankedKinds == {"ranked", "marketcap"}
GeneratorKinds == {"static", "producer", "remote"} \cup RankedKinds
FilterKinds == GeneratorKinds \cup RemoteKinds
                 \cup {"ticker", "candles", "age", "offset", "performance", "full", "shuffle"}

ASSUME PairListsAssumption ==
  /\ IsFiniteSet(Pairs) /\ Configured \subseteq Pairs
  /\ Generators \subseteq GeneratorKinds /\ Filters \subseteq FilterKinds
  /\ {MaxFilters, MaxAssets, MaxOpen, MaxBlack} \subseteq Nat
  /\ {KeepOnFailure, AllowInactive, DeleteInCheck} \subseteq BOOLEAN

VARIABLES
  chain,    \* the configured handlers, a generator first
  active,   \* pairs whose market is active and tradable
  black,    \* the blacklist
  trades,   \* pairs with an open trade
  pc,       \* where the main thread is
  pos,      \* the handler, or the entry of the blacklist, it comes to next
  held,     \* pairs with an open trade when the iteration began
  cur,      \* the list it works on: its pairs and the cache that holds it too
  cache,    \* lists kept by handlers
  found,    \* what each handler got when it last looked; _last_pairlist
  ready,    \* RemotePairLists with _init_done
  tested,   \* AgeFilter and the filters on candles: what they know of a pair
  seen,     \* entries of the blacklist expanded so far
  checked   \* entries that are there since the check against them began (history)

data  == <<active, black, trades>>
known == <<cache, found, ready, tested>>
check == <<seen, checked>>
vars  == <<chain, data, pc, pos, held, cur, known, check>>

\* Where a list is kept: under the handler's name, by ShuffleFilter under the
\* list it shuffled.
NoSlot  == <<"none", {}>>
Slot(h) == <<h, {}>>
Shuffled(list) == <<"shuffle", list>>
Slots == {Slot(h) : h \in RemoteKinds \cup RankedKinds} \cup {Shuffled(l) : l \in SUBSET Pairs}

Expired == [live |-> FALSE, list |-> {}]
Kept(list) == [live |-> TRUE, list |-> list]

\* A handler appears once, as state is kept by its kind here.
Chains ==
  {c \in UNION {[1 .. n -> Generators \cup Filters] : n \in 1 .. MaxFilters + 1} :
     c[1] \in Generators /\ (\A i \in DOMAIN c \ {1} : c[i] \in Filters) /\ IsInjective(c)}

\* The first `number_assets` of a list, in whatever order it has; and those of
\* them that pass a filter on data.
FirstOf(list) == {l \in SUBSET list : Cardinality(l) = Min({MaxAssets, Cardinality(list)})}
SomeOf(list)  == {l \in SUBSET list : Cardinality(l) <= MaxAssets}

Entries == Range(black)

\* What a filter knows, updated by new verdicts.
Updated(old, verdict) ==
  [p \in Pairs |-> IF p \in DOMAIN verdict THEN verdict[p] ELSE old[p]]

(***************************************************************************)
(* One handler.                                                            *)
(***************************************************************************)

\* gen_pairlist of the first handler, filter_pairlist of the others.
Turn(h) == pc = "chain" /\ pos <= Len(chain) /\ chain[pos] = h

Goes == pos' = pos + 1 /\ UNCHANGED <<chain, data, pc, held, check>>

\* The iteration is over; its lists are not looked at any more.
NoList == [pairs |-> {}, slot |-> NoSlot]
Idles ==
  /\ pc' = "idle" /\ pos' = 1 /\ held' = {} /\ cur' = NoList /\ seen' = {} /\ checked' = {}
  /\ UNCHANGED <<chain, data, known>>

\* It passes on a list of its own, or one that slot s holds as well.
Return(list, s) == cur' = [pairs |-> list, slot |-> s]

\* Removing from, or adding to, the list itself changes what a cache holds.
Rewritten(list) ==
  IF cur.slot = NoSlot THEN cache ELSE [cache EXCEPT ![cur.slot] = Kept(list)]

InPlace(list) == Return(list, cur.slot) /\ cache' = Rewritten(list)

\* StaticPairList: the configured pairs, or those as well as what came in.
Static ==
  /\ Turn("static")
  /\ IF pos = 1
     THEN Return(IF AllowInactive THEN Configured ELSE Configured \cap active, NoSlot)
     ELSE Return(cur.pairs \cup Configured, NoSlot)
  /\ Goes /\ UNCHANGED known

\* ProducerPairList: the producer's pairs at the moment.
Producer ==
  /\ Turn("producer")
  /\ \E upstream \in SUBSET Pairs :
       /\ found' = [found EXCEPT !["producer"] = upstream]
       /\ \E list \in FirstOf(upstream \cup IF pos = 1 THEN {} ELSE cur.pairs) :
            Return(IF pos = 1 THEN list \cap active ELSE list, NoSlot)
  /\ Goes /\ UNCHANGED <<cache, ready, tested>>

\* Mutant: the list that is kept is passed on itself.
PassedOn(h) == [pairs |-> cache[Slot(h)].list, slot |-> Slot(h)]

\* `return pairlist.copy()`
FromCache(h) == [pairs |-> cache[Slot(h)].list, slot |-> NoSlot]

\* RemotePairList: what is made of its own list `r`.
RemoteResults(h, r) ==
  CASE pos = 1 -> {r}
    [] pos > 1 /\ h = "remote" -> FirstOf(cur.pairs \cup r)
    [] pos > 1 /\ h = "remoteFilter" -> FirstOf(cur.pairs \cap r)
    [] pos > 1 /\ h = "remoteBlock" -> FirstOf(cur.pairs \ r)

RemoteCached(h) ==
  /\ Turn(h) /\ h \in ready /\ cache[Slot(h)].live
  /\ IF pos = 1 THEN cur' = FromCache(h)
     ELSE \E list \in RemoteResults(h, cache[Slot(h)].list) : Return(list, NoSlot)
  /\ Goes /\ UNCHANGED known

\* It asks the server, or goes on with the last list when that fails.
RemoteFetches(h) ==
  /\ Turn(h) /\ ~ (h \in ready /\ cache[Slot(h)].live)
  /\ \E answer \in SUBSET Pairs, ok \in BOOLEAN :
       /\ ~ ok => h \in ready /\ answer = IF KeepOnFailure THEN found[h] ELSE {}
       /\ \E list \in FirstOf(answer \cap active) :
            /\ cache' = [cache EXCEPT ![Slot(h)] = Kept(list)]
            /\ found' = [found EXCEPT ![h] = list]
            /\ \E result \in RemoteResults(h, list) : Return(result, NoSlot)
  /\ ready' = ready \cup {h}
  /\ Goes /\ UNCHANGED tested

\* There was no list yet: an OperationalException ends the iteration.
RemoteFails(h) ==
  /\ Turn(h) /\ h \notin ready
  /\ Idles

\* VolumePairList, PercentChangePairList and MarketCapPairList as generators.
RankedCached(h) ==
  /\ Turn(h) /\ pos = 1 /\ cache[Slot(h)].list # {}
  /\ cur' = FromCache(h)
  /\ Goes /\ UNCHANGED known

RankedFetches(h) ==
  /\ Turn(h) /\ pos = 1 /\ cache[Slot(h)].list = {}
  /\ \E list \in SomeOf(active \ Entries) :
       /\ cache' = [cache EXCEPT ![Slot(h)] = Kept(list)]
       /\ found' = [found EXCEPT ![h] = list]
       /\ Return(list, NoSlot)
  /\ Goes /\ UNCHANGED <<ready, tested>>

\* VolumePairList and PercentChangePairList as filters.
RankedFilter ==
  /\ Turn("ranked") /\ pos > 1
  /\ \E list \in SomeOf((cur.pairs \cap active) \ Entries) : Return(list, NoSlot)
  /\ Goes /\ UNCHANGED known

\* MarketCapPairList looks at the ranking only.
MarketCapFilter ==
  /\ Turn("marketcap") /\ pos > 1
  /\ \E list \in SomeOf(cur.pairs) : Return(list, NoSlot)
  /\ Goes /\ UNCHANGED known

\* PriceFilter, PrecisionFilter and SpreadFilter remove pairs from the list.
TickerFilter ==
  /\ Turn("ticker") /\ pos > 1
  /\ \E list \in SUBSET cur.pairs : InPlace(list)
  /\ Goes /\ UNCHANGED <<found, ready, tested>>

\* VolatilityFilter and RangeStabilityFilter: a pair's measure is kept for a
\* while; one without candles is removed and looked at again.
CandleFilter ==
  /\ Turn("candles") /\ pos > 1
  /\ \E verdict \in [{p \in cur.pairs : tested["candles"][p] = "unknown"} -> {"in", "out", "unknown"}] :
       LET t == Updated(tested["candles"], verdict)
       IN  /\ tested' = [tested EXCEPT !["candles"] = t]
           /\ Return({p \in cur.pairs : t[p] = "in"}, NoSlot)
  /\ Goes /\ UNCHANGED <<cache, found, ready>>

\* AgeFilter: as long as every pair is known to be old enough or too young, it
\* makes a new list; with new pairs it removes from the list it got.
AgeFilter ==
  /\ Turn("age") /\ pos > 1
  /\ LET needed == {p \in cur.pairs : tested["age"][p] = "unknown"}
     IN  \E verdict \in [needed -> {"in", "out", "unknown"}] :
           LET t == Updated(tested["age"], verdict)
               list == {p \in cur.pairs : t[p] = "in"}
           IN  /\ tested' = [tested EXCEPT !["age"] = t]
               /\ IF needed = {} THEN Return(list, NoSlot) /\ UNCHANGED cache ELSE InPlace(list)
  /\ Goes /\ UNCHANGED <<found, ready>>

\* OffsetFilter cuts out a part.
OffsetFilter ==
  /\ Turn("offset") /\ pos > 1
  /\ \E list \in SUBSET cur.pairs : Return(list, NoSlot)
  /\ Goes /\ UNCHANGED known

\* PerformanceFilter sorts and may remove; without closed trades it does nothing.
PerformanceFilter ==
  /\ Turn("performance") /\ pos > 1
  /\ \/ UNCHANGED cur
     \/ \E list \in SUBSET cur.pairs : Return(list, NoSlot)
  /\ Goes /\ UNCHANGED known

FullTradesFilter ==
  /\ Turn("full") /\ pos > 1
  /\ IF MaxOpen > 0 /\ Cardinality(trades) >= MaxOpen THEN Return({}, NoSlot) ELSE UNCHANGED cur
  /\ Goes /\ UNCHANGED known

\* ShuffleFilter keeps the list it passes on, under the one it got; another order
\* of the same pairs is another list.  Bound: only the list kept last is found.
ShuffleFilter ==
  /\ Turn("shuffle") /\ pos > 1
  /\ LET s == Shuffled(cur.pairs)
     IN  \/ cache[s].list # {} /\ Return(cache[s].list, s) /\ UNCHANGED cache
         \/ /\ Return(cur.pairs, s)
            /\ cache' = [t \in Slots |-> CASE t = s -> Kept(cur.pairs)
                                         [] t # s /\ t[1] = "shuffle" -> Expired
                                         [] OTHER -> cache[t]]
  /\ Goes /\ UNCHANGED <<found, ready, tested>>

(***************************************************************************)
(* The iteration around the chain.                                         *)
(***************************************************************************)

\* process(): markets are reloaded, open trades looked up, then refresh_pairlist.
Begin ==
  /\ pc = "idle"
  /\ pc' = "chain" /\ pos' = 1 /\ held' = trades /\ cur' = NoList
  /\ \E markets \in SUBSET Pairs : markets # {} /\ active' = markets
  /\ UNCHANGED <<chain, black, trades, known, check>>

\* verify_blacklist goes through the blacklist to expand its wildcards.
CheckBegins ==
  /\ pc = "chain" /\ pos > Len(chain)
  /\ pc' = "check" /\ pos' = 1 /\ seen' = {} /\ checked' = Entries
  /\ UNCHANGED <<chain, data, held, cur, known>>

CheckEntry ==
  /\ pc = "check" /\ pos <= Len(black)
  /\ seen' = seen \cup {black[pos]} /\ pos' = pos + 1
  /\ UNCHANGED <<chain, data, pc, held, cur, known, checked>>

\* Mutant: generators have checked already.
Unverified(list) == list

\* What is left of the list.
Verified(list) == list \ seen

\* Then pairs are removed from the list, which becomes the whitelist, and
\* _refresh_active_whitelist extends it by the pairs of open trades.
CheckEnds ==
  /\ pc = "check" /\ pos > Len(black)
  /\ pc' = "enter" /\ pos' = 1
  /\ InPlace(Verified(cur.pairs) \cup held)
  /\ UNCHANGED <<chain, data, held, found, ready, tested, check>>

\* enter_positions takes a pair of it that has no open trade.
Enter(p) ==
  /\ pc = "enter" /\ p \in cur.pairs \ trades
  /\ trades' = trades \cup {p}
  /\ UNCHANGED <<chain, active, black, pc, pos, held, cur, known, check>>

End == pc = "enter" /\ Idles

(***************************************************************************)
(* Other threads, and time.                                                *)
(***************************************************************************)

\* The trade of a pair is closed, or deleted with its entry order canceled.
EndTrade(p) ==
  /\ p \in trades /\ trades' = trades \ {p}
  /\ UNCHANGED <<chain, active, black, pc, pos, held, cur, known, check>>

\* /forceenter takes any pair.
ForceEnter(p) ==
  /\ p \notin trades /\ trades' = trades \cup {p}
  /\ UNCHANGED <<chain, active, black, pc, pos, held, cur, known, check>>

\* /blacklist
Blacklist(p) ==
  /\ p \notin Entries /\ Len(black) < MaxBlack
  /\ black' = Append(black, p)
  /\ UNCHANGED <<chain, active, trades, pc, pos, held, cur, known, check>>

\* /blacklist_delete: what follows the entry moves up, past the place that a check
\* under way has reached (PairLists_delete.cfg).
BlacklistDelete(p) ==
  /\ p \in Entries /\ (DeleteInCheck \/ pc # "check")
  /\ \E i \in DOMAIN black : black[i] = p /\ black' = RemoveAt(black, i)
  /\ checked' = checked \ {p}
  /\ UNCHANGED <<chain, active, trades, pc, pos, held, cur, known, seen>>

\* The time of a kept list is over.
Expire(s) ==
  /\ cache[s].live /\ cache' = [cache EXCEPT ![s] = Expired]
  /\ cur' = IF cur.slot = s THEN [cur EXCEPT !.slot = NoSlot] ELSE cur
  /\ UNCHANGED <<chain, data, pc, pos, held, found, ready, tested, check>>

\* Measures are forgotten after the refresh period, pairs too young every day;
\* a pair that is old enough stays so.
Forget(f, p) ==
  /\ tested[f][p] \in (IF f = "age" THEN {"out"} ELSE {"in", "out"})
  /\ tested' = [tested EXCEPT ![f][p] = "unknown"]
  /\ UNCHANGED <<chain, data, pc, pos, held, cur, cache, found, ready, check>>

(***************************************************************************)
(* Specification.                                                          *)
(***************************************************************************)

Init ==
  /\ chain \in Chains
  /\ active = Pairs /\ black = << >> /\ trades = {}
  /\ pc = "idle" /\ pos = 1 /\ held = {} /\ cur = NoList
  /\ cache = [s \in Slots |-> Expired]
  /\ found = [h \in GeneratorKinds \cup RemoteKinds |-> IF h = "static" THEN Configured ELSE {}]
  /\ ready = {} /\ tested = [f \in {"candles", "age"} |-> [p \in Pairs |-> "unknown"]]
  /\ seen = {} /\ checked = {}

Handler ==
  \/ Static
  \/ Producer
  \/ \E h \in RemoteKinds : RemoteCached(h) \/ RemoteFetches(h) \/ RemoteFails(h)
  \/ \E h \in RankedKinds : RankedCached(h) \/ RankedFetches(h)
  \/ RankedFilter
  \/ MarketCapFilter
  \/ TickerFilter
  \/ CandleFilter
  \/ AgeFilter
  \/ OffsetFilter
  \/ PerformanceFilter
  \/ FullTradesFilter
  \/ ShuffleFilter

MainThread ==
  \/ Begin
  \/ Handler
  \/ CheckBegins
  \/ CheckEntry
  \/ CheckEnds
  \/ \E p \in Pairs : Enter(p) \/ EndTrade(p)
  \/ End

RpcThread == \E p \in Pairs : ForceEnter(p) \/ Blacklist(p) \/ BlacklistDelete(p)

Time == (\E s \in Slots : Expire(s)) \/ (\E f \in {"candles", "age"}, p \in Pairs : Forget(f, p))

Next == MainThread \/ RpcThread \/ Time

Spec == Init /\ [][Next]_vars

(***************************************************************************)
(* Properties.                                                             *)
(***************************************************************************)

\* Every variable ranges over the values the code gives it.
TypeOK ==
  /\ chain \in Chains /\ active \subseteq Pairs /\ black \in Seq(Pairs)
  /\ \A set \in {trades, held, seen, checked} : set \subseteq Pairs
  /\ pc \in {"idle", "chain", "check", "enter"} /\ pos \in Nat \ {0}
  /\ cur \in [pairs : SUBSET Pairs, slot : Slots \cup {NoSlot}]
  /\ cache \in [Slots -> [live : BOOLEAN, list : SUBSET Pairs]]
  /\ found \in [GeneratorKinds \cup RemoteKinds -> SUBSET Pairs]
  /\ ready \subseteq RemoteKinds
  /\ tested \in [{"candles", "age"} -> [Pairs -> {"in", "out", "unknown"}]]

\* Lists that handlers of the chain add pairs from, as they last found them.
Given == UNION {found[chain[i]] : i \in {j \in DOMAIN chain : chain[j] \in GeneratorKinds}}

Listed == pc = "enter" => cur.pairs \subseteq Given \cup held

\* A pair that no handler found when it last looked, and that had no open trade
\* when the iteration began, is not traded: neither caches, nor filters that
\* change a list in place, nor the extension by pairs of earlier trades bring it
\* in.  ShuffleFilter is an exception, see below.
WhitelistIsListed == "shuffle" \notin Range(chain) => Listed

\* A pair that is blacklisted when the chain is done, and stays so, is not traded
\* unless it had an open trade, although caches, remote lists and filters that
\* add pairs know nothing of the blacklist.
BlacklistIsRespected == pc = "enter" => cur.pairs \cap checked \subseteq held

(***************************************************************************)
(* What comments and docs say, and the code does not do.                   *)
(***************************************************************************)

\* docs/configuration.md on pair_blacklist: "List of pairs the bot must
\* absolutely avoid for trading".  The trade of a pair is deleted in the
\* iteration that has added the pair to the whitelist, which "ensures that candle
\* (OHLCV) data are downloaded for open trades as well".
NeverEntersBlacklisted == [][ \A p \in checked : ~ Enter(p) ]_vars

\* docs/includes/pairlists.md: ShuffleFilter "Shuffles (randomizes) pairs in the
\* pairlist."  It keeps the list it returns, and the bot adds the pairs of open
\* trades to that list: they stay in it, until the candle ends, when their trade
\* is gone.
ShuffledIsListed == Listed
=============================================================================
