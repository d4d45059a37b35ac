--------------------------- MODULE PairListsProofs ---------------------------
(***************************************************************************)
(* What holds of PairLists for any markets, any configured pairs, any      *)
(* chain of handlers and any limits.                                       *)
(***************************************************************************)
EXTENDS PairLists, TLAPS

\* Handlers that look for pairs of their own, and where their finds are kept.
Finders == GeneratorKinds \cup RemoteKinds
Keepers == RemoteKinds \cup RankedKinds

\* verify_blacklist has expanded the entries it has passed.  Without deletions
\* meanwhile, an entry that was there at its beginning is passed at its end.
CheckAdvances ==
  pc = "check" => /\ checked \subseteq Entries /\ pos <= Len(black) + 1
                  /\ \A i \in DOMAIN black : i < pos => black[i] \in seen

\* What the handlers before the n-th found when they last looked.
GivenBefore(n) ==
  UNION {found[chain[i]] : i \in {j \in DOMAIN chain : j < n /\ chain[j] \in GeneratorKinds}}

\* A handler passes on what it got and what it found, and keeps no more.
FindsArePassedOn ==
  /\ cur.slot = NoSlot
  /\ \A h \in Keepers : cache[Slot(h)].list \subseteq found[h]
  /\ pc = "chain" => cur.pairs \subseteq GivenBefore(pos)
  /\ pc = "check" => cur.pairs \subseteq Given

IInv ==
  /\ TypeOK
  /\ found["static"] = Configured
  /\ ~ DeleteInCheck => CheckAdvances /\ BlacklistIsRespected
  /\ "shuffle" \notin Range(chain) => FindsArePassedOn /\ Listed

(***************************************************************************)
(* Chains, slots and the blacklist.                                        *)
(***************************************************************************)

LEMMA ChainFacts ==
  ASSUME NEW c \in Chains
  PROVE  /\ c \in Seq(GeneratorKinds \cup FilterKinds) /\ Len(c) >= 1
         /\ c[1] \in GeneratorKinds
         /\ \A i, j \in DOMAIN c : c[i] = c[j] => i = j
<1>1. PICK n \in 1 .. MaxFilters + 1 : c \in [1 .. n -> Generators \cup Filters]
  BY DEF Chains
<1>2. Generators \subseteq GeneratorKinds /\ Filters \subseteq FilterKinds /\ MaxFilters \in Nat
  BY PairListsAssumption
<1>3. c \in Seq(GeneratorKinds \cup FilterKinds) /\ Len(c) >= 1
  BY <1>1, <1>2
<1>4. c[1] \in Generators /\ IsInjective(c)
  BY DEF Chains
<1> QED
  BY <1>2, <1>3, <1>4 DEF IsInjective

LEMMA SlotFacts ==
  /\ \A h \in Keepers : Slot(h) \in Slots
  /\ \A l \in SUBSET Pairs : Shuffled(l) \in Slots
  /\ \A h, k : Slot(h) = Slot(k) => h = k
  /\ Keepers \subseteq Finders /\ "static" \in Finders
BY DEF Slot, Slots, Shuffled, Keepers, Finders, RemoteKinds, RankedKinds, GeneratorKinds

LEMMA EntriesFacts ==
  ASSUME black \in Seq(Pairs)
  PROVE  /\ Entries = {black[i] : i \in DOMAIN black}
         /\ DOMAIN black = 1 .. Len(black) /\ Len(black) \in Nat
BY DEF Entries, Range

(***************************************************************************)
(* Handlers.                                                               *)
(***************************************************************************)

\* The turn of the handler h, which keeps and passes on what its lemma says.
LEMMA TurnStep ==
  ASSUME IInv, NEW h, Turn(h), Goes,
         cur'.pairs \in SUBSET Pairs, cur' \in [pairs : SUBSET Pairs, slot : Slots \cup {NoSlot}],
         cache' \in [Slots -> [live : BOOLEAN, list : SUBSET Pairs]],
         found' \in [Finders -> SUBSET Pairs],
         ready' \subseteq RemoteKinds,
         tested' \in [{"candles", "age"} -> [Pairs -> {"in", "out", "unknown"}]],
         \A k \in Finders : k # h => found'[k] = found[k],
         h = "static" => found' = found,
         FindsArePassedOn /\ h # "shuffle" =>
           /\ cur'.slot = NoSlot
           /\ \A k \in Keepers : cache'[Slot(k)].list \subseteq found'[k]
           /\ cur'.pairs \subseteq cur.pairs \cup IF h \in GeneratorKinds THEN found'[h] ELSE {}
  PROVE  IInv'
<1>1. pc = "chain" /\ pc' = "chain" /\ pos \in 1 .. Len(chain) /\ chain[pos] = h /\ pos' = pos + 1
  BY ChainFacts DEF Turn, Goes, IInv, TypeOK
<1>2. TypeOK'
  BY DEF Goes, IInv, TypeOK, data, check, Finders
<1>3. found'["static"] = Configured
  BY SlotFacts DEF IInv
<1>4. CheckAdvances' /\ BlacklistIsRespected' /\ Listed'
  BY <1>1 DEF CheckAdvances, BlacklistIsRespected, Listed
<1>5. ASSUME "shuffle" \notin Range(chain) PROVE FindsArePassedOn'
  <2>1. FindsArePassedOn /\ h # "shuffle"
    BY <1>1, <1>5, ChainFacts DEF IInv, TypeOK, Range
  <2>2. cur.pairs \subseteq GivenBefore(pos)
    BY <2>1, <1>1 DEF FindsArePassedOn
  <2>3. GivenBefore(pos) \cup (IF h \in GeneratorKinds THEN found'[h] ELSE {}) \subseteq GivenBefore(pos)'
    <3>1. chain' = chain /\ chain \in Chains
      BY DEF Goes, IInv, TypeOK
    <3>2. \A i \in DOMAIN chain : i < pos /\ chain[i] \in GeneratorKinds => found'[chain[i]] = found[chain[i]]
      BY <3>1, <1>1, ChainFacts DEF Finders
    <3>3. ASSUME NEW x \in GivenBefore(pos) PROVE x \in GivenBefore(pos)'
      BY <3>1, <3>2, <3>3, <1>1 DEF GivenBefore
    <3>4. ASSUME h \in GeneratorKinds, NEW x \in found'[h] PROVE x \in GivenBefore(pos)'
      BY <3>1, <3>4, <1>1, ChainFacts DEF GivenBefore
    <3> QED
      BY <3>3, <3>4
  <2> QED
    BY <2>1, <2>2, <2>3, <1>1 DEF FindsArePassedOn
<1>6. chain' = chain
  BY DEF Goes
<1> QED
  BY <1>2, <1>3, <1>4, <1>5, <1>6 DEF IInv

\* What a handler may look at, and what it may keep.
LEMMA TurnFacts ==
  ASSUME IInv, NEW h, Turn(h)
  PROVE  /\ cur.pairs \in SUBSET Pairs /\ cur.slot \in Slots \cup {NoSlot}
         /\ cur = [pairs |-> cur.pairs, slot |-> cur.slot]
         /\ cache \in [Slots -> [live : BOOLEAN, list : SUBSET Pairs]]
         /\ found \in [Finders -> SUBSET Pairs]
         /\ ready \subseteq RemoteKinds
         /\ tested \in [{"candles", "age"} -> [Pairs -> {"in", "out", "unknown"}]]
         /\ active \subseteq Pairs /\ Configured \subseteq Pairs
         /\ found["static"] = Configured
         /\ FindsArePassedOn => cur.slot = NoSlot /\ \A k \in Keepers : cache[Slot(k)].list \subseteq found[k]
         /\ pos = 1 => h \in GeneratorKinds
BY PairListsAssumption, ChainFacts DEF IInv, TypeOK, Finders, FindsArePassedOn, Turn

\* Handlers that pass on a new list, of the pairs they got, and keep nothing.
LEMMA FilterStep ==
  ASSUME IInv, NEW h, Turn(h), Goes, UNCHANGED known,
         NEW list \in SUBSET Pairs,
         list \subseteq cur.pairs \cup IF h \in GeneratorKinds THEN found[h] ELSE {},
         \/ UNCHANGED cur
         \/ Return(list, NoSlot)
  PROVE  IInv'
<1>1. /\ cur'.pairs \in SUBSET Pairs /\ cur' \in [pairs : SUBSET Pairs, slot : Slots \cup {NoSlot}]
      /\ cur'.pairs \subseteq cur.pairs \cup IF h \in GeneratorKinds THEN found[h] ELSE {}
      /\ cur.slot = NoSlot => cur'.slot = NoSlot
  BY TurnFacts DEF Return
<1> QED
  BY <1>1, TurnFacts, TurnStep DEF known

LEMMA StaticStep == ASSUME IInv, Static PROVE IInv'
<1>1. Turn("static") /\ Goes /\ UNCHANGED known /\ "static" \in GeneratorKinds
  BY DEF Static, GeneratorKinds
<1>2. PICK list \in SUBSET Pairs : list \subseteq cur.pairs \cup found["static"] /\ Return(list, NoSlot)
  BY <1>1, TurnFacts DEF Static
<1> QED
  BY <1>1, <1>2, FilterStep

LEMMA ProducerStep == ASSUME IInv, Producer PROVE IInv'
<1>1. Turn("producer") /\ Goes /\ UNCHANGED <<cache, ready, tested>>
      /\ "producer" \in GeneratorKinds /\ "producer" \in Finders /\ "producer" \notin Keepers
      /\ "producer" # "static"
  BY DEF Producer, GeneratorKinds, Finders, Keepers, RemoteKinds, RankedKinds
<1>2. PICK upstream \in SUBSET Pairs :
        /\ found' = [found EXCEPT !["producer"] = upstream]
        /\ \E list \in FirstOf(upstream \cup IF pos = 1 THEN {} ELSE cur.pairs) :
             Return(IF pos = 1 THEN list \cap active ELSE list, NoSlot)
  BY DEF Producer
<1>3. PICK list \in SUBSET (upstream \cup cur.pairs) : Return(list, NoSlot)
  BY <1>2 DEF FirstOf
<1>4. /\ found' \in [Finders -> SUBSET Pairs] /\ found'["producer"] = upstream
      /\ \A k \in Finders : k # "producer" => found'[k] = found[k]
  BY <1>1, <1>2, TurnFacts
<1>5. cur'.pairs \in SUBSET Pairs /\ cur' \in [pairs : SUBSET Pairs, slot : Slots \cup {NoSlot}]
      /\ cur'.slot = NoSlot /\ cur'.pairs \subseteq cur.pairs \cup found'["producer"]
  BY <1>1, <1>3, <1>4, TurnFacts DEF Return
<1>6. FindsArePassedOn => \A k \in Keepers : cache'[Slot(k)].list \subseteq found'[k]
  BY <1>1, <1>4, TurnFacts, SlotFacts
<1> QED
  BY <1>1, <1>4, <1>5, <1>6, TurnFacts, TurnStep

\* A remote list is passed on as it is by a generator only.
LEMMA RemoteResultsFacts ==
  ASSUME IInv, NEW h \in RemoteKinds, Turn(h), NEW r \in SUBSET Pairs, NEW list \in RemoteResults(h, r)
  PROVE  list \in SUBSET Pairs /\ list \subseteq cur.pairs \cup IF h \in GeneratorKinds THEN r ELSE {}
<1>1. "remote" \in GeneratorKinds /\ h \in {"remote", "remoteFilter", "remoteBlock"}
  BY DEF RemoteKinds, GeneratorKinds
<1>2. pos = 1 \/ pos > 1
  BY DEF IInv, TypeOK
<1>3. CASE pos = 1
  BY <1>3, TurnFacts DEF RemoteResults
<1>4. CASE pos > 1
  BY <1>1, <1>4, TurnFacts DEF RemoteResults, FirstOf
<1> QED
  BY <1>2, <1>3, <1>4

LEMMA RemoteCachedStep == ASSUME IInv, NEW h \in RemoteKinds, RemoteCached(h) PROVE IInv'
<1>1. Turn(h) /\ Goes /\ UNCHANGED known /\ h \in Keepers /\ h # "static" /\ h # "shuffle"
  BY DEF RemoteCached, Keepers, RemoteKinds
<1>2. cache[Slot(h)].list \in SUBSET Pairs
  BY <1>1, TurnFacts, SlotFacts
<1>3. PICK list \in SUBSET Pairs :
        /\ cur' = [pairs |-> list, slot |-> NoSlot]
        /\ list \subseteq cur.pairs \cup IF h \in GeneratorKinds THEN cache[Slot(h)].list ELSE {}
  <2>1. CASE pos = 1
    BY <1>1, <1>2, <2>1, TurnFacts DEF RemoteCached, FromCache
  <2>2. CASE pos # 1
    <3>1. PICK list \in RemoteResults(h, cache[Slot(h)].list) : Return(list, NoSlot)
      BY <2>2 DEF RemoteCached
    <3> QED
      BY <3>1, <1>1, <1>2, RemoteResultsFacts DEF Return
  <2> QED
    BY <2>1, <2>2
<1>4. cur' \in [pairs : SUBSET Pairs, slot : Slots \cup {NoSlot}] /\ cur'.pairs = list /\ cur'.slot = NoSlot
  BY <1>3
<1> QED
  BY <1>1, <1>3, <1>4, TurnFacts, TurnStep DEF known

\* A handler looks for pairs again and keeps what it finds.
LEMMA FetchStep ==
  ASSUME IInv, NEW h \in Keepers, Turn(h), Goes, NEW list \in SUBSET Pairs, NEW result \in SUBSET Pairs,
         cache' = [cache EXCEPT ![Slot(h)] = Kept(list)],
         found' = [found EXCEPT ![h] = list],
         ready' \subseteq RemoteKinds, UNCHANGED tested,
         Return(result, NoSlot),
         result \subseteq cur.pairs \cup IF h \in GeneratorKinds THEN list ELSE {}
  PROVE  IInv'
<1>1. h \in Finders /\ Slot(h) \in Slots /\ h # "static" /\ h # "shuffle"
  BY SlotFacts DEF Keepers, RemoteKinds, RankedKinds
<1>2. /\ found' \in [Finders -> SUBSET Pairs] /\ found'[h] = list
      /\ \A k \in Finders : k # h => found'[k] = found[k]
  BY <1>1, TurnFacts
<1>3. /\ cache' \in [Slots -> [live : BOOLEAN, list : SUBSET Pairs]] /\ cache'[Slot(h)].list = list
      /\ \A s \in Slots : s # Slot(h) => cache'[s] = cache[s]
  BY <1>1, TurnFacts DEF Kept
<1>4. cur' \in [pairs : SUBSET Pairs, slot : Slots \cup {NoSlot}] /\ cur'.pairs = result /\ cur'.slot = NoSlot
  BY DEF Return
<1>5. FindsArePassedOn => \A k \in Keepers : cache'[Slot(k)].list \subseteq found'[k]
  BY <1>2, <1>3, TurnFacts, SlotFacts
<1> QED
  BY <1>1, <1>2, <1>3, <1>4, <1>5, TurnFacts, TurnStep

LEMMA RemoteFetchesStep == ASSUME IInv, NEW h \in RemoteKinds, RemoteFetches(h) PROVE IInv'
<1>1. Turn(h) /\ Goes /\ ready' \subseteq RemoteKinds /\ UNCHANGED tested /\ h \in Keepers
  BY TurnFacts DEF RemoteFetches, Keepers
<1>2. PICK answer \in SUBSET Pairs : \E list \in FirstOf(answer \cap active) :
        /\ cache' = [cache EXCEPT ![Slot(h)] = Kept(list)]
        /\ found' = [found EXCEPT ![h] = list]
        /\ \E result \in RemoteResults(h, list) : Return(result, NoSlot)
  BY DEF RemoteFetches
<1>3. PICK list \in SUBSET Pairs :
        /\ cache' = [cache EXCEPT ![Slot(h)] = Kept(list)]
        /\ found' = [found EXCEPT ![h] = list]
        /\ \E result \in RemoteResults(h, list) : Return(result, NoSlot)
  BY <1>2 DEF FirstOf
<1>4. PICK result \in RemoteResults(h, list) : Return(result, NoSlot)
  BY <1>3
<1>5. result \in SUBSET Pairs /\ result \subseteq cur.pairs \cup IF h \in GeneratorKinds THEN list ELSE {}
  BY <1>1, RemoteResultsFacts
<1> QED
  BY <1>1, <1>3, <1>4, <1>5, FetchStep

LEMMA RankedCachedStep == ASSUME IInv, NEW h \in RankedKinds, RankedCached(h) PROVE IInv'
<1>1. Turn(h) /\ Goes /\ UNCHANGED known /\ h \in Keepers /\ h # "static" /\ h # "shuffle" /\ h \in GeneratorKinds
  BY DEF RankedCached, Keepers, RankedKinds, GeneratorKinds
<1>2. cache[Slot(h)].list \in SUBSET Pairs
  BY <1>1, TurnFacts, SlotFacts
<1>3. cur' \in [pairs : SUBSET Pairs, slot : Slots \cup {NoSlot}] /\ cur'.slot = NoSlot
      /\ cur'.pairs = cache[Slot(h)].list
  BY <1>2 DEF RankedCached, FromCache
<1> QED
  BY <1>1, <1>2, <1>3, TurnFacts, TurnStep DEF known

LEMMA RankedFetchesStep == ASSUME IInv, NEW h \in RankedKinds, RankedFetches(h) PROVE IInv'
<1>1. Turn(h) /\ Goes /\ UNCHANGED <<ready, tested>> /\ h \in Keepers /\ h \in GeneratorKinds
  BY DEF RankedFetches, Keepers, RankedKinds, GeneratorKinds
<1>2. PICK list \in SUBSET Pairs :
        /\ cache' = [cache EXCEPT ![Slot(h)] = Kept(list)]
        /\ found' = [found EXCEPT ![h] = list]
        /\ Return(list, NoSlot)
  BY <1>1, TurnFacts DEF RankedFetches, SomeOf
<1> QED
  BY <1>1, <1>2, TurnFacts, FetchStep

\* Filters that only drop pairs, into a list of their own.
LEMMA DropSteps ==
  ASSUME IInv, RankedFilter \/ MarketCapFilter \/ OffsetFilter \/ PerformanceFilter \/ FullTradesFilter
  PROVE  IInv'
<1>1. PICK h : Turn(h) /\ Goes /\ UNCHANGED known
  BY DEF RankedFilter, MarketCapFilter, OffsetFilter, PerformanceFilter, FullTradesFilter
<1>2. cur.pairs \subseteq Pairs
  BY <1>1, TurnFacts
<1>3. PICK list \in SUBSET cur.pairs : UNCHANGED cur \/ Return(list, NoSlot)
  BY DEF RankedFilter, MarketCapFilter, OffsetFilter, PerformanceFilter, FullTradesFilter, SomeOf
<1> QED
  BY <1>1, <1>2, <1>3, FilterStep

\* Filters that remove pairs from the list they got: without ShuffleFilter no
\* cache holds it.
LEMMA RewrittenFacts ==
  ASSUME IInv, NEW h, Turn(h), NEW list \in SUBSET Pairs, InPlace(list)
  PROVE  /\ cur' \in [pairs : SUBSET Pairs, slot : Slots \cup {NoSlot}]
         /\ cur'.pairs = list /\ cur'.slot = cur.slot
         /\ cache' \in [Slots -> [live : BOOLEAN, list : SUBSET Pairs]]
         /\ cur.slot = NoSlot => cache' = cache
BY TurnFacts DEF InPlace, Rewritten, Return, Kept

LEMMA InPlaceStep ==
  ASSUME IInv, NEW h \in FilterKinds \ GeneratorKinds, Turn(h), Goes, UNCHANGED <<found, ready>>,
         tested' \in [{"candles", "age"} -> [Pairs -> {"in", "out", "unknown"}]],
         NEW list \in SUBSET cur.pairs,
         InPlace(list) \/ (Return(list, NoSlot) /\ UNCHANGED cache)
  PROVE  IInv'
<1>1. list \in SUBSET Pairs /\ h # "static"
  BY TurnFacts DEF GeneratorKinds
<1>2. /\ cur' \in [pairs : SUBSET Pairs, slot : Slots \cup {NoSlot}] /\ cur'.pairs = list
      /\ cache' \in [Slots -> [live : BOOLEAN, list : SUBSET Pairs]]
      /\ cur.slot = NoSlot => cur'.slot = NoSlot /\ cache' = cache
  BY <1>1, RewrittenFacts, TurnFacts DEF Return
<1> QED
  BY <1>1, <1>2, TurnFacts, TurnStep

LEMMA TickerStep == ASSUME IInv, TickerFilter PROVE IInv'
<1>1. "ticker" \in FilterKinds \ GeneratorKinds
  BY DEF FilterKinds, GeneratorKinds, RankedKinds, RemoteKinds
<1> QED
  BY <1>1, TurnFacts, InPlaceStep DEF TickerFilter

\* What a filter has learned of some pairs, and knows of the others.
LEMMA VerdictType ==
  ASSUME IInv, NEW h, Turn(h), NEW f \in {"candles", "age"}, NEW new \in SUBSET Pairs,
         NEW verdict \in [new -> {"in", "out", "unknown"}],
         tested' = [tested EXCEPT ![f] = Updated(tested[f], verdict)]
  PROVE  tested' \in [{"candles", "age"} -> [Pairs -> {"in", "out", "unknown"}]]
<1>1. tested[f] \in [Pairs -> {"in", "out", "unknown"}]
  BY TurnFacts
<1>2. Updated(tested[f], verdict) \in [Pairs -> {"in", "out", "unknown"}]
  BY <1>1 DEF Updated
<1> QED
  BY <1>2, TurnFacts

LEMMA CandleStep == ASSUME IInv, CandleFilter PROVE IInv'
<1>1. Turn("candles") /\ Goes /\ UNCHANGED <<cache, found, ready>>
  BY DEF CandleFilter
<1>2. PICK verdict \in [{p \in cur.pairs : tested["candles"][p] = "unknown"} -> {"in", "out", "unknown"}] :
        /\ tested' = [tested EXCEPT !["candles"] = Updated(tested["candles"], verdict)]
        /\ Return({p \in cur.pairs : Updated(tested["candles"], verdict)[p] = "in"}, NoSlot)
  BY DEF CandleFilter
<1>3. tested' \in [{"candles", "age"} -> [Pairs -> {"in", "out", "unknown"}]]
  BY <1>1, <1>2, TurnFacts, VerdictType
<1>4. "candles" \in FilterKinds \ GeneratorKinds
  BY DEF FilterKinds, GeneratorKinds, RankedKinds, RemoteKinds
<1>5. \E list \in SUBSET cur.pairs : Return(list, NoSlot)
  BY <1>2
<1> QED
  BY <1>1, <1>3, <1>4, <1>5, InPlaceStep

LEMMA AgeStep == ASSUME IInv, AgeFilter PROVE IInv'
<1>1. Turn("age") /\ Goes /\ UNCHANGED <<found, ready>>
  BY DEF AgeFilter
<1>2. PICK new \in SUBSET cur.pairs, verdict \in [{p \in cur.pairs : tested["age"][p] = "unknown"} -> {"in", "out", "unknown"}] :
        /\ tested' = [tested EXCEPT !["age"] = Updated(tested["age"], verdict)]
        /\ InPlace(new) \/ (Return(new, NoSlot) /\ UNCHANGED cache)
  BY DEF AgeFilter
<1>3. tested' \in [{"candles", "age"} -> [Pairs -> {"in", "out", "unknown"}]]
  BY <1>1, <1>2, TurnFacts, VerdictType
<1>4. "age" \in FilterKinds \ GeneratorKinds
  BY DEF FilterKinds, GeneratorKinds, RankedKinds, RemoteKinds
<1> QED
  BY <1>1, <1>2, <1>3, <1>4, InPlaceStep

LEMMA ShuffleStep == ASSUME IInv, ShuffleFilter PROVE IInv'
<1> DEFINE s == Shuffled(cur.pairs)
<1>1. Turn("shuffle") /\ Goes /\ UNCHANGED <<found, ready, tested>>
  BY DEF ShuffleFilter
<1>2. s \in Slots /\ cur.pairs \in SUBSET Pairs
  BY <1>1, TurnFacts, SlotFacts
<1>3. cur' \in [pairs : SUBSET Pairs, slot : Slots \cup {NoSlot}] /\ cur'.pairs \in SUBSET Pairs
      /\ cache' \in [Slots -> [live : BOOLEAN, list : SUBSET Pairs]]
  <2>1. CASE cache[s].list # {} /\ Return(cache[s].list, s) /\ UNCHANGED cache
    BY <1>1, <1>2, <2>1, TurnFacts DEF Return
  <2>2. CASE /\ Return(cur.pairs, s)
             /\ cache' = [t \in Slots |-> CASE t = s -> Kept(cur.pairs)
                                         [] t # s /\ t[1] = "shuffle" -> Expired
                                         [] OTHER -> cache[t]]
    <3>1. Kept(cur.pairs) \in [live : BOOLEAN, list : SUBSET Pairs]
          /\ Expired \in [live : BOOLEAN, list : SUBSET Pairs]
      BY <1>2 DEF Kept, Expired
    <3>2. \A t \in Slots : cache'[t] \in {Kept(cur.pairs), Expired, cache[t]}
      BY <2>2
    <3>3. cache' \in [Slots -> [live : BOOLEAN, list : SUBSET Pairs]]
      BY <1>1, <2>2, <3>1, <3>2, TurnFacts
    <3> QED
      BY <1>2, <2>2, <3>3 DEF Return
  <2> QED
    BY <2>1, <2>2 DEF ShuffleFilter
<1> QED
  BY <1>1, <1>3, TurnFacts, TurnStep

(***************************************************************************)
(* The iteration around the chain.                                         *)
(***************************************************************************)

LEMMA IdleStep == ASSUME IInv, Idles PROVE IInv'
<1>1. NoList.pairs = {} /\ NoList.slot = NoSlot /\ NoList \in [pairs : SUBSET Pairs, slot : Slots \cup {NoSlot}]
  BY DEF NoList
<1> QED
  BY <1>1 DEF Idles, IInv, TypeOK, data, known, CheckAdvances, BlacklistIsRespected, FindsArePassedOn, Listed

LEMMA HandlerStep == ASSUME IInv, Handler PROVE IInv'
BY StaticStep, ProducerStep, RemoteCachedStep, RemoteFetchesStep, RankedCachedStep, RankedFetchesStep,
   DropSteps, TickerStep, CandleStep, AgeStep, ShuffleStep, IdleStep DEF Handler, RemoteFails

LEMMA BeginStep == ASSUME IInv, Begin PROVE IInv'
<1>1. NoList.pairs = {} /\ NoList.slot = NoSlot /\ NoList \in [pairs : SUBSET Pairs, slot : Slots \cup {NoSlot}]
  BY DEF NoList
<1>2. TypeOK'
  BY <1>1 DEF Begin, IInv, TypeOK, known, check
<1> QED
  BY <1>1, <1>2 DEF Begin, IInv, known, check, CheckAdvances, BlacklistIsRespected, FindsArePassedOn, Listed

LEMMA CheckBeginsStep == ASSUME IInv, CheckBegins PROVE IInv'
<1>1. TypeOK'
  <2>1. Entries \subseteq Pairs
    BY EntriesFacts DEF IInv, TypeOK
  <2> QED
    BY <2>1 DEF CheckBegins, IInv, TypeOK, data, known
<1>2. CheckAdvances'
  BY DEF CheckBegins, CheckAdvances, data, Entries, IInv, TypeOK
<1>3. FindsArePassedOn => FindsArePassedOn'
  <2>1. GivenBefore(pos) = Given
    BY ChainFacts DEF GivenBefore, Given, CheckBegins, IInv, TypeOK
  <2>2. Given' = Given
    BY DEF Given, CheckBegins, known
  <2> QED
    BY <2>1, <2>2 DEF CheckBegins, FindsArePassedOn, known
<1> QED
  BY <1>1, <1>2, <1>3 DEF CheckBegins, IInv, data, known, BlacklistIsRespected, Listed

LEMMA CheckEntryStep == ASSUME IInv, CheckEntry PROVE IInv'
<1>1. black \in Seq(Pairs) /\ pos \in Nat \ {0} /\ pos \in DOMAIN black /\ black[pos] \in Pairs
  BY DEF CheckEntry, IInv, TypeOK
<1>2. TypeOK'
  BY <1>1 DEF CheckEntry, IInv, TypeOK, data, known
<1>3. CheckAdvances => CheckAdvances'
  <2>1. \A i \in DOMAIN black : i < pos + 1 => i < pos \/ i = pos
    BY <1>1
  <2> QED
    BY <1>1, <2>1 DEF CheckEntry, CheckAdvances, data, Entries
<1>4. FindsArePassedOn => FindsArePassedOn'
  BY DEF CheckEntry, FindsArePassedOn, known, Given
<1> QED
  BY <1>2, <1>3, <1>4 DEF CheckEntry, IInv, data, known, BlacklistIsRespected, Listed

\* Every entry has been expanded: what is left of the list was not there.
LEMMA CheckEndsStep == ASSUME IInv, CheckEnds PROVE IInv'
<1> DEFINE list == Verified(cur.pairs) \cup held
<1>1. /\ list \in SUBSET Pairs /\ cur \in [pairs : SUBSET Pairs, slot : Slots \cup {NoSlot}]
      /\ cache \in [Slots -> [live : BOOLEAN, list : SUBSET Pairs]]
  BY DEF IInv, TypeOK, Verified
<1>2. cur' = [pairs |-> list, slot |-> cur.slot] /\ cache' = Rewritten(list)
  BY DEF CheckEnds, InPlace, Return
<1>3. /\ cache' \in [Slots -> [live : BOOLEAN, list : SUBSET Pairs]]
      /\ cur.slot = NoSlot => cache' = cache
  <2> HIDE DEF list
  <2> QED
    BY <1>1, <1>2 DEF Rewritten, Kept
<1>4. TypeOK'
  <2>1. cur' \in [pairs : SUBSET Pairs, slot : Slots \cup {NoSlot}]
    BY <1>1, <1>2
  <2> HIDE DEF list
  <2> QED
    BY <1>3, <2>1 DEF CheckEnds, IInv, TypeOK, data, check
<1>5. CheckAdvances => BlacklistIsRespected'
  <2>1. CheckAdvances => checked \subseteq seen
    BY EntriesFacts DEF CheckAdvances, CheckEnds, IInv, TypeOK
  <2> QED
    BY <1>2, <2>1 DEF BlacklistIsRespected, Verified, CheckEnds, check
<1>6. FindsArePassedOn => FindsArePassedOn' /\ Listed'
  <2>1. pc = "check" /\ pc' = "enter" /\ Given' = Given
    BY DEF CheckEnds, Given
  <2> QED
    BY <1>2, <1>3, <2>1 DEF CheckEnds, FindsArePassedOn, Listed, Verified
<1> QED
  BY <1>4, <1>5, <1>6 DEF CheckEnds, IInv, CheckAdvances

\* Trades come and go; the list does not change.
LEMMA TradeSteps ==
  ASSUME IInv, NEW p \in Pairs, Enter(p) \/ EndTrade(p) \/ ForceEnter(p)
  PROVE  IInv'
<1>1. trades' \subseteq Pairs /\ UNCHANGED <<chain, active, black, pc, pos, held, cur, known, check>>
  BY DEF Enter, EndTrade, ForceEnter, IInv, TypeOK
<1> QED
  BY <1>1 DEF IInv, TypeOK, known, check, CheckAdvances, Entries, BlacklistIsRespected,
     FindsArePassedOn, Listed, Given, GivenBefore

(***************************************************************************)
(* Other threads, and time.                                                *)
(***************************************************************************)

LEMMA BlacklistStep == ASSUME IInv, NEW p \in Pairs, Blacklist(p) PROVE IInv'
<1>1. black' = Append(black, p) /\ black \in Seq(Pairs)
      /\ UNCHANGED <<chain, active, trades, pc, pos, held, cur, known, check>>
  BY DEF Blacklist, IInv, TypeOK
<1>2. TypeOK'
  BY <1>1 DEF IInv, TypeOK, known, check
<1>3. CheckAdvances => CheckAdvances'
  <2> SUFFICES ASSUME CheckAdvances, pc = "check" PROVE CheckAdvances'
    BY <1>1 DEF CheckAdvances
  <2>1. Entries' = Entries \cup {p}
    BY <1>1 DEF Entries, Range
  <2>2. pos \in Nat /\ pos <= Len(black) + 1 /\ Len(black') = Len(black) + 1 /\ Len(black) \in Nat
    BY <1>1 DEF CheckAdvances, IInv, TypeOK
  <2>3. \A i \in DOMAIN black' : i < pos => i \in DOMAIN black /\ black'[i] = black[i]
    BY <1>1, <2>2 DEF IInv, TypeOK
  <2> QED
    BY <1>1, <2>1, <2>2, <2>3 DEF CheckAdvances, check
<1> QED
  BY <1>1, <1>2, <1>3 DEF IInv, known, check, BlacklistIsRespected, FindsArePassedOn, Listed, Given, GivenBefore

LEMMA BlacklistDeleteStep == ASSUME IInv, NEW p \in Pairs, BlacklistDelete(p) PROVE IInv'
<1>1. /\ UNCHANGED <<chain, active, trades, pc, pos, held, cur, known, seen>>
      /\ checked' \subseteq checked
      /\ ~ DeleteInCheck => pc # "check"
  BY DEF BlacklistDelete
<1>2. black' \in Seq(Pairs)
  BY DEF BlacklistDelete, RemoveAt, IInv, TypeOK
<1>3. TypeOK'
  <2>1. trades' \subseteq Pairs /\ held' \subseteq Pairs /\ seen' \subseteq Pairs /\ checked' \subseteq Pairs
    BY <1>1 DEF IInv, TypeOK
  <2> QED
    BY <1>1, <1>2, <2>1 DEF IInv, TypeOK, known
<1>4. ~ DeleteInCheck => CheckAdvances' /\ BlacklistIsRespected'
  BY <1>1 DEF IInv, CheckAdvances, BlacklistIsRespected
<1>5. "shuffle" \notin Range(chain') => FindsArePassedOn' /\ Listed'
  BY <1>1 DEF IInv, known, FindsArePassedOn, Listed, Given, GivenBefore
<1> QED
  BY <1>1, <1>3, <1>4, <1>5 DEF IInv, known

LEMMA ExpireStep == ASSUME IInv, NEW s \in Slots, Expire(s) PROVE IInv'
<1>1. /\ Expired \in [live : BOOLEAN, list : SUBSET Pairs] /\ Expired.list = {}
      /\ cache \in [Slots -> [live : BOOLEAN, list : SUBSET Pairs]]
      /\ cur \in [pairs : SUBSET Pairs, slot : Slots \cup {NoSlot}]
  BY DEF Expired, IInv, TypeOK
<1>2. /\ cache' \in [Slots -> [live : BOOLEAN, list : SUBSET Pairs]]
      /\ \A t \in Slots : cache'[t].list \subseteq cache[t].list
  BY <1>1 DEF Expire
<1>3. /\ cur' \in [pairs : SUBSET Pairs, slot : Slots \cup {NoSlot}] /\ cur'.pairs = cur.pairs
      /\ cur.slot = NoSlot => cur'.slot = NoSlot
  BY <1>1 DEF Expire
<1>4. UNCHANGED <<chain, data, pc, pos, held, found, ready, tested, check>>
  BY DEF Expire
<1>5. TypeOK'
  BY <1>2, <1>3, <1>4 DEF IInv, TypeOK, data, check
<1>6. FindsArePassedOn => FindsArePassedOn'
  BY <1>2, <1>3, <1>4, SlotFacts DEF FindsArePassedOn, Given, GivenBefore
<1> QED
  BY <1>3, <1>4, <1>5, <1>6 DEF IInv, data, check, CheckAdvances, Entries, BlacklistIsRespected, Listed, Given

LEMMA ForgetStep == ASSUME IInv, NEW f \in {"candles", "age"}, NEW p \in Pairs, Forget(f, p) PROVE IInv'
<1>1. /\ UNCHANGED <<chain, data, pc, pos, held, cur, cache, found, ready, check>>
      /\ tested' \in [{"candles", "age"} -> [Pairs -> {"in", "out", "unknown"}]]
  BY DEF Forget, IInv, TypeOK
<1> QED
  BY <1>1 DEF IInv, TypeOK, data, check, CheckAdvances, Entries, BlacklistIsRespected,
     FindsArePassedOn, Listed, Given, GivenBefore

LEMMA InitIInv == Init => IInv
<1> SUFFICES ASSUME Init PROVE IInv
  OBVIOUS
<1>1. NoList.pairs = {} /\ NoList.slot = NoSlot /\ NoList \in [pairs : SUBSET Pairs, slot : Slots \cup {NoSlot}]
  BY DEF NoList
<1>2. Expired \in [live : BOOLEAN, list : SUBSET Pairs] /\ Expired.list = {}
  BY DEF Expired
<1>3. found["static"] = Configured /\ found \in [GeneratorKinds \cup RemoteKinds -> SUBSET Pairs]
  BY SlotFacts, PairListsAssumption DEF Init, Finders
<1>4. TypeOK
  BY <1>1, <1>2, <1>3 DEF Init, TypeOK
<1>5. FindsArePassedOn
  BY <1>1, <1>2, SlotFacts DEF Init, FindsArePassedOn
<1> QED
  BY <1>3, <1>4, <1>5 DEF Init, IInv, CheckAdvances, BlacklistIsRespected, Listed

LEMMA NextStep == IInv /\ [Next]_vars => IInv'
<1>1. ASSUME IInv, UNCHANGED vars PROVE IInv'
  BY <1>1 DEF vars, IInv, TypeOK, data, known, check, CheckAdvances, Entries, BlacklistIsRespected,
     FindsArePassedOn, Listed, Given, GivenBefore
<1> QED
  BY <1>1, HandlerStep, BeginStep, CheckBeginsStep, CheckEntryStep, CheckEndsStep, TradeSteps, IdleStep,
     BlacklistStep, BlacklistDeleteStep, ExpireStep, ForgetStep
  DEF Next, MainThread, RpcThread, Time, End

LEMMA IInvHolds == Spec => []IInv
BY InitIInv, NextStep, PTL DEF Spec

(***************************************************************************)
(* Results.                                                                *)
(***************************************************************************)

\* Every variable of the pairlist manager and its handlers keeps its type.
THEOREM TypesHold == Spec => []TypeOK
<1>1. IInv => TypeOK
  BY DEF IInv
<1> QED
  BY <1>1, IInvHolds, PTL

\* For any markets and any chain of handlers without ShuffleFilter, what
\* refresh_pairlist returns was found by a handler of the chain or has an open
\* trade.
THEOREM WhitelistComesFromHandlers == Spec => []WhitelistIsListed
<1>1. IInv => WhitelistIsListed
  BY DEF IInv, WhitelistIsListed
<1> QED
  BY <1>1, IInvHolds, PTL

\* For any chain and any number of entries, verify_blacklist keeps from the
\* whitelist what was on the blacklist as it began and still is, as long as no
\* entry is deleted while it goes through the blacklist.
THEOREM BlacklistedAreRemoved ==
  ASSUME DeleteInCheck = FALSE
  PROVE  Spec => []BlacklistIsRespected
<1>1. IInv => BlacklistIsRespected
  BY DEF IInv
<1> QED
  BY <1>1, IInvHolds, PTL
=============================================================================
