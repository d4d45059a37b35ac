-------------------------- MODULE EntrySlotsProofs --------------------------
(***************************************************************************)
(* What holds of EntrySlots for any pairs, any finite number of RPC        *)
(* threads, any limit of open trades and any number of trades.             *)
(*                                                                         *)
(* LockHeld carries the argument: who holds `_exit_lock` is where its pc   *)
(* says, so that no other thread creates a trade meanwhile, and the slot   *)
(* found free under the lock is free until the commit.                     *)
(***************************************************************************)
EXTENDS EntrySlots, TLAPS, FiniteSetTheorems

\* A thread works on a pair of the whitelist while it looks for an entry.
WorksOnPair ==
  /\ mpc \in {"create", "placed"} => cur \in Pairs
  /\ \A c \in Clients : cpc[c] # "idle" => req[c] \in Pairs

\* The lock is held by the thread that is inside its critical section.
LockHeld ==
  /\ lock = "main" <=> mpc \in {"exits", "create", "placed"}
  /\ \A c \in Clients : lock = c <=> cpc[c] \in {"placing", "placed"}

Typed == TypeOK /\ WorksOnPair /\ LockHeld

(***************************************************************************)
(* Types and the lock.                                                     *)
(***************************************************************************)

LEMMA TypedInit == Init => Typed
<1> SUFFICES ASSUME Init PROVE Typed
  OBVIOUS
<1>1. open \subseteq Trade /\ IsFiniteSet(open)
  BY FS_EmptySet DEF Init
<1>2. /\ cpc \in [Clients -> ClientPc]
      /\ req \in [Clients -> Pairs \cup {"none"}]
      /\ snap \in [Clients -> Trade \cup {NoTrade}]
  BY DEF Init, ClientPc
<1>3. TypeOK
  BY <1>1, <1>2 DEF Init, TypeOK, MainPc
<1> QED
  BY <1>3, SlotsAssumption DEF Init, Typed, WorksOnPair, LockHeld

\* A trade is inserted: the rows stay trades and finitely many.
LEMMA InsertTyped ==
  ASSUME open \subseteq Trade, IsFiniteSet(open), nextId \in Nat,
         NEW p \in Pairs, NEW who \in {"main", "rpc"}, InsertTrade(p, who)
  PROVE  /\ open' \subseteq Trade /\ IsFiniteSet(open')
         /\ nextId' \in Nat /\ nextId' # nextId
         /\ Cardinality(open') <= Cardinality(open) + 1
<1>1. IsFiniteSet(open') /\ Cardinality(open') <= Cardinality(open) + 1
  <2> DEFINE row == [id |-> nextId, pair |-> p, by |-> who]
  <2>1. open' = open \cup {row}
    BY DEF InsertTrade
  <2>2. IsFiniteSet(open) /\ Cardinality(open) \in Nat
    BY FS_CardinalityType
  <2> HIDE DEF row
  <2> QED
    BY <2>1, <2>2, FS_AddElement
<1> QED
  BY <1>1 DEF InsertTrade, Trade

\* A trade is closed or deleted: the rows stay trades, and are not more.
LEMMA EndTyped ==
  ASSUME open \subseteq Trade, IsFiniteSet(open), NEW t, EndTrade(t)
  PROVE  /\ open' \subseteq open /\ IsFiniteSet(open')
         /\ Cardinality(open') <= Cardinality(open)
<1>1. open' \subseteq open
  BY DEF EndTrade
<1> QED
  BY <1>1, FS_Subset

LEMMA MainTyped == Typed /\ MainThread => Typed'
<1> SUFFICES ASSUME Typed, MainThread PROVE Typed'
  OBVIOUS
<1> USE SlotsAssumption DEF Typed, TypeOK, WorksOnPair, LockHeld, MainPc, mainVars, clientVars
<1>1. CASE MainBegin \/ MainAcquireExits \/ MainReleaseExits \/ MainGate \/ MainWhitelist
  BY <1>1 DEF MainBegin, MainAcquireExits, MainReleaseExits, MainGate, MainWhitelist, Whitelist
<1>2. CASE \E t \in open : MainEndsTrade(t)
  <2> PICK t \in open : MainEndsTrade(t)
    BY <1>2
  <2>1. open' \subseteq Trade /\ IsFiniteSet(open')
    BY EndTyped DEF MainEndsTrade
  <2> QED
    BY <2>1 DEF MainEndsTrade
<1>3. CASE \E p \in Pairs : MainAcquire(p)
  BY <1>3 DEF MainAcquire, WithLock
<1>4. CASE MainPlace \/ MainSkip \/ MainEnd
  BY <1>4 DEF MainPlace, MainSkip, MainEnd
<1>5. CASE MainCommit
  <2>1. open' \subseteq Trade /\ IsFiniteSet(open') /\ nextId' \in Nat
    BY <1>5, InsertTyped DEF MainCommit
  <2> QED
    BY <1>5, <2>1 DEF MainCommit
<1> QED
  BY <1>1, <1>2, <1>3, <1>4, <1>5 DEF MainThread

LEMMA RpcTyped == ASSUME NEW c \in Clients PROVE Typed /\ RpcThread(c) => Typed'
<1> SUFFICES ASSUME Typed, RpcThread(c) PROVE Typed'
  OBVIOUS
<1> USE SlotsAssumption DEF Typed, TypeOK, WorksOnPair, LockHeld, ClientPc, mainVars, clientVars
<1>1. CASE \E p \in Pairs : FeValidate(c, p)
  BY <1>1 DEF FeValidate
<1>2. CASE FeLookupNone(c) \/ FeCount(c) \/ FeAcquire(c)
  BY <1>2 DEF FeLookupNone, FeCount, FeAcquire
<1>3. CASE FeLookupTrade(c)
  BY <1>3 DEF FeLookupTrade, OpenOn
<1>4. CASE FeLookupRefused(c) \/ FeCountRefused(c) \/ FeFail(c)
  BY <1>4 DEF FeLookupRefused, FeCountRefused, FeFail, FeLeave
<1>5. CASE FePlace(c)
  BY <1>5 DEF FePlace
<1>6. CASE FeCommit(c)
  <2>1. open' \subseteq Trade /\ IsFiniteSet(open') /\ nextId' \in Nat
    BY <1>6, InsertTyped DEF FeCommit
  <2> QED
    BY <1>6, <2>1 DEF FeCommit, FeLeave
<1>7. CASE \E t \in open : RpcEndsTrade(c, t) \/ RpcReloadTrade(c, t)
  <2> PICK t \in open : RpcEndsTrade(c, t) \/ RpcReloadTrade(c, t)
    BY <1>7
  <2>1. open' \subseteq Trade /\ IsFiniteSet(open')
    BY EndTyped DEF RpcEndsTrade, RpcReloadTrade
  <2> QED
    BY <2>1 DEF RpcEndsTrade, RpcReloadTrade
<1>8. CASE \E s \in {"RUNNING", "PAUSED", "STOPPED"} : RpcSetState(c, s)
  BY <1>8 DEF RpcSetState
<1> QED
  BY <1>1, <1>2, <1>3, <1>4, <1>5, <1>6, <1>7, <1>8 DEF RpcThread

LEMMA TypedInvariant == Spec => []Typed
<1>1. Typed /\ UNCHANGED vars => Typed'
  BY DEF vars, Typed, TypeOK, WorksOnPair, LockHeld
<1>2. Typed /\ [Next]_vars => Typed'
  BY <1>1, MainTyped, RpcTyped DEF Next
<1> QED
  BY <1>2, TypedInit, PTL DEF Spec

\* Every variable keeps the values the code gives it, for any instance.
THEOREM TypeCorrect == Spec => []TypeOK
<1>1. Typed => TypeOK
  BY DEF Typed
<1> QED
  BY <1>1, TypedInvariant, PTL

(***************************************************************************)
(* The main thread commits within the limit.                               *)
(***************************************************************************)

\* The slot that create_trade found free under the lock.
PlacedHasSlot == mpc = "placed" => FreeSlot

\* While the main thread holds the lock, nothing but its own commit creates a
\* trade: a force entry commits under the lock, the other commands end trades.
LEMMA OnlyHoldersInsert ==
  ASSUME Typed, [Next]_vars, lock = "main"
  PROVE  \/ MainCommit
         \/ open' \subseteq open /\ IsFiniteSet(open') /\ OpenTradeCount' <= OpenTradeCount
            /\ nextId' = nextId
<1> USE DEF Typed, TypeOK, mainVars, clientVars
<1>0. IsFiniteSet(open) /\ OpenTradeCount \in Nat
  BY FS_CardinalityType DEF OpenTradeCount
<1> SUFFICES ASSUME ~ MainCommit
             PROVE  open' \subseteq open /\ nextId' = nextId
  BY <1>0, FS_Subset DEF OpenTradeCount
<1>1. CASE MainThread
  BY <1>1 DEF MainThread, MainBegin, MainAcquireExits, MainEndsTrade, EndTrade, MainReleaseExits,
              MainGate, MainWhitelist, MainAcquire, MainPlace, MainSkip, MainEnd
<1>2. ASSUME NEW c \in Clients, RpcThread(c)
      PROVE  open' \subseteq open /\ nextId' = nextId
  <2>1. ~ FeCommit(c)
    BY SlotsAssumption DEF FeCommit, LockHeld
  <2> QED
    BY <1>2, <2>1 DEF RpcThread, FeValidate, FeLookupNone, FeLookupTrade, FeLookupRefused,
           FeCount, FeCountRefused, FeAcquire, FePlace, FeFail, RpcEndsTrade, RpcReloadTrade,
           EndTrade, RpcSetState
<1>3. CASE UNCHANGED vars
  BY <1>3 DEF vars
<1> QED
  BY <1>1, <1>2, <1>3 DEF Next

\* While it holds the lock, the main thread keeps the slot it found.
LEMMA SlotKept == Spec => []PlacedHasSlot
<1>1. Init => PlacedHasSlot
  BY DEF Init, PlacedHasSlot
<1>2. Typed /\ Typed' /\ PlacedHasSlot /\ [Next]_vars => PlacedHasSlot'
  <2> SUFFICES ASSUME Typed, Typed', PlacedHasSlot, [Next]_vars, mpc' = "placed"
               PROVE  FreeSlot'
    BY DEF PlacedHasSlot
  <2>1. MainPlace \/ mpc = "placed"
    BY DEF Next, MainThread, MainBegin, MainAcquireExits, MainEndsTrade, MainReleaseExits, MainGate,
           MainWhitelist, MainAcquire, MainCommit, MainSkip, MainEnd, RpcThread, FeValidate,
           FeLookupNone, FeLookupTrade, FeLookupRefused, FeCount, FeCountRefused, FeAcquire,
           FePlace, FeCommit, FeFail, RpcEndsTrade, RpcReloadTrade, RpcSetState, vars, mainVars
  <2>2. CASE MainPlace
    BY <2>2 DEF MainPlace, SlotCheck, FreeSlot, OpenTradeCount
  <2>3. CASE mpc = "placed"
    <3>1. FreeSlot /\ lock = "main" /\ ~ MainCommit
      BY <2>3 DEF PlacedHasSlot, Typed, LockHeld, MainCommit
    <3>2. OpenTradeCount' <= OpenTradeCount
      BY <3>1, OnlyHoldersInsert
    <3>3. OpenTradeCount \in Nat /\ OpenTradeCount' \in Nat
      BY FS_CardinalityType DEF OpenTradeCount, Typed, TypeOK
    <3> QED
      BY <3>1, <3>2, <3>3, SlotsAssumption DEF FreeSlot
  <2> QED
    BY <2>1, <2>2, <2>3
<1> QED
  BY <1>1, <1>2, TypedInvariant, PTL DEF Spec

\* A trade of create_trade and execute_entry never exceeds max_open_trades,
\* whatever other threads did since process() looked at the free slots.
THEOREM MainWithinLimit == Spec => MainCommitsWithinLimit
<1> DEFINE Within == mpc = "placed" /\ open' # open /\ nextId' # nextId
                       => Cardinality(open') <= MaxOpenTrades
<1>1. Typed /\ PlacedHasSlot /\ [Next]_vars => [Within]_vars
  <2> SUFFICES ASSUME Typed, PlacedHasSlot, [Next]_vars, mpc = "placed", nextId' # nextId
               PROVE  Cardinality(open') <= MaxOpenTrades
    OBVIOUS
  <2>1. MainCommit
    BY OnlyHoldersInsert DEF Typed, LockHeld
  <2>2. Cardinality(open') <= Cardinality(open) + 1 /\ IsFiniteSet(open')
    BY <2>1, InsertTyped DEF MainCommit, Typed, TypeOK, WorksOnPair
  <2>3. Cardinality(open) < MaxOpenTrades
    BY DEF PlacedHasSlot, FreeSlot, OpenTradeCount
  <2>4. Cardinality(open) \in Nat /\ Cardinality(open') \in Nat
    BY <2>2, FS_CardinalityType DEF Typed, TypeOK
  <2> QED
    BY <2>2, <2>3, <2>4, SlotsAssumption
<1>2. Spec => [][Within]_vars
  BY <1>1, TypedInvariant, SlotKept, PTL DEF Spec
<1> QED
  BY <1>2 DEF MainCommitsWithinLimit

(***************************************************************************)
(* How far forced entries can exceed the limit.                            *)
(***************************************************************************)

\* Every RPC thread that passed the slot check stands for at most one trade
\* above the limit, which it keeps when it commits.
BoundInv == OpenTradeCount + Cardinality(Inflight) <= MaxOpenTrades + Cardinality(Clients)

\* The sizes BoundInv speaks of, before and after a step.
LEMMA Sizes ==
  ASSUME Typed, Typed'
  PROVE  /\ OpenTradeCount \in Nat /\ OpenTradeCount' \in Nat
         /\ IsFiniteSet(Inflight) /\ IsFiniteSet(Inflight')
         /\ Cardinality(Inflight) \in Nat /\ Cardinality(Inflight') \in Nat
         /\ Cardinality(Clients) \in Nat
         /\ Cardinality(Inflight) <= Cardinality(Clients)
         /\ Cardinality(Inflight') <= Cardinality(Clients)
<1>1. Inflight \in SUBSET Clients /\ Inflight' \in SUBSET Clients
  BY DEF Inflight
<1>2. /\ IsFiniteSet(Inflight) /\ Cardinality(Inflight) <= Cardinality(Clients)
      /\ IsFiniteSet(Inflight') /\ Cardinality(Inflight') <= Cardinality(Clients)
  BY <1>1, SlotsAssumption, FS_Subset
<1> QED
  BY <1>2, SlotsAssumption, FS_CardinalityType DEF OpenTradeCount, Typed, TypeOK

\* A step that creates no trade and lets no further thread pass the check.
LEMMA NothingAdded ==
  ASSUME Typed, Typed', BoundInv, open' \subseteq open, Inflight' \subseteq Inflight
  PROVE  BoundInv'
<1>1. OpenTradeCount' <= OpenTradeCount
  BY FS_Subset DEF OpenTradeCount, Typed, TypeOK
<1>2. Cardinality(Inflight') <= Cardinality(Inflight)
  BY Sizes, FS_Subset
<1> QED
  BY <1>1, <1>2, Sizes, SlotsAssumption DEF BoundInv

LEMMA MainBound ==
  ASSUME Typed, Typed', PlacedHasSlot, BoundInv, MainThread
  PROVE  BoundInv'
<1> USE DEF mainVars, clientVars
<1>1. Inflight' = Inflight
  BY DEF Inflight, MainThread, MainBegin, MainAcquireExits, MainEndsTrade, MainReleaseExits,
         MainGate, MainWhitelist, MainAcquire, MainPlace, MainCommit, MainSkip, MainEnd
<1>2. CASE MainCommit
  <2>1. OpenTradeCount' <= OpenTradeCount + 1
    BY <1>2, InsertTyped DEF MainCommit, Typed, TypeOK, WorksOnPair, OpenTradeCount
  <2>2. OpenTradeCount < MaxOpenTrades
    BY <1>2 DEF MainCommit, PlacedHasSlot, FreeSlot
  <2> QED
    BY <1>1, <2>1, <2>2, Sizes, SlotsAssumption DEF BoundInv
<1>3. CASE ~ MainCommit
  <2>1. open' \subseteq open
    BY <1>3 DEF MainThread, MainBegin, MainAcquireExits, MainEndsTrade, EndTrade, MainReleaseExits,
           MainGate, MainWhitelist, MainAcquire, MainPlace, MainSkip, MainEnd
  <2> QED
    BY <1>1, <2>1, NothingAdded
<1> QED
  BY <1>2, <1>3

LEMMA RpcBound ==
  ASSUME Typed, Typed', BoundInv, NEW c \in Clients, RpcThread(c)
  PROVE  BoundInv'
<1> USE DEF Typed, TypeOK, clientVars
\* The check under which the bound is established: fewer trades than the limit.
<1>1. CASE FeCount(c)
  <2>1. OpenTradeCount' = OpenTradeCount /\ OpenTradeCount < MaxOpenTrades
    BY <1>1, Sizes, SlotsAssumption DEF FeCount, RefusedAtLimit, OpenTradeCount
  <2> QED
    BY <2>1, Sizes, SlotsAssumption DEF BoundInv
\* The commit of a new trade: one trade more, one thread in flight less.
<1>2. CASE FeCommit(c) /\ snap[c] = NoTrade
  <2>1. OpenTradeCount' <= OpenTradeCount + 1
    BY <1>2, InsertTyped DEF FeCommit, WorksOnPair, OpenTradeCount
  <2>2. c \in Inflight /\ Inflight' = Inflight \ {c}
    BY <1>2 DEF Inflight, FeCommit, FeLeave
  <2>3. Cardinality(Inflight') = Cardinality(Inflight) - 1
    BY <2>2, Sizes, FS_RemoveElement
  <2> QED
    BY <2>1, <2>3, Sizes, SlotsAssumption DEF BoundInv
<1>3. CASE FeCommit(c) /\ snap[c] # NoTrade
  <2>1. open' \subseteq open /\ Inflight' \subseteq Inflight
    BY <1>3 DEF FeCommit, FeLeave, Inflight
  <2> QED
    BY <2>1, NothingAdded
\* A thread that found a trade of the pair adds an order to it, not a trade.
<1>4. CASE FeLookupTrade(c)
  <2>1. snap'[c] # NoTrade
    BY <1>4 DEF FeLookupTrade, OpenOn, Trade, NoTrade
  <2>2. open' \subseteq open /\ Inflight' \subseteq Inflight
    BY <1>4, <2>1 DEF FeLookupTrade, Inflight
  <2> QED
    BY <2>2, NothingAdded
<1>5. CASE ~ (FeCount(c) \/ FeCommit(c) \/ FeLookupTrade(c))
  <2>1. open' \subseteq open
    BY <1>5 DEF RpcThread, FeValidate, FeLookupNone, FeLookupRefused, FeCountRefused, FeAcquire,
           FePlace, FeFail, RpcEndsTrade, RpcReloadTrade, EndTrade, RpcSetState
  <2>2. Inflight' \subseteq Inflight
    <3>1. CASE FeLookupRefused(c) \/ FeCountRefused(c) \/ FeFail(c)
      BY <3>1 DEF FeLookupRefused, FeCountRefused, FeFail, FeLeave, Inflight
    <3>2. CASE FeLookupNone(c) \/ FeAcquire(c) \/ FePlace(c) \/ \E p \in Pairs : FeValidate(c, p)
      BY <3>2 DEF FeLookupNone, FeAcquire, FePlace, FeValidate, Inflight
    <3>3. CASE UNCHANGED <<cpc, snap>>
      BY <3>3 DEF Inflight
    <3> QED
      BY <1>5, <3>1, <3>2, <3>3 DEF RpcThread, RpcEndsTrade, RpcReloadTrade, RpcSetState
  <2> QED
    BY <2>1, <2>2, NothingAdded
<1> QED
  BY <1>1, <1>2, <1>3, <1>4, <1>5

\* max_open_trades is exceeded by at most one trade per RPC thread, although
\* _rpc_force_entry counts the open trades before it takes the lock.
THEOREM LimitExceededByClientsOnly == Spec => []OpenTradesBounded
<1>1. Init => BoundInv
  <2> SUFFICES ASSUME Init PROVE BoundInv
    OBVIOUS
  <2>1. open = {} /\ Inflight = {}
    BY DEF Init, Inflight
  <2> QED
    BY <2>1, FS_EmptySet, FS_CardinalityType, SlotsAssumption DEF BoundInv, OpenTradeCount
<1>2. Typed /\ Typed' /\ PlacedHasSlot /\ BoundInv /\ [Next]_vars => BoundInv'
  <2>1. Typed /\ Typed' /\ BoundInv /\ UNCHANGED vars => BoundInv'
    BY NothingAdded DEF vars, clientVars, Inflight
  <2> QED
    BY <2>1, MainBound, RpcBound DEF Next
<1>3. Typed /\ BoundInv => OpenTradesBounded
  <2> SUFFICES ASSUME Typed, BoundInv PROVE OpenTradesBounded
    OBVIOUS
  <2>1. Inflight \in SUBSET Clients
    BY DEF Inflight
  <2>2. /\ Cardinality(Inflight) \in Nat /\ OpenTradeCount \in Nat
        /\ Cardinality(Clients) \in Nat
    BY <2>1, FS_Subset, FS_CardinalityType, SlotsAssumption DEF OpenTradeCount, Typed, TypeOK
  <2> QED
    BY <2>2, SlotsAssumption DEF BoundInv, OpenTradesBounded
<1> QED
  BY <1>1, <1>2, <1>3, TypedInvariant, SlotKept, PTL DEF Spec

(***************************************************************************)
(* max_open_trades as an abstract specification.                           *)
(***************************************************************************)

\* Trades come and go one at a time: whatever a thread does, the rows stay, one
\* of them ends, or one is added.
LEMMA OneAtATime ==
  ASSUME Typed, [Next]_vars
  PROVE  \/ open' = open
         \/ \E t \in open : open' = open \ {t}
         \/ \E t \in open' : open' = open \cup {t}
<1>1. \A p, who : InsertTrade(p, who) => \E t \in open' : open' = open \cup {t}
  BY DEF InsertTrade
<1>2. CASE MainThread
  <2>1. CASE MainCommit
    BY <2>1, <1>1 DEF MainCommit
  <2>2. CASE \E t \in open : MainEndsTrade(t)
    BY <2>2 DEF MainEndsTrade, EndTrade
  <2> QED
    BY <1>2, <2>1, <2>2 DEF MainThread, MainBegin, MainAcquireExits, MainReleaseExits, MainGate,
           MainWhitelist, MainAcquire, MainPlace, MainSkip, MainEnd, mainVars, clientVars
<1>3. ASSUME NEW c \in Clients, RpcThread(c)
      PROVE  \/ open' = open
             \/ \E t \in open : open' = open \ {t}
             \/ \E t \in open' : open' = open \cup {t}
  <2>1. CASE FeCommit(c)
    BY <2>1, <1>1 DEF FeCommit
  <2>2. CASE \E t \in open : RpcEndsTrade(c, t) \/ RpcReloadTrade(c, t)
    BY <2>2 DEF RpcEndsTrade, RpcReloadTrade, EndTrade
  <2> QED
    BY <1>3, <2>1, <2>2 DEF RpcThread, FeValidate, FeLookupNone, FeLookupTrade, FeLookupRefused,
           FeCount, FeCountRefused, FeAcquire, FePlace, FeFail, RpcSetState, mainVars
<1> QED
  BY <1>2, <1>3 DEF Next, vars

\* EntrySlots implements Slots with one slot more per RPC thread: no step opens
\* two trades or opens one when no slot is left.
THEOREM ImplementsSlots == Spec => KeepsSlots
<1>1. Init => Open!Init
  BY DEF Init, Open!Init
<1>2. ASSUME Typed, Typed', OpenTradesBounded, OpenTradesBounded', [Next]_vars
      PROVE  [Open!Next]_open
  <2>1. CASE \E t \in open : open' = open \ {t}
    BY <2>1 DEF Open!Next, Open!Give
  <2>2. ASSUME NEW t \in open', open' = open \cup {t}, t \notin open
        PROVE  Open!Take
    <3>1. Cardinality(open') = Cardinality(open) + 1
      BY <1>2, <2>2, FS_AddElement DEF Typed, TypeOK
    <3>2. Cardinality(open) \in Nat /\ Cardinality(Clients) \in Nat
      BY <1>2, FS_CardinalityType, SlotsAssumption DEF Typed, TypeOK
    <3>3. Cardinality(open) < MaxOpenTrades + Cardinality(Clients)
      BY <1>2, <3>1, <3>2, SlotsAssumption DEF OpenTradesBounded, OpenTradeCount
    <3>4. Open!Cardinality(open) = Cardinality(open)
      BY DEF Cardinality, Open!Cardinality
    <3> QED
      BY <2>2, <3>3, <3>4 DEF Open!Take
  <2>3. ASSUME NEW t \in open', open' = open \cup {t}, t \in open
        PROVE  open' = open
    BY <2>3
  <2> QED
    BY <1>2, <2>1, <2>2, <2>3, OneAtATime DEF Open!Next
<1>3. Spec => [][Open!Next]_open
  BY <1>2, TypedInvariant, LimitExceededByClientsOnly, PTL DEF Spec
<1> QED
  BY <1>1, <1>3 DEF Spec, KeepsSlots, Open!Spec

(***************************************************************************)
(* The main thread never opens two trades of one pair.                     *)
(***************************************************************************)

\* Pairs the main thread may still open a trade of in this round.
Ahead == todo \cup (IF mpc \in {"create", "placed"} THEN {cur} ELSE {})

\* No pair ahead of the main thread has a trade of the main thread's own.
AheadIsFree ==
  /\ mpc \in {"create", "placed"} => cur \notin todo
  /\ \A t \in open : t.by = "main" => t.pair \notin Ahead

\* The whitelist is filtered once and the lock is released between the pairs,
\* yet the main thread opens at most one trade of a pair: no one else creates
\* trades in its name, and it visits each pair once.
THEOREM MainOpensPairOnce == Spec => []MainNeverDuplicates
<1> DEFINE OwnInv == AheadIsFree /\ MainNeverDuplicates
<1>1. Init => OwnInv
  BY DEF Init, AheadIsFree, MainNeverDuplicates
<1>2. Typed /\ OwnInv /\ [Next]_vars => OwnInv'
  <2> SUFFICES ASSUME Typed, OwnInv, [Next]_vars PROVE OwnInv'
    OBVIOUS
  <2> USE DEF AheadIsFree, Ahead, MainNeverDuplicates, mainVars, clientVars
  <2>1. CASE MainCommit
    BY <2>1 DEF MainCommit, InsertTrade
  <2>2. CASE MainWhitelist
    BY <2>2 DEF MainWhitelist, Whitelist, OpenOn, Typed, TypeOK
  <2>3. CASE \E p \in Pairs : MainAcquire(p)
    BY <2>3 DEF MainAcquire
  <2>4. CASE \/ MainBegin \/ MainAcquireExits \/ MainReleaseExits \/ MainGate
             \/ MainPlace \/ MainSkip \/ MainEnd \/ \E t \in open : MainEndsTrade(t)
    BY <2>4 DEF MainBegin, MainAcquireExits, MainReleaseExits, MainGate, MainPlace, MainSkip,
                MainEnd, MainEndsTrade, EndTrade
  <2>5. ASSUME NEW c \in Clients, RpcThread(c)
        PROVE  OwnInv'
    <3>1. UNCHANGED mainVars
      BY <2>5 DEF RpcThread, FeValidate, FeLookupNone, FeLookupTrade, FeLookupRefused, FeCount,
             FeCountRefused, FeAcquire, FePlace, FeCommit, FeFail, RpcEndsTrade, RpcReloadTrade,
             RpcSetState
    <3>2. \A t \in open' : t.by = "main" => t \in open
      BY <2>5 DEF RpcThread, FeValidate, FeLookupNone, FeLookupTrade, FeLookupRefused, FeCount,
             FeCountRefused, FeAcquire, FePlace, FeCommit, FeFail, RpcEndsTrade, RpcReloadTrade,
             RpcSetState, InsertTrade, EndTrade
    <3> QED
      BY <3>1, <3>2
  <2>6. CASE UNCHANGED vars
    BY <2>6 DEF vars
  <2> QED
    BY <2>1, <2>2, <2>3, <2>4, <2>5, <2>6 DEF Next, MainThread
<1>3. OwnInv => MainNeverDuplicates
  OBVIOUS
<1> QED
  BY <1>1, <1>2, <1>3, TypedInvariant, PTL DEF Spec
=============================================================================
