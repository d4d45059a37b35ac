--------------------------- MODULE PairLocksProofs ---------------------------
(***************************************************************************)
(* What holds of PairLocks for any pairs, any length of a candle, any      *)
(* durations of locks, and any number of locks and ticks.                  *)
(*                                                                         *)
(* Both properties follow from a promise about the table: whatever was     *)
(* decided in the past and not lifted by hand has an active row that is    *)
(* at least as wide and ends later.                                        *)
(***************************************************************************)
EXTENDS PairLocks, TLAPS, FiniteSetTheorems

\* The analyzed candle of a pair is over.
Analyzed == \A p \in Pairs : data[p] + Timeframe <= now

\* An exit is in the past.
Exited == \A p \in Pairs, s \in Sides : exits[p][s] <= now

\* An active row for the pair, or all, on the side, or both, that ends after t.
Held(rs, p, s, t) ==
  \E r \in rs : r.active /\ r.pair \in {p, "*"} /\ r.side \in {s, "*"} /\ r.end > t

\* handle_protections has not come to the automatic lock of this exit.
Awaited(p, s) == closing.step = "auto" /\ closing.pair = p /\ closing.side = s

\* Every exit is followed by a lock, or about to be.
ExitsHeld ==
  \A p \in Pairs, s \in Sides :
    exits[p][s] # Never => Awaited(p, s) \/ Held(rows, p, s, exits[p][s])

\* Every verdict of a protection is backed by a lock, its own or another.
VerdictsHeld == \A v \in verdicts : Held(rows, v.pair, v.side, v.until)

Typed == TypeOK /\ IsFiniteSet(rows)

IInv == Typed /\ Analyzed /\ Exited /\ ExitsHeld /\ VerdictsHeld

(***************************************************************************)
(* Candles.                                                                *)
(***************************************************************************)

\* The next candle begins later, but not by more than a candle.
LEMMA NextDateFacts ==
  ASSUME NEW t \in Nat
  PROVE  NextDate(t) \in Nat /\ t < NextDate(t) /\ NextDate(t) <= t + Timeframe
<1>1. Timeframe \in Nat /\ Timeframe > 0
  BY PairLocksAssumption
<1> DEFINE k == t \div Timeframe
<1>2. k \in Nat /\ k * Timeframe <= t /\ t < k * Timeframe + Timeframe
  BY <1>1
<1>3. (k + 1) * Timeframe = k * Timeframe + Timeframe
  BY <1>1, <1>2
<1> HIDE DEF k
<1>4. k * Timeframe \in Nat
  BY <1>1, <1>2
<1>5. NextDate(t) = k * Timeframe + Timeframe
  BY <1>3 DEF NextDate, k
<1> QED
  BY <1>1, <1>2, <1>4, <1>5

\* The last candle that is over ended by now.
LEMMA LastClosedFacts ==
  ASSUME NEW t \in Nat, t >= Timeframe
  PROVE  LastClosed(t) \in Nat /\ LastClosed(t) + Timeframe <= t
<1>1. Timeframe \in Nat /\ Timeframe > 0
  BY PairLocksAssumption
<1> DEFINE k == t \div Timeframe
<1>2. k \in Nat /\ k * Timeframe <= t /\ t < k * Timeframe + Timeframe
  BY <1>1
<1>3. k >= 1
  BY <1>1, <1>2
<1>4. (k - 1) * Timeframe + Timeframe = k * Timeframe
  BY <1>1, <1>2
<1> HIDE DEF k
<1>5. (k - 1) * Timeframe \in Nat
  BY <1>1, <1>2, <1>3
<1>6. LastClosed(t) = (k - 1) * Timeframe
  BY DEF LastClosed, k
<1> QED
  BY <1>1, <1>2, <1>4, <1>5, <1>6

(***************************************************************************)
(* The table.                                                              *)
(***************************************************************************)

\* More rows hold no less.
LEMMA HeldByMore ==
  ASSUME NEW R, NEW S, R \subseteq S, NEW p, NEW s, NEW t, Held(R, p, s, t)
  PROVE  Held(S, p, s, t)
BY DEF Held

\* What lock_pair inserts.
LEMMA LockedFacts ==
  ASSUME Typed, Room, NEW p \in Pairs \cup {"*"}, NEW s \in LockSide, NEW until \in Nat,
         NEW reason \in Reasons \cup {AutoLock, Protection},
         rows' = Locked(p, until, s, reason)
  PROVE  /\ rows \subseteq rows'
         /\ rows' \subseteq Lock /\ IsFiniteSet(rows') /\ Cardinality(rows') <= MaxLocks
         /\ \E r \in rows' : r.active /\ r.pair = p /\ r.side = s /\ r.end > until
<1> DEFINE r == [id |-> Cardinality(rows) + 1, pair |-> p, side |-> s,
                 end |-> NextDate(until), reason |-> reason, active |-> TRUE]
<1>1. rows' = rows \cup {r}
  BY DEF Locked
<1>2. NextDate(until) \in Nat /\ NextDate(until) > until
  BY NextDateFacts
<1>3. /\ IsFiniteSet(rows) /\ Cardinality(rows) \in Nat
      /\ MaxLocks \in Nat /\ Cardinality(rows) + 1 <= MaxLocks
  BY FS_CardinalityType, PairLocksAssumption DEF Typed, Room
<1>4. /\ IsFiniteSet(rows')
      /\ Cardinality(rows') \in {Cardinality(rows), Cardinality(rows) + 1}
  <2> HIDE DEF r
  <2> QED
    BY <1>1, <1>3, FS_AddElement
<1>5. r \in Lock
  BY <1>2, <1>3 DEF Lock
<1>6. r.active /\ r.pair = p /\ r.side = s /\ r.end > until
  BY <1>2
<1> HIDE DEF r
<1> QED
  BY <1>1, <1>3, <1>4, <1>5, <1>6 DEF Typed, TypeOK

\* Each of a finite set's elements is replaced: the set stays finite and does not
\* grow.
LEMMA ImageIsFinite ==
  ASSUME NEW S, IsFiniteSet(S), NEW f, f = [x \in S |-> f[x]]
  PROVE  /\ IsFiniteSet({f[x] : x \in S})
         /\ Cardinality({f[x] : x \in S}) <= Cardinality(S)
<1> DEFINE T == {f[x] : x \in S}
<1>1. f \in Surjection(S, T)
  BY DEF Surjection
<1> HIDE DEF T
<1> QED
  BY <1>1, FS_Surjection DEF T

\* Rows rs are replaced by others, and what they stood for is taken back.
LEMMA LiftFacts ==
  ASSUME IInv, NEW rs \in SUBSET rows, NEW new, rows' = (rows \ rs) \cup new, Lift(rs),
         UNCHANGED closing
  PROVE  /\ ExitsHeld' /\ VerdictsHeld' /\ verdicts' \subseteq verdicts
         /\ exits' \in [Pairs -> [Sides -> Nat \cup {Never}]]
         /\ \A p \in Pairs, s \in Sides : exits'[p][s] \in {exits[p][s], Never}
<1>1. /\ verdicts' \subseteq verdicts
      /\ exits' \in [Pairs -> [Sides -> Nat \cup {Never}]]
      /\ \A p \in Pairs, s \in Sides : exits'[p][s] \in {exits[p][s], Never}
  BY DEF IInv, Typed, TypeOK, Lift
<1>2. ASSUME NEW p, NEW s, NEW t, Held(rows, p, s, t),
             \A r \in rs : ~ (r.pair \in {p, "*"} /\ r.side \in {s, "*"})
      PROVE  Held(rows', p, s, t)
  BY <1>2 DEF Held
<1>3. ExitsHeld'
  <2> SUFFICES ASSUME NEW p \in Pairs, NEW s \in Sides, exits'[p][s] # Never
               PROVE  Awaited(p, s)' \/ Held(rows', p, s, exits'[p][s])
    BY DEF ExitsHeld
  <2>1. /\ exits'[p][s] = exits[p][s]
        /\ \A r \in rs : ~ (r.pair \in {p, "*"} /\ r.side \in {s, "*"})
    BY DEF Lift, IInv, Typed, TypeOK
  <2>2. Awaited(p, s) \/ Held(rows, p, s, exits[p][s])
    BY <2>1 DEF IInv, ExitsHeld
  <2> QED
    BY <2>1, <2>2, <1>2 DEF Awaited
<1>4. VerdictsHeld'
  <2> SUFFICES ASSUME NEW v \in verdicts' PROVE Held(rows', v.pair, v.side, v.until)
    BY DEF VerdictsHeld
  <2>1. /\ v \in verdicts
        /\ \A r \in rs : ~ (r.pair \in {v.pair, "*"} /\ r.side \in {v.side, "*"})
    BY DEF Lift
  <2> QED
    BY <2>1, <1>2 DEF IInv, VerdictsHeld
<1> QED
  BY <1>1, <1>3, <1>4

(***************************************************************************)
(* Steps.                                                                  *)
(***************************************************************************)

LEMMA InitIInv == Init => IInv
<1> SUFFICES ASSUME Init PROVE IInv
  OBVIOUS
<1>1. Timeframe \in Nat /\ LastClosed(now) \in Nat /\ LastClosed(now) + Timeframe <= now
  BY PairLocksAssumption, LastClosedFacts DEF Init
<1>2. Typed
  BY <1>1, FS_EmptySet, PairLocksAssumption DEF Init, Typed, TypeOK
<1>3. Analyzed /\ Exited /\ ExitsHeld /\ VerdictsHeld
  BY <1>1 DEF Init, Analyzed, Exited, ExitsHeld, VerdictsHeld, Never
<1> QED
  BY <1>2, <1>3 DEF IInv

\* Steps that only insert a row, if any.
LEMMA LockSteps ==
  ASSUME IInv, Room, NEW p \in Pairs \cup {"*"}, NEW s \in LockSide, NEW until \in Nat,
         NEW reason \in Reasons \cup {AutoLock, Protection},
         rows' \in {rows, Locked(p, until, s, reason)},
         UNCHANGED <<now, trade, data, closing, exits>>,
         \/ UNCHANGED verdicts
         \/ /\ Triggered(p, until, s)
            /\ rows' = Locked(p, until, s, reason) \/ Held(rows, p, s, until)
  PROVE  IInv'
<1>1. rows \subseteq rows'
  BY LockedFacts DEF IInv
<1>2. Typed'
  <2>1. rows' \subseteq Lock /\ IsFiniteSet(rows') /\ Cardinality(rows') <= MaxLocks
    BY LockedFacts DEF IInv, Typed, TypeOK
  <2>2. verdicts' \subseteq [pair : Pairs \cup {"*"}, side : LockSide, until : Nat]
    BY DEF IInv, Typed, TypeOK, Triggered
  <2> QED
    BY <2>1, <2>2 DEF IInv, Typed, TypeOK
<1>3. ExitsHeld'
  BY <1>1, HeldByMore DEF IInv, ExitsHeld, Awaited
<1>4. VerdictsHeld'
  <2>1. \A v \in verdicts : Held(rows', v.pair, v.side, v.until)
    BY <1>1, HeldByMore DEF IInv, VerdictsHeld
  <2>2. CASE UNCHANGED verdicts
    BY <2>1, <2>2 DEF VerdictsHeld
  <2>3. CASE /\ Triggered(p, until, s)
             /\ rows' = Locked(p, until, s, reason) \/ Held(rows, p, s, until)
    <3>1. Held(rows', p, s, until)
      BY <2>3, <1>1, LockedFacts, HeldByMore DEF IInv, Held
    <3> QED
      BY <3>1, <2>1, <2>3 DEF VerdictsHeld, Triggered
  <2> QED
    BY <2>2, <2>3
<1> QED
  BY <1>2, <1>3, <1>4 DEF IInv, Analyzed, Exited

LEMMA EnterStep == ASSUME IInv, NEW p \in Pairs, NEW s \in Sides, Enter(p, s) PROVE IInv'
BY DEF Enter, IInv, Typed, TypeOK, Analyzed, Exited, ExitsHeld, VerdictsHeld, Awaited

LEMMA ExitStep == ASSUME IInv, NEW p \in Pairs, Exit(p) PROVE IInv'
<1>1. trade[p] \in Sides
  BY DEF Exit, IInv, Typed, TypeOK
<1>2. \A q \in Pairs, s \in Sides :
        exits'[q][s] = IF q = p /\ s = trade[p] THEN now ELSE exits[q][s]
  BY <1>1 DEF Exit, IInv, Typed, TypeOK
<1>3. Typed'
  BY <1>1 DEF Exit, SideOf, IInv, Typed, TypeOK
<1>4. Exited'
  BY <1>2 DEF Exit, IInv, Exited, Typed, TypeOK
<1>5. ExitsHeld'
  <2> SUFFICES ASSUME NEW q \in Pairs, NEW s \in Sides, exits'[q][s] # Never
               PROVE  Awaited(q, s)' \/ Held(rows', q, s, exits'[q][s])
    BY DEF ExitsHeld
  <2>1. CASE q = p /\ s = trade[p]
    BY <2>1 DEF Exit, SideOf, Awaited
  <2>2. CASE ~ (q = p /\ s = trade[p])
    BY <2>2, <1>2 DEF Exit, IInv, ExitsHeld, Awaited, Idle
  <2> QED
    BY <2>1, <2>2
<1> QED
  BY <1>3, <1>4, <1>5 DEF Exit, IInv, Analyzed, VerdictsHeld

LEMMA StopFoundStep == ASSUME IInv, NEW p \in Pairs, StopFound(p) PROVE IInv'
BY DEF StopFound, IInv, Typed, TypeOK, Analyzed, Exited, ExitsHeld, VerdictsHeld, Awaited

LEMMA AnalyzeStep == ASSUME IInv, NEW p \in Pairs, Analyze(p) PROVE IInv'
<1>1. now >= Timeframe
  BY PairLocksAssumption DEF IInv, Typed, TypeOK, Analyzed
<1>2. LastClosed(now) \in Nat /\ LastClosed(now) + Timeframe <= now
  BY <1>1, LastClosedFacts DEF IInv, Typed, TypeOK
<1> QED
  BY <1>2 DEF Analyze, IInv, Typed, TypeOK, Analyzed, Exited, ExitsHeld, VerdictsHeld, Awaited

\* The automatic lock ends after the exit it is for.
LEMMA AutoLockStep == ASSUME IInv, SetAutoLock PROVE IInv'
<1> DEFINE p == closing.pair
           s == closing.side
<1>1. p \in Pairs /\ s \in Sides /\ closing \in [step : {"auto"}, pair : Pairs, side : Sides]
  BY DEF SetAutoLock, IInv, Typed, TypeOK, Idle
<1>2. rows' = Locked(p, now, s, AutoLock) /\ now \in Nat
  BY DEF SetAutoLock, IInv, Typed, TypeOK
<1>3. /\ rows \subseteq rows'
      /\ \E r \in rows' : r.active /\ r.pair = p /\ r.side = s /\ r.end > now
      /\ Typed'
  <2>1. p \in Pairs \cup {"*"} /\ s \in LockSide /\ AutoLock \in Reasons \cup {AutoLock, Protection}
    BY <1>1 DEF LockSide
  <2>2. /\ rows \subseteq rows'
        /\ rows' \subseteq Lock /\ IsFiniteSet(rows') /\ Cardinality(rows') <= MaxLocks
        /\ \E r \in rows' : r.active /\ r.pair = p /\ r.side = s /\ r.end > now
    <3> HIDE DEF p, s
    <3> QED
      BY <1>2, <2>1, LockedFacts DEF IInv, SetAutoLock
  <2>3. closing' \in [step : {"auto", "pair", "global"}, pair : Pairs, side : Sides]
    BY <1>1 DEF SetAutoLock
  <2>4. Typed'
    BY <2>2, <2>3 DEF SetAutoLock, IInv, Typed, TypeOK
  <2> QED
    BY <2>2, <2>4
<1>4. ExitsHeld'
  <2> SUFFICES ASSUME NEW q \in Pairs, NEW t \in Sides, exits'[q][t] # Never
               PROVE  Held(rows', q, t, exits'[q][t])
    BY DEF ExitsHeld
  <2>1. CASE q = p /\ t = s
    <3>1. exits[q][t] <= now /\ exits[q][t] \in Nat \cup {Never} /\ exits' = exits
      BY DEF SetAutoLock, IInv, Exited, Typed, TypeOK
    <3>2. PICK r \in rows' : r.active /\ r.pair = p /\ r.side = s /\ r.end > now
      BY <1>3
    <3>3. r.end > exits[q][t]
      BY <3>1, <3>2, <1>2, <1>3 DEF Typed, TypeOK, Lock, Never
    <3> QED
      BY <2>1, <3>1, <3>2, <3>3 DEF Held
  <2>2. CASE ~ (q = p /\ t = s)
    BY <2>2, <1>3, HeldByMore DEF SetAutoLock, IInv, ExitsHeld, Awaited
  <2> QED
    BY <2>1, <2>2
<1>5. VerdictsHeld'
  BY <1>3, HeldByMore DEF SetAutoLock, IInv, VerdictsHeld
<1> QED
  BY <1>3, <1>4, <1>5 DEF SetAutoLock, IInv, Analyzed, Exited

LEMMA StopPairStep ==
  ASSUME IInv, NEW d \in Durations, NEW s \in LockSide, StopPair(now + d, s)
  PROVE  IInv'
<1> DEFINE p == closing.pair
           until == now + d
<1>1. p \in Pairs /\ until \in Nat
  BY PairLocksAssumption DEF StopPair, IInv, Typed, TypeOK, Idle
<1>2. ASSUME LockedBy(p, until, s) PROVE Held(rows, p, s, until)
  BY <1>2 DEF LockedBy, IsPairLocked, IsGlobalLock, Locks, Covers, Held
<1>3. Room /\ Triggered(p, until, s) /\ UNCHANGED <<now, trade, data, closing, exits>>
  BY DEF StopPair
<1>4. /\ rows' \in {rows, Locked(p, until, s, Protection)}
      /\ rows' = Locked(p, until, s, Protection) \/ Held(rows, p, s, until)
  BY <1>2 DEF StopPair
<1> HIDE DEF p, until
<1> QED
  BY <1>1, <1>3, <1>4, LockSteps

LEMMA StopGlobalStep ==
  ASSUME IInv, NEW d \in Durations, NEW s \in LockSide, StopGlobal(now + d, s)
  PROVE  IInv'
<1> DEFINE until == now + d
<1>1. until \in Nat
  BY PairLocksAssumption DEF IInv, Typed, TypeOK
<1>2. ASSUME IsGlobalLock(until, s) PROVE Held(rows, "*", s, until)
  BY <1>2 DEF IsGlobalLock, Locks, Covers, Held
<1>3. Room /\ Triggered("*", until, s) /\ UNCHANGED <<now, trade, data, closing, exits>>
  BY DEF StopGlobal
<1>4. /\ rows' \in {rows, Locked("*", until, s, Protection)}
      /\ rows' = Locked("*", until, s, Protection) \/ Held(rows, "*", s, until)
  BY <1>2 DEF StopGlobal
<1> HIDE DEF until
<1> QED
  BY <1>1, <1>3, <1>4, LockSteps

LEMMA AddLockStep ==
  ASSUME IInv, NEW p \in Pairs \cup {"*"}, NEW d \in Durations, NEW s \in LockSide,
         NEW r \in Reasons, AddLock(p, now + d, s, r)
  PROVE  IInv'
<1>1. now + d \in Nat
  BY PairLocksAssumption DEF IInv, Typed, TypeOK
<1> QED
  BY <1>1, LockSteps DEF AddLock

LEMMA ClosingSteps ==
  ASSUME IInv, PairsDone \/ ProtectionsDone
  PROVE  IInv'
<1>1. Typed'
  BY DEF PairsDone, ProtectionsDone, IInv, Typed, TypeOK, Idle
<1>2. \A p \in Pairs, s \in Sides : ~ Awaited(p, s)
  BY DEF PairsDone, ProtectionsDone, Awaited
<1> QED
  BY <1>1, <1>2 DEF PairsDone, ProtectionsDone, IInv, Analyzed, Exited, ExitsHeld, VerdictsHeld

LEMMA CrashStep == ASSUME IInv, Crash PROVE IInv'
<1>1. \A p \in Pairs, s \in Sides :
        exits'[p][s] = IF Awaited(p, s) THEN Never ELSE exits[p][s]
  BY DEF Crash, IInv, Typed, TypeOK, Awaited, Idle
<1>2. Typed'
  BY DEF Crash, IInv, Typed, TypeOK, Idle
<1>3. Exited'
  BY <1>1 DEF Crash, IInv, Exited, Typed, TypeOK, Never
<1>4. ExitsHeld'
  BY <1>1 DEF Crash, IInv, ExitsHeld
<1> QED
  BY <1>2, <1>3, <1>4 DEF Crash, IInv, Analyzed, VerdictsHeld

\* Rows that are replaced one by one stay finitely many.
LEMMA ReplacedIsFinite ==
  ASSUME NEW rs \in SUBSET rows, IsFiniteSet(rows), NEW g, g = [r \in rs |-> g[r]]
  PROVE  /\ IsFiniteSet((rows \ rs) \cup {g[r] : r \in rs})
         /\ Cardinality((rows \ rs) \cup {g[r] : r \in rs}) <= Cardinality(rows)
<1> DEFINE f == [r \in rows |-> IF r \in rs THEN g[r] ELSE r]
<1>1. (rows \ rs) \cup {g[r] : r \in rs} = {f[r] : r \in rows}
  OBVIOUS
<1>2. f = [r \in rows |-> f[r]]
  OBVIOUS
<1> HIDE DEF f
<1> QED
  BY <1>1, <1>2, ImageIsFinite


\* Each of the rows rs is replaced by g of it, which is no longer active.
LEMMA ReplaceStep ==
  ASSUME IInv, NEW rs \in SUBSET rows, NEW g, g = [r \in rs |-> g[r]],
         \A r \in rs : g[r] \in Lock,
         rows' = (rows \ rs) \cup {g[r] : r \in rs}, Lift(rs),
         UNCHANGED <<now, trade, data, closing>>
  PROVE  IInv'
<1> DEFINE new == {g[r] : r \in rs}
<1>1. /\ ExitsHeld' /\ VerdictsHeld' /\ verdicts' \subseteq verdicts
      /\ exits' \in [Pairs -> [Sides -> Nat \cup {Never}]]
      /\ \A p \in Pairs, s \in Sides : exits'[p][s] \in {exits[p][s], Never}
  <2>1. rows' = (rows \ rs) \cup new
    OBVIOUS
  <2> HIDE DEF new
  <2> QED
    BY <2>1, LiftFacts
<1>2. IsFiniteSet(rows) /\ Cardinality(rows) <= MaxLocks /\ rows \subseteq Lock
  BY DEF IInv, Typed, TypeOK
<1>3. IsFiniteSet(rows') /\ Cardinality(rows') <= Cardinality(rows)
  BY <1>2, ReplacedIsFinite
<1>4. Cardinality(rows) \in Nat /\ Cardinality(rows') \in Nat /\ MaxLocks \in Nat
  BY <1>2, <1>3, FS_CardinalityType, PairLocksAssumption
<1>5. rows' \subseteq Lock
  BY <1>2
<1>6. Typed'
  BY <1>1, <1>2, <1>3, <1>4, <1>5 DEF IInv, Typed, TypeOK
<1> QED
  BY <1>1, <1>6 DEF IInv, Analyzed, Exited, Typed, TypeOK, Never

LEMMA ReleaseStep ==
  ASSUME IInv, NEW rs \in SUBSET rows, Release(rs), UNCHANGED <<now, trade, data, closing>>
  PROVE  IInv'
<1> DEFINE g == [r \in rs |-> [r EXCEPT !.active = FALSE]]
<1>1. \A r \in rs : g[r] \in Lock
  <2>1. \A r \in Lock : [r EXCEPT !.active = FALSE] \in Lock
    BY DEF Lock
  <2> QED
    BY <2>1 DEF IInv, Typed, TypeOK
<1>2. rows' = (rows \ rs) \cup {g[r] : r \in rs} /\ Lift(rs)
  BY DEF Release
<1>3. g = [r \in rs |-> g[r]]
  OBVIOUS
<1> HIDE DEF g
<1> QED
  BY <1>1, <1>2, <1>3, ReplaceStep

LEMMA DeleteStep ==
  ASSUME IInv, NEW rs \in SUBSET rows, DeleteLocks(rs)
  PROVE  IInv'
<1> DEFINE g == [r \in rs |-> [r EXCEPT !.active = FALSE, !.end = now]]
<1>1. \A r \in rs : g[r] \in Lock
  <2>1. now \in Nat /\ rows \subseteq Lock
    BY DEF IInv, Typed, TypeOK
  <2>2. \A r \in Lock : [r EXCEPT !.active = FALSE, !.end = now] \in Lock
    BY <2>1 DEF Lock
  <2> QED
    BY <2>1, <2>2
<1>2. /\ rows' = (rows \ rs) \cup {g[r] : r \in rs} /\ Lift(rs)
      /\ UNCHANGED <<now, trade, data, closing>>
  BY DEF DeleteLocks
<1>3. g = [r \in rs |-> g[r]]
  OBVIOUS
<1> HIDE DEF g
<1> QED
  BY <1>1, <1>2, <1>3, ReplaceStep

LEMMA TickStep == ASSUME IInv, Tick PROVE IInv'
<1>1. now \in Nat /\ now' = now + 1 /\ Timeframe \in Nat
  BY PairLocksAssumption DEF Tick, IInv, Typed, TypeOK
<1>2. Analyzed'
  BY <1>1 DEF Tick, IInv, Typed, TypeOK, Analyzed
<1>3. Exited'
  BY <1>1 DEF Tick, IInv, Typed, TypeOK, Exited, Never
<1> QED
  BY <1>1, <1>2, <1>3 DEF Tick, IInv, Typed, TypeOK, ExitsHeld, VerdictsHeld, Awaited

LEMMA NextStep == IInv /\ [Next]_vars => IInv'
<1> SUFFICES ASSUME IInv, [Next]_vars PROVE IInv'
  OBVIOUS
<1>1. CASE Main
  BY <1>1, ExitStep, StopFoundStep, AnalyzeStep, EnterStep, AutoLockStep, ClosingSteps, StopPairStep,
     StopGlobalStep DEF Main
<1>2. CASE Strategy
  <2>1. ASSUME NEW p \in Pairs, UnlockPair(p) PROVE IInv'
    BY <2>1, ReleaseStep DEF UnlockPair, Locks
  <2>2. ASSUME NEW r \in Reasons, UnlockReason(r) PROVE IInv'
    BY <2>2, ReleaseStep DEF UnlockReason
  <2> QED
    BY <1>2, <2>1, <2>2, AddLockStep DEF Strategy
<1>3. CASE Rpc
  BY <1>3, DeleteStep DEF Rpc, DeleteByPair, DeleteById
<1>4. CASE UNCHANGED vars
  BY <1>4 DEF vars, IInv, Typed, TypeOK, Analyzed, Exited, ExitsHeld, VerdictsHeld, Awaited
<1> QED
  BY <1>1, <1>2, <1>3, <1>4, CrashStep, TickStep DEF Next

LEMMA IInvHolds == Spec => []IInv
BY InitIInv, NextStep, PTL DEF Spec

(***************************************************************************)
(* Results.                                                                *)
(***************************************************************************)

\* The table of locks, the dataframes and the steps of handle_protections keep
\* their types, and the rows their number.
THEOREM TypesHold == Spec => []TypeOK
<1>1. IInv => TypeOK
  BY DEF IInv, Typed
<1> QED
  BY <1>1, IInvHolds, PTL

\* What Enter asks of the table: no row that covers the pair and side ends after
\* the candle that follows the signal's.
LEMMA EnterSteps ==
  ASSUME IInv, [Next]_vars, NEW p \in Pairs, NEW s \in Sides, Enters(p, s)
  PROVE  /\ closing = Idle
         /\ \A t \in Nat : SignalTime(p) <= t => ~ Held(rows, p, s, t)
<1>1. Enter(p, s)
  <2>1. trade[p] = "none" /\ trade'[p] = s /\ s # "none"
    BY DEF Enters, Sides
  <2>2. ASSUME NEW q \in Pairs, NEW t \in Sides, Enter(q, t) PROVE Enter(p, s)
    <3>1. q = p /\ t = s
      BY <2>1, <2>2 DEF Enter, IInv, Typed, TypeOK
    <3> QED
      BY <3>1, <2>2
  <2>3. trade' # trade
    BY <2>1
  <2>4. ASSUME NEW q \in Pairs, Exit(q) \/ StopFound(q) PROVE FALSE
    BY <2>1, <2>4 DEF Exit, StopFound, IInv, Typed, TypeOK
  <2> QED
    BY <2>2, <2>3, <2>4 DEF Next, Main, Strategy, Rpc, vars, Analyze, SetAutoLock, PairsDone,
       ProtectionsDone, StopPair, StopGlobal, AddLock, UnlockPair, UnlockReason,
       DeleteByPair, DeleteById, DeleteLocks, Crash, Tick
<1>2. closing = Idle /\ ~ IsPairLocked(p, SignalTime(p), s)
  BY <1>1 DEF Enter
<1>3. SignalTime(p) \in Nat
  BY NextDateFacts DEF SignalTime, IInv, Typed, TypeOK
<1>4. ASSUME NEW t \in Nat, SignalTime(p) <= t, NEW r \in rows, r.active,
             r.pair \in {p, "*"}, r.side \in {s, "*"}, r.end > t
      PROVE  FALSE
  <2>1. r.end \in Nat
    BY DEF IInv, Typed, TypeOK, Lock
  <2>2. r.end > SignalTime(p)
    BY <2>1, <1>3, <1>4
  <2> QED
    BY <2>2, <1>2, <1>4 DEF IsPairLocked, IsGlobalLock, Locks, Covers
<1> QED
  BY <1>2, <1>4 DEF Held

\* After an exit that handle_protections is called for, the automatic lock and
\* is_pair_locked of the strategy keep the bot out of that pair and side until a
\* candle is analyzed that was not over at the exit, for any pairs, timeframe,
\* durations, and number of locks and ticks.  A stoploss found filled elsewhere
\* (StopFound) is not such an exit.
THEOREM OldSignalsAreLocked == Spec => NoEntryOnOldSignal
<1>1. IInv /\ [Next]_vars =>
        [\A p \in Pairs, s \in Sides : Enters(p, s) => exits[p][s] < data[p] + Timeframe]_vars
  <2> SUFFICES ASSUME IInv, [Next]_vars, NEW p \in Pairs, NEW s \in Sides, Enters(p, s)
               PROVE  exits[p][s] < data[p] + Timeframe
    OBVIOUS
  <2>1. data[p] \in Nat /\ exits[p][s] \in Nat \cup {Never} /\ Timeframe \in Nat \ {0}
    BY PairLocksAssumption DEF IInv, Typed, TypeOK
  <2>2. SignalTime(p) \in Nat /\ SignalTime(p) <= data[p] + Timeframe
    BY <2>1, NextDateFacts DEF SignalTime
  <2>3. closing = Idle /\ \A t \in Nat : SignalTime(p) <= t => ~ Held(rows, p, s, t)
    BY EnterSteps
  <2>4. exits[p][s] # Never => Held(rows, p, s, exits[p][s])
    BY <2>3 DEF IInv, ExitsHeld, Awaited, Idle
  <2> QED
    BY <2>1, <2>2, <2>3, <2>4 DEF Never
<1> QED
  BY <1>1, IInvHolds, PTL DEF Spec, NoEntryOnOldSignal

\* What a protection of handle_protections decided holds to its end, for any
\* pairs, timeframe, durations, and number of locks and ticks.
THEOREM VerdictsAreKept == Spec => ProtectionHolds
<1> DEFINE Kept(p, s) == \A v \in verdicts :
                           (v.pair \in {p, "*"} /\ v.side \in {s, "*"}) => v.until <= now
<1>1. IInv /\ [Next]_vars => [\A p \in Pairs, s \in Sides : Enters(p, s) => Kept(p, s)]_vars
  <2> SUFFICES ASSUME IInv, [Next]_vars, NEW p \in Pairs, NEW s \in Sides, Enters(p, s),
                      NEW v \in verdicts, v.pair \in {p, "*"}, v.side \in {s, "*"},
                      ~ (v.until <= now)
               PROVE  FALSE
    BY DEF Kept
  <2>1. data[p] \in Nat /\ now \in Nat /\ v.until \in Nat /\ data[p] + Timeframe <= now
        /\ Timeframe \in Nat
    BY PairLocksAssumption DEF IInv, Typed, TypeOK, Analyzed
  <2>2. SignalTime(p) \in Nat /\ SignalTime(p) <= data[p] + Timeframe
    BY <2>1, NextDateFacts DEF SignalTime
  <2>3. ~ Held(rows, p, s, v.until)
    BY <2>1, <2>2, EnterSteps
  <2>4. Held(rows, v.pair, v.side, v.until)
    BY DEF IInv, VerdictsHeld
  <2> QED
    BY <2>3, <2>4 DEF Held
<1> HIDE DEF Kept
<1>2. Spec => [][\A p \in Pairs, s \in Sides : Enters(p, s) => Kept(p, s)]_vars
  BY <1>1, IInvHolds, PTL DEF Spec
<1> QED
  BY <1>2 DEF ProtectionHolds, Kept
=============================================================================
