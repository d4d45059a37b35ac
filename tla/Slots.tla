-------------------------------- MODULE Slots --------------------------------
(***************************************************************************)
(* What max_open_trades promises: trades are opened one at a time, and only *)
(* while fewer than Limit are open.  EntrySlots and Backtest implement it.  *)
(***************************************************************************)
EXTENDS Naturals, FiniteSets

CONSTANT Limit

VARIABLE held   \* the open trades

Init == held = {}

Take == Cardinality(held) < Limit /\ \E t \in held' \ held : held' = held \cup {t}

Give == \E t \in held : held' = held \ {t}

Next == Take \/ Give

Spec == Init /\ [][Next]_held
=============================================================================
