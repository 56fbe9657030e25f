----------------------------- MODULE GateClock -----------------------------
(***************************************************************************)
(* The clock that the gates of memtrace-lite share (Throttle, Cooldown,    *)
(* Suppress, Debounce): milliseconds that pass one by one and do not go    *)
(* back, and the durations the gates are set up with.                      *)
(***************************************************************************)
EXTENDS Integers

CONSTANTS Durations,   \* intervals, periods and windows, in ms
          Counts,      \* event counts that a gate is set up with
          MaxTime,     \* bound: the last time of the clock
          Never        \* not a time

ASSUME DurationsAssumption == Durations \subseteq Nat
ASSUME CountsAssumption    == Counts \subseteq Nat
ASSUME MaxTimeAssumption   == MaxTime \in Nat
ASSUME NeverAssumption     == Never \notin Nat

VARIABLE now           \* the time, in ms

TimePasses == now < MaxTime /\ now' = now + 1
=============================================================================
