------------------------------- MODULE Window ------------------------------
(***************************************************************************)
(* The sliding window of memtrace-lite (src/src/window.c): the last        *)
(* capacity values with their times, and statistics over them.             *)
(***************************************************************************)
EXTENDS Integers, Sequences, FiniteSetsExt

CONSTANTS Values,        \* values in kB
          Times,         \* timestamps in ms
          Capacities,    \* capacities given to window_init
          Largest        \* UINT64_MAX, where the search for a minimum starts

VARIABLES capacity, samples, head, count

vars == <<capacity, samples, head, count>>

WindowSamples == [timestamp_ms : Times, value_kb : Values]
Blank         == [timestamp_ms |-> 0, value_kb |-> 0]     \* what memset leaves
Slots         == 0..(capacity - 1)

window_init ==
  /\ capacity \in Capacities
  /\ samples = [i \in Slots |-> Blank]
  /\ head = 0 /\ count = 0

Init == window_init

window_reset ==
  /\ samples' = [i \in Slots |-> Blank]
  /\ head' = 0 /\ count' = 0
  /\ UNCHANGED capacity

\* window_push_value builds the sample that window_push stores.
window_push ==
  /\ \E s \in WindowSamples : samples' = [samples EXCEPT ![head] = s]
  /\ head' = (head + 1) % capacity
  /\ count' = IF count < capacity THEN count + 1 ELSE count
  /\ UNCHANGED capacity

Next == window_reset \/ window_push

Spec == Init /\ [][Next]_vars

-----------------------------------------------------------------------------
(* Reading; n < count, and count > 0 for the statistics.                   *)

\* Mutant: the oldest sample is looked for at the write position.
index_FromHead(n) == (head + n) % capacity

index(n) == (head + capacity - count + n) % capacity

window_get(n) == samples[index(n)]

Contents == [i \in 1..count |-> window_get(i - 1)]

window_stats ==
  LET kb  == [i \in 1..count |-> window_get(i - 1).value_kb]
      sum == SumFunction(kb)
  IN [sum_kb  |-> sum,
      mean_kb |-> sum \div count,
      min_kb  |-> Min({Largest} \cup Range(kb)),
      max_kb  |-> Max({0} \cup Range(kb)),
      oldest_ts_ms |-> samples[index(0)].timestamp_ms,
      newest_ts_ms |-> samples[(head + capacity - 1) % capacity].timestamp_ms]

-----------------------------------------------------------------------------
\* Every variable has its type; before it is full, the window fills from 0.
TypeOK ==
  /\ capacity \in Capacities
  /\ samples \in [Slots -> WindowSamples \cup {Blank}]
  /\ head \in Slots /\ count \in 0..capacity
  /\ count < capacity => head = count

\* What window_get shows is a sliding log of what was pushed.
Log == INSTANCE SlidingLog WITH
  Samples <- WindowSamples, Nothing <- Blank, kept <- Contents, taken <- Blank

ImplementsSlidingLog == Log!Spec

\* The statistics are those of the samples in the window: reached bounds, a
\* mean between them that rounding moves down by less than 1, and the times of
\* the two ends (window_stats).
StatsTrue ==
  count > 0 =>
    LET s == window_stats
        V == {Contents[i].value_kb : i \in 1..count}
    IN /\ s.min_kb \in V /\ s.max_kb \in V
       /\ \A v \in V : s.min_kb <= v /\ v <= s.max_kb
       /\ s.min_kb <= s.mean_kb /\ s.mean_kb <= s.max_kb
       /\ s.mean_kb * count <= s.sum_kb /\ s.sum_kb < (s.mean_kb + 1) * count
       /\ s.oldest_ts_ms = Contents[1].timestamp_ms
       /\ s.newest_ts_ms = Contents[count].timestamp_ms
=============================================================================
