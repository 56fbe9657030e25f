------------------------------ MODULE History ------------------------------
(***************************************************************************)
(* The snapshot history of memtrace-lite (src/src/history.c) and the       *)
(* queries on it (src/src/history_query.c): a ring without a tail index,   *)
(* whose oldest entry is found from head and count.                        *)
(***************************************************************************)
EXTENDS Integers, Sequences, SequencesExt

CONSTANTS Sizes,         \* memory sizes, in kB
          Capacities     \* capacities given to history_init

VARIABLES capacity, entries, head, count

vars == <<capacity, entries, head, count>>

Snapshots == [rss_kb : Sizes, vms_kb : Sizes]
Zero      == [rss_kb |-> 0, vms_kb |-> 0]       \* what calloc leaves
Slots     == 0..(capacity - 1)

Freed == capacity = 0 /\ entries = <<>> /\ head = 0 /\ count = 0

Init == Freed

\* Also on a history in use: the old array is lost and the new one is empty.
history_init ==
  /\ capacity' \in Capacities \ {0}
  /\ entries' = [i \in 0..(capacity' - 1) |-> Zero]
  /\ head' = 0 /\ count' = 0

history_free ==
  /\ capacity' = 0 /\ entries' = <<>> /\ head' = 0 /\ count' = 0

\* A freed history has no array: a push dereferences NULL, the program stops, and
\* no step is modelled.
history_push ==
  /\ capacity > 0
  /\ \E s \in Snapshots : entries' = [entries EXCEPT ![head] = s]
  /\ head' = (head + 1) % capacity
  /\ count' = IF count < capacity THEN count + 1 ELSE count
  /\ UNCHANGED capacity

history_clear ==
  /\ head' = 0 /\ count' = 0
  /\ UNCHANGED <<capacity, entries>>

Next == history_init \/ history_free \/ history_push \/ history_clear

Spec == Init /\ [][Next]_vars

-----------------------------------------------------------------------------
(* Reading; index < count, and count > 0 for the latest.                   *)

history_get(index) ==
  LET start == (head + capacity - count) % capacity
  IN  entries[(start + index) % capacity]

\* Mutant: the write position is taken for the latest entry.
history_latest_AtHead == entries[head]

history_latest == entries[(head + capacity - 1) % capacity]

Contents == [i \in 1..count |-> history_get(i - 1)]

\* The first snapshot whose RSS no later one exceeds; count > 0.
history_query_peak_rss ==
  FoldLeft(LAMBDA best, s : IF s.rss_kb > best.rss_kb THEN s ELSE best,
           history_get(0), Contents)

\* The peaks start from 0, the deltas are newest minus oldest; count > 0.
history_query_stats ==
  LET Peak(p, v) == IF v > p THEN v ELSE p
  IN [rss_peak  |-> FoldLeft(LAMBDA p, s : Peak(p, s.rss_kb), 0, Contents),
      vms_peak  |-> FoldLeft(LAMBDA p, s : Peak(p, s.vms_kb), 0, Contents),
      rss_delta |-> history_latest.rss_kb - history_get(0).rss_kb,
      vms_delta |-> history_latest.vms_kb - history_get(0).vms_kb]

\* The index of the first entry above the threshold, or -1 for "none".
history_query_find_rss_exceed(rss_threshold_kb) ==
  SelectInSeq(Contents, LAMBDA s : s.rss_kb > rss_threshold_kb) - 1

-----------------------------------------------------------------------------
\* Every variable has its type; a freed history has no entries.
TypeOK ==
  /\ capacity \in Capacities \cup {0}
  /\ entries \in [Slots -> Snapshots]
  /\ count \in 0..capacity
  /\ head \in IF capacity = 0 THEN {0} ELSE Slots
  /\ count < capacity => head = count

\* What history_get shows is a sliding log of what was pushed.
Log == INSTANCE SlidingLog WITH
  Samples <- Snapshots, Nothing <- Zero, kept <- Contents, taken <- Zero

ImplementsSlidingLog == Log!Spec

\* The queries tell one story: the peak of the statistics is the RSS of the
\* peak snapshot, a threshold is exceeded exactly if it is below that peak and
\* not after the peak snapshot, and the change from the oldest to the latest
\* is no larger than the peak allows (history_query.c).
QueriesAgree ==
  count > 0 =>
    LET stats == history_query_stats
        peak  == history_query_peak_rss
    IN /\ stats.rss_peak = peak.rss_kb
       /\ \A t \in Sizes :
            LET i == history_query_find_rss_exceed(t)
            IN /\ i >= 0 <=> stats.rss_peak > t
               /\ i >= 0 => history_get(i).rss_kb > t
               /\ i >= 0 => \E j \in i..(count - 1) : history_get(j) = peak
       /\ stats.rss_delta <= stats.rss_peak - history_get(0).rss_kb
       /\ stats.vms_delta <= stats.vms_peak - history_get(0).vms_kb
       /\ history_latest = Contents[count]
=============================================================================
