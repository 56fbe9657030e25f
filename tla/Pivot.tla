------------------------------- MODULE Pivot -------------------------------
(***************************************************************************)
(* The rolling pivot of memtrace-lite (src/src/pivot.c): a ring of samples *)
(* whose smallest and largest give a midpoint and a band around it.        *)
(* Samples are whole numbers and the midpoint and the bounds are counted   *)
(* in halves, which the doubles of the code represent exactly.             *)
(***************************************************************************)
EXTENDS Integers, Sequences, FiniteSetsExt

CONSTANTS Values,       \* samples, and the values that are classified
          Capacities    \* capacities given to pivot_init

VARIABLES capacity, samples, count, head,
          pivot, upper, lower,     \* in halves
          recent                   \* history: the last capacity samples

vars == <<capacity, samples, count, head, pivot, upper, lower, recent>>

Slots == 0..(capacity - 1)

Freed == samples = <<>> /\ capacity = 0 /\ count = 0

\* pivot_init refuses a capacity below 2.
Accepted == {c \in Capacities : c >= 2}

Init ==
  /\ capacity \in Accepted
  /\ samples = [i \in Slots |-> 0]
  /\ count = 0 /\ head = 0
  /\ pivot = 0 /\ upper = 0 /\ lower = 0
  /\ recent = <<>>

Kept(s) == IF Len(s) > capacity THEN Tail(s) ELSE s

\* The samples that are scanned after an update.
Scanned == {samples'[i] : i \in 0..(count' - 1)}

pivot_update ==
  /\ ~Freed
  /\ \E v \in Values :
       /\ samples' = [samples EXCEPT ![head] = v]
       /\ recent' = Kept(Append(recent, v))
  /\ head' = (head + 1) % capacity
  /\ count' = IF count < capacity THEN count + 1 ELSE count
  /\ LET mn == Min(Scanned)
         mx == Max(Scanned)
     IN /\ pivot' = mn + mx
        /\ upper' = (mn + mx) + (mx - mn)
        /\ lower' = (mn + mx) - (mx - mn)
  /\ UNCHANGED capacity

pivot_reset ==
  /\ ~Freed
  /\ samples' = [i \in Slots |-> 0]
  /\ count' = 0 /\ head' = 0
  /\ pivot' = 0 /\ upper' = 0 /\ lower' = 0
  /\ recent' = <<>>
  /\ UNCHANGED capacity

pivot_init ==
  /\ Freed
  /\ capacity' \in Accepted
  /\ samples' = [i \in 0..(capacity' - 1) |-> 0]
  /\ count' = 0 /\ head' = 0
  /\ pivot' = 0 /\ upper' = 0 /\ lower' = 0
  /\ recent' = <<>>

\* head and the band keep their values; updates and resets then do nothing.
pivot_free ==
  /\ samples' = <<>> /\ capacity' = 0 /\ count' = 0
  /\ recent' = <<>>
  /\ UNCHANGED <<head, pivot, upper, lower>>

Next == pivot_init \/ pivot_update \/ pivot_reset \/ pivot_free

Spec == Init /\ [][Next]_vars

pivot_classify(v) ==
  IF count < 2 THEN 0
  ELSE IF 2 * v > upper THEN 1
  ELSE IF 2 * v < lower THEN -1
  ELSE 0

-----------------------------------------------------------------------------
\* Every variable has its type.
TypeOK ==
  /\ capacity \in Nat
  /\ samples \in [Slots -> Values \cup {0}]
  /\ count \in 0..capacity
  /\ capacity > 0 => head \in Slots
  /\ pivot \in Int /\ upper \in Int /\ lower \in Int
  /\ recent \in Seq(Values)

\* A value is classified against the last capacity samples and no others:
\* above all of them, below all of them, or neither; with fewer than two, it
\* is neither (pivot_update, pivot_classify).
BandIsRange ==
  \A v \in Values :
    LET class == pivot_classify(v)
        R     == {recent[i] : i \in DOMAIN recent}
    IN /\ class = 1  <=> Len(recent) >= 2 /\ \A r \in R : v > r
       /\ class = -1 <=> Len(recent) >= 2 /\ \A r \in R : v < r
=============================================================================
