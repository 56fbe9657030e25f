------------------------------ MODULE RingBuf ------------------------------
(***************************************************************************)
(* The ring buffer of memtrace-lite (src/src/ringbuf.c): a push overwrites *)
(* the oldest snapshot when the buffer is full, a pop takes out the oldest.*)
(***************************************************************************)
EXTENDS Integers, Sequences

CONSTANTS Samples,      \* the snapshots
          Nothing,      \* what an unwritten slot holds: not a snapshot
          Capacities    \* capacities given to ringbuf_create

VARIABLES capacity, data, head, tail, count,
          out           \* what the last step popped, or Nothing

vars == <<capacity, data, head, tail, count, out>>

Slots == 0..(capacity - 1)

\* ringbuf_create refuses a capacity of 0.
ringbuf_create ==
  /\ capacity \in Capacities \ {0}
  /\ data = [i \in Slots |-> Nothing]
  /\ head = 0 /\ tail = 0 /\ count = 0
  /\ out = Nothing

Init == ringbuf_create

After(i) == (i + 1) % capacity

\* Mutant: the slot of the oldest snapshot is found one step too late.
TailAfterPush_Stays == tail

TailAfterPush == IF count < capacity THEN tail ELSE After(tail)

ringbuf_push ==
  /\ \E s \in Samples : data' = [data EXCEPT ![head] = s]
  /\ head' = After(head)
  /\ tail' = TailAfterPush
  /\ count' = IF count < capacity THEN count + 1 ELSE count
  /\ out' = Nothing
  /\ UNCHANGED capacity

ringbuf_pop ==
  /\ count > 0
  /\ out' = data[tail]
  /\ tail' = After(tail)
  /\ count' = count - 1
  /\ UNCHANGED <<capacity, data, head>>

ringbuf_clear ==
  /\ head' = 0 /\ tail' = 0 /\ count' = 0
  /\ out' = Nothing
  /\ UNCHANGED <<capacity, data>>

Next == ringbuf_push \/ ringbuf_pop \/ ringbuf_clear

Spec == Init /\ [][Next]_vars

\* For index < count.
ringbuf_peek(index) == data[(tail + index) % capacity]

Contents == [i \in 1..count |-> ringbuf_peek(i - 1)]

-----------------------------------------------------------------------------
\* Every variable has its type, and the indexes agree with the count.
TypeOK ==
  /\ capacity \in Nat \ {0}
  /\ data \in [Slots -> Samples \cup {Nothing}]
  /\ head \in Slots /\ tail \in Slots /\ count \in 0..capacity
  /\ head = (tail + count) % capacity
  /\ out \in Samples \cup {Nothing}

\* What ringbuf_peek shows and ringbuf_pop takes out is a sliding log of what
\* was pushed, through wrapping, overwriting, popping and clearing.
Log == INSTANCE SlidingLog WITH kept <- Contents, taken <- out

ImplementsSlidingLog == Log!Spec
=============================================================================
