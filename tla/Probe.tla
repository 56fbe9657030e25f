-------------------------------- MODULE Probe ------------------------------
(***************************************************************************)
(* The probes of memtrace-lite (src/src/probe.c): each measures the        *)
(* process once when it is made, and again when it is sampled.  Threads    *)
(* may make probes at the same time: they share g_seq, an atomic counter   *)
(* of 32 bits (here modulo SeqMod), and nothing else.  A probe belongs to  *)
(* one thread, which makes a new one in its place or samples it.           *)
(***************************************************************************)
EXTENDS Integers, FiniteSets

CONSTANTS Threads, Readings, SeqMod, Nobody,
          MaxProbes,        \* bound: probes made
          MaxTicks          \* bound: the clock

VARIABLES g_seq,
          probes,           \* thread -> its probe, or Nobody
          making,           \* thread -> the probe that probe_init is about to number
          numbered,         \* history: the sequence numbers of the probes returned
          earlier,          \* history: thread -> numbered, when probe_init began
          made,             \* history: the number of probes numbered
          spans             \* history: thread -> the two readings its delta is about

vars == <<g_seq, probes, making, numbered, earlier, made, spans>>

Kinds  == {"RSS", "VSZ", "HEAP", "DELTA"}
Fields == {"rss_kb", "vsz_kb", "heap_kb"}
Infos  == [Fields -> Readings] \cup {Nobody}     \* Nobody: procmem_read fails

Field(kind) == CASE kind = "VSZ"  -> "vsz_kb"
                 [] kind = "HEAP" -> "heap_kb"
                 [] OTHER         -> "rss_kb"

\* A read that fails counts as 0.
read_kind(info, kind) == IF info = Nobody THEN 0 ELSE info[Field(kind)]

Init ==
  /\ g_seq = 0
  /\ probes = [t \in Threads |-> Nobody] /\ making = [t \in Threads |-> Nobody]
  /\ numbered = {} /\ earlier = [t \in Threads |-> {}] /\ made = 0
  /\ spans = [t \in Threads |-> <<0, 0>>]

-----------------------------------------------------------------------------
\* probe_init up to its read.
Measure(t) ==
  /\ making[t] = Nobody
  /\ made + Cardinality({u \in Threads : making[u] # Nobody}) < MaxProbes
  /\ \E kind \in Kinds, info \in Infos :
       LET kb == read_kind(info, kind) IN
       making' = [making EXCEPT ![t] = [kind |-> kind, value_kb |-> kb, baseline_kb |-> kb,
                                        delta_kb |-> 0]]
  /\ probes' = [probes EXCEPT ![t] = Nobody]
  /\ earlier' = [earlier EXCEPT ![t] = numbered]
  /\ UNCHANGED <<g_seq, numbered, made, spans>>

\* Mutant: the counter is narrower than the numbers it gives.
Drawn_Narrow == (g_seq + 1) % (SeqMod - 1)

\* What the atomic addition leaves in g_seq.
Drawn == (g_seq + 1) % SeqMod

\* The rest of probe_init: it takes the number and returns.
Number(t) ==
  /\ making[t] # Nobody
  /\ LET p == making[t] IN
       /\ probes' = [probes EXCEPT ![t] = [kind |-> p.kind, value_kb |-> p.value_kb,
            baseline_kb |-> p.baseline_kb, delta_kb |-> p.delta_kb, seq |-> g_seq]]
       /\ spans' = [spans EXCEPT ![t] = <<p.value_kb, p.value_kb>>]
       /\ g_seq' = Drawn
  /\ making' = [making EXCEPT ![t] = Nobody]
  /\ numbered' = numbered \cup {g_seq} /\ made' = made + 1
  /\ UNCHANGED earlier

\* Mutant: a probe of kind DELTA, too, is compared with its baseline.
Delta_OfBaseline(p, kb) == kb - p.baseline_kb

Delta(p, kb) == IF p.kind = "DELTA" THEN kb - p.value_kb ELSE kb - p.baseline_kb

probe_sample(t) ==
  /\ probes[t] # Nobody
  /\ \E info \in Infos :
       LET p  == probes[t]
           kb == read_kind(info, p.kind)
       IN  /\ probes' = [probes EXCEPT ![t].value_kb = kb, ![t].delta_kb = Delta(p, kb)]
           /\ spans' = [spans EXCEPT ![t] =
                          <<IF p.kind = "DELTA" THEN @[2] ELSE @[1], kb>>]
  /\ UNCHANGED <<g_seq, making, numbered, earlier, made>>

probe_reset_baseline(t) ==
  /\ probes[t] # Nobody
  /\ probes' = [probes EXCEPT ![t].baseline_kb = probes[t].value_kb, ![t].delta_kb = 0]
  /\ spans' = [spans EXCEPT ![t] = <<@[2], @[2]>>]
  /\ UNCHANGED <<g_seq, making, numbered, earlier, made>>

Next == \E t \in Threads :
          Measure(t) \/ Number(t) \/ probe_sample(t) \/ probe_reset_baseline(t)

Spec == Init /\ [][Next]_vars

-----------------------------------------------------------------------------
(* probe_age_ms.  Times are ticks, half milliseconds; a second has MsPerSec *)
(* milliseconds.                                                            *)

TicksPerMs == 2
MsPerSec == 2
TicksPerSec == TicksPerMs * MsPerSec

\* Division as in C, towards 0.
Quotient(n, d) == IF n >= 0 THEN n \div d ELSE -((-n) \div d)

\* Mutant: the fractions of the second are compared the wrong way round.
probe_age_ms_Swapped(timestamp, now) ==
  ((now \div TicksPerSec) - (timestamp \div TicksPerSec)) * MsPerSec
    + Quotient((timestamp % TicksPerSec) - (now % TicksPerSec), TicksPerMs)

probe_age_ms(timestamp, now) ==
  ((now \div TicksPerSec) - (timestamp \div TicksPerSec)) * MsPerSec
    + Quotient((now % TicksPerSec) - (timestamp % TicksPerSec), TicksPerMs)

-----------------------------------------------------------------------------
Words == 0..(SeqMod - 1)

\* Every variable has its type.
TypeOK ==
  /\ g_seq \in Words /\ made \in 0..MaxProbes /\ numbered \subseteq Words
  /\ \A t \in Threads :
       /\ probes[t] # Nobody => /\ probes[t].kind \in Kinds /\ probes[t].seq \in Words
                                /\ probes[t].value_kb \in Readings \cup {0}
                                /\ probes[t].delta_kb \in Int
       /\ making[t] # Nobody => making[t].kind \in Kinds
       /\ earlier[t] \subseteq numbered

\* Until g_seq wraps, no two probes have one number, and a probe has a greater
\* number than all that were there when its probe_init was called, however the
\* calls of several threads interleave (probe_init).
SeqOrdersProbes ==
  made <= SeqMod =>
    /\ Cardinality(numbered) = made
    /\ \A t \in Threads : probes[t] # Nobody =>
         \A s \in earlier[t] : s < probes[t].seq

\* The delta of a probe spans the last reading and the one before it (kind
\* DELTA), or the one at the last probe_reset_baseline, or the first.  A read
\* that failed is one of 0: the process seems to have shrunk to nothing, and
\* after a first read that failed to have grown from nothing (probe_sample).
DeltaSpansReadings ==
  \A t \in Threads : probes[t] # Nobody =>
    /\ probes[t].value_kb = spans[t][2]
    /\ probes[t].delta_kb = spans[t][2] - spans[t][1]

\* The age is never negative, never shrinks while time passes, and is within
\* one millisecond of the true one, although the difference of the fractions
\* is rounded towards 0 when it is negative (probe_age_ms).
AgeIsClose ==
  \A made_at \in 0..MaxTicks : \A now \in made_at..MaxTicks :
    LET age == probe_age_ms(made_at, now) IN
    /\ age >= 0
    /\ age * TicksPerMs > now - made_at - TicksPerMs
    /\ age * TicksPerMs < now - made_at + TicksPerMs
    /\ now > made_at => age >= probe_age_ms(made_at, now - 1)
=============================================================================
