------------------------------- MODULE Meters ------------------------------
(***************************************************************************)
(* Five small accumulators of samples of memtrace-lite, independent of     *)
(* each other: running statistics (src/src/stats.c), the rate of change of *)
(* the last two samples (rate.c), a smoother whose memory halves every     *)
(* half_life seconds (decay.c), a clamp that counts what it cut (clamp.c), *)
(* and the mean and variance of the last MaxSamples samples, ready from    *)
(* the MinReady-th on (baseline.c).  Quotients are kept as pairs, as the   *)
(* sums they are quotients of, or multiplied by Scale, so that they are    *)
(* integers and nothing is rounded.                                        *)
(***************************************************************************)
EXTENDS Integers, Sequences, FiniteSetsExt, SequencesExt

CONSTANTS Sizes,         \* what is fed to the meters
          HalfLives,     \* of decay_init: 0, or 1, then the unit of its times
          MaxSamples,    \* BASELINE_MAX_SAMPLES
          MinReady,      \* MIN_READY_SAMPLES
          MaxClock,      \* bound: samples that a baseline tells apart since its reset
          MaxFed,        \* bound: samples fed between two resets
          MaxMoment      \* bound: the last time of the clock

Scale == 576             \* a multiple of every denominator within the bounds

-----------------------------------------------------------------------------
(* stats.c                                                                 *)

VARIABLES sample_count,
          min_kb, max_kb, avg_kb,    \* rss and vms
          peak_rss_kb, delta_rss_kb,
          fed,                       \* history: the samples since stats_init
          finals                     \* history: calls of stats_finalise, to 2

statsVars == <<sample_count, min_kb, max_kb, avg_kb, peak_rss_kb, delta_rss_kb,
               fed, finals>>

Kinds == {"rss", "vms"}
LONG_MAX == 1000
LONG_MIN == -1000

\* Mutant: the minimum starts from the zeros of the memset.
NoMinimum_Zero == [k \in Kinds |-> 0]

NoMinimum == [k \in Kinds |-> LONG_MAX]

stats_init ==
  /\ sample_count = 0
  /\ min_kb = NoMinimum /\ max_kb = [k \in Kinds |-> LONG_MIN]
  /\ avg_kb = [k \in Kinds |-> 0]
  /\ peak_rss_kb = 0 /\ delta_rss_kb = 0
  /\ fed = <<>> /\ finals = 0

stats_init_again ==
  /\ sample_count' = 0
  /\ min_kb' = NoMinimum /\ max_kb' = [k \in Kinds |-> LONG_MIN]
  /\ avg_kb' = [k \in Kinds |-> 0]
  /\ peak_rss_kb' = 0 /\ delta_rss_kb' = 0
  /\ fed' = <<>> /\ finals' = 0

stats_update ==
  \E s \in [Kinds -> Sizes] :
    /\ Len(fed) < MaxFed
    /\ sample_count' = sample_count + 1
    /\ min_kb' = [k \in Kinds |-> IF s[k] < min_kb[k] THEN s[k] ELSE min_kb[k]]
    /\ max_kb' = [k \in Kinds |-> IF s[k] > max_kb[k] THEN s[k] ELSE max_kb[k]]
    /\ peak_rss_kb' = IF s["rss"] > peak_rss_kb THEN s["rss"] ELSE peak_rss_kb
    /\ avg_kb' = [k \in Kinds |-> avg_kb[k] + Scale * s[k]]
    /\ delta_rss_kb' = s["rss"]
    /\ fed' = Append(fed, s)
    /\ UNCHANGED finals

\* Mutant: only the resident size is averaged.
Averages_OfRss == [avg_kb EXCEPT !["rss"] = @ \div sample_count]

Averages == [k \in Kinds |-> avg_kb[k] \div sample_count]

\* The sums become averages; calling it again divides again.
stats_finalise ==
  /\ sample_count > 0 /\ finals < 2
  /\ avg_kb' = Averages
  /\ finals' = finals + 1
  /\ UNCHANGED <<sample_count, min_kb, max_kb, peak_rss_kb, delta_rss_kb, fed>>

StatsNext == stats_init_again \/ stats_update \/ stats_finalise

-----------------------------------------------------------------------------
(* rate.c                                                                  *)

VARIABLES clock,                     \* CLOCK_MONOTONIC
          prev, curr,                \* kb and time of the two samples
          rate,                      \* a pair: kb and time between them
          valid,
          latest                     \* history: the last two samples

rateVars == <<clock, prev, curr, rate, valid, latest>>

Zero == [kb |-> 0, time |-> 0]
Flat == <<0, 1>>                     \* a rate of 0

rate_init ==
  /\ prev = Zero /\ curr = Zero
  /\ rate = Flat /\ valid = 0
  /\ latest = <<>>

Slope(a, b) == IF b.time > a.time THEN <<b.kb - a.kb, b.time - a.time>> ELSE Flat

UpdateFirst(s) ==
  /\ valid = 0
  /\ prev' = s /\ curr' = s
  /\ rate' = Flat /\ valid' = -1

UpdateSecond(s) ==
  /\ valid = -1
  /\ curr' = s
  /\ rate' = Slope(prev, s) /\ valid' = 1
  /\ UNCHANGED prev

\* Mutant: the window is not moved on.
UpdateNext_Stays(s) ==
  /\ valid = 1
  /\ curr' = s
  /\ rate' = Slope(prev, s)
  /\ UNCHANGED <<prev, valid>>

UpdateNext(s) ==
  /\ valid = 1
  /\ prev' = curr /\ curr' = s
  /\ rate' = Slope(curr, s)
  /\ UNCHANGED valid

rate_update ==
  \E kb \in Sizes :
    LET s == [kb |-> kb, time |-> clock] IN
    /\ UpdateFirst(s) \/ UpdateSecond(s) \/ UpdateNext(s)
    /\ latest' = Append(IF Len(latest) = 2 THEN Tail(latest) ELSE latest, s)
    /\ UNCHANGED clock

rate_get == IF valid = 1 THEN rate ELSE Flat

rate_exceeds(limit) == rate_get[1] > limit * rate_get[2]

Tick == clock < MaxMoment /\ clock' = clock + 1
        /\ UNCHANGED <<prev, curr, rate, valid, latest>>

RateNext == rate_update \/ Tick

-----------------------------------------------------------------------------
(* decay.c                                                                 *)

VARIABLES half_life,                 \* fixed by decay_init; 0 keeps nothing
          value,                     \* times Scale
          last_update,               \* 0 stands for never
          mixed                      \* history: the values since the reset

decayVars == <<half_life, value, last_update, mixed>>

decay_init ==
  /\ half_life \in HalfLives
  /\ value = 0 /\ last_update = 0
  /\ mixed = <<>>

decay_reset ==
  /\ value' = 0 /\ last_update' = 0
  /\ mixed' = <<>>
  /\ UNCHANGED half_life

\* A clock that went back counts as one that stands still.
Elapsed(time) == IF time < last_update THEN 0 ELSE time - last_update

\* What is left of x after that time: x times a power of one half, rational
\* for times that are multiples of half_life.
Remains(x, elapsed) ==
  IF half_life <= 0 THEN 0 ELSE x \div (2 ^ (elapsed \div half_life))

\* Mutant: the new value is not weighted.
Blend_Undamped(old, new, elapsed) == Remains(old, elapsed) + new

Blend(old, new, elapsed) == Remains(old, elapsed) + new - Remains(new, elapsed)

\* last_update follows a clock that goes back.
decay_update ==
  \E kb \in Sizes, time \in 0..MaxMoment :
    /\ Len(mixed) < MaxFed
    /\ value' = IF last_update = 0 THEN Scale * kb
                ELSE Blend(value, Scale * kb, Elapsed(time))
    /\ last_update' = time
    /\ mixed' = Append(mixed, kb)
    /\ UNCHANGED half_life

decay_project(future) ==
  IF last_update = 0 THEN 0 ELSE Remains(value, Elapsed(future))

DecayNext == decay_update \/ decay_reset

-----------------------------------------------------------------------------
(* clamp.c                                                                 *)

VARIABLES min, max, clamped, total,
          cut,                       \* the last call: value, result and bounds
          changed                    \* history: values that came out different

clampVars == <<min, max, clamped, total, cut, changed>>

NoCut == [value |-> 0, result |-> 0, min |-> 0, max |-> 0]

\* The bounds are taken as they are given.
clamp_init ==
  /\ min \in Sizes /\ max \in Sizes
  /\ clamped = 0 /\ total = 0
  /\ cut = NoCut /\ changed = 0

\* Mutant: a value on the upper bound counts as clamped.
Outside_OnBound(v) == v < min \/ v >= max

Outside(v) == v < min \/ v > max

clamp_apply ==
  \E v \in Sizes :
    LET result == IF v < min THEN min ELSE IF v > max THEN max ELSE v IN
    /\ total < MaxFed
    /\ total' = total + 1
    /\ clamped' = IF Outside(v) THEN clamped + 1 ELSE clamped
    /\ cut' = [value |-> v, result |-> result, min |-> min, max |-> max]
    /\ changed' = IF result # v THEN changed + 1 ELSE changed
    /\ UNCHANGED <<min, max>>

clamp_reset ==
  /\ clamped' = 0 /\ total' = 0 /\ changed' = 0
  /\ UNCHANGED <<min, max, cut>>

\* Bounds in the wrong order are exchanged.
clamp_set_bounds ==
  /\ \E a, b \in Sizes : min' = Min({a, b}) /\ max' = Max({a, b})
  /\ UNCHANGED <<clamped, total, cut, changed>>

ClampNext == clamp_apply \/ clamp_reset \/ clamp_set_bounds

-----------------------------------------------------------------------------
(* baseline.c                                                              *)

VARIABLES samples, count, head,
          mean,             \* the sum of the samples, count times the mean
          variance,         \* count * (count - 1) times the variance
          established_at, ready,
          added,            \* history: samples added since init or reset
          recent            \* history: the last MaxSamples samples

baselineVars == <<samples, count, head, mean, variance, established_at, ready, added,
                  recent>>

\* baseline_init and baseline_reset clear everything.
baseline_init ==
  /\ samples = [i \in 0..(MaxSamples - 1) |-> 0]
  /\ count = 0 /\ head = 0
  /\ mean = 0 /\ variance = 0
  /\ established_at = 0 /\ ready = FALSE
  /\ added = 0 /\ recent = <<>>

baseline_reset ==
  /\ samples' = [i \in 0..(MaxSamples - 1) |-> 0]
  /\ count' = 0 /\ head' = 0
  /\ mean' = 0 /\ variance' = 0
  /\ established_at' = 0 /\ ready' = FALSE
  /\ added' = 0 /\ recent' = <<>>

Kept(s) == IF Len(s) > MaxSamples THEN Tail(s) ELSE s

Sum(f, n) == FoldLeft(LAMBDA a, i : a + f[i], 0, [i \in 1..n |-> i - 1])

\* Mutant: the sample that falls out is still in the sum.
Total_Running(v) == mean + v

\* The sum of the stored samples after v was added.
Total(v) == Sum(samples', count')

\* A sample is added at time added + 1, which the code is given.
baseline_add ==
  /\ added < MaxClock
  /\ added' = added + 1
  /\ \E v \in Sizes :
       /\ samples' = [samples EXCEPT ![head] = v]
       /\ head' = (head + 1) % MaxSamples
       /\ count' = IF count < MaxSamples THEN count + 1 ELSE count
       /\ mean' = Total(v)
       /\ variance' =
            IF count' > 1
            THEN Sum([i \in DOMAIN samples' |->
                        (count' * samples'[i] - mean') * (count' * samples'[i] - mean')],
                     count') \div count'
            ELSE 0
       /\ recent' = Kept(Append(recent, v))
  /\ ready' = (ready \/ count' >= MinReady)
  /\ established_at' = IF ~ready /\ ready' THEN added' ELSE established_at

BaselineNext == baseline_reset \/ baseline_add

-----------------------------------------------------------------------------
vars == <<statsVars, rateVars, decayVars, clampVars, baselineVars>>

Init == /\ stats_init /\ clock = 0 /\ rate_init /\ decay_init /\ clamp_init
        /\ baseline_init

Next == \/ StatsNext /\ UNCHANGED <<rateVars, decayVars, clampVars, baselineVars>>
        \/ RateNext  /\ UNCHANGED <<statsVars, decayVars, clampVars, baselineVars>>
        \/ DecayNext /\ UNCHANGED <<statsVars, rateVars, clampVars, baselineVars>>
        \/ ClampNext /\ UNCHANGED <<statsVars, rateVars, decayVars, baselineVars>>
        \/ BaselineNext /\ UNCHANGED <<statsVars, rateVars, decayVars, clampVars>>

Spec == Init /\ [][Next]_vars

-----------------------------------------------------------------------------
\* Every variable has its type.
TypeOK ==
  /\ sample_count \in 0..MaxFed /\ peak_rss_kb \in Nat /\ delta_rss_kb \in Nat
  /\ {min_kb, max_kb, avg_kb} \subseteq [Kinds -> Int]
  /\ fed \in Seq([Kinds -> Sizes]) /\ finals \in 0..2
  /\ clock \in 0..MaxMoment /\ {prev, curr} \subseteq [kb : Sizes \cup {0}, time : 0..clock]
  /\ rate \in Int \X (Nat \ {0}) /\ valid \in {-1, 0, 1}
  /\ half_life \in HalfLives /\ value \in Nat /\ last_update \in 0..MaxMoment
  /\ {min, max} \subseteq Sizes /\ clamped \in 0..total /\ total \in 0..MaxFed
  /\ samples \in [0..(MaxSamples - 1) -> Sizes \cup {0}]
  /\ count \in 0..MaxSamples /\ head \in 0..(MaxSamples - 1)
  /\ mean \in Int /\ variance \in Nat
  /\ ready \in BOOLEAN /\ established_at \in 0..added
  /\ recent \in Seq(Sizes)

Samples(k) == [i \in DOMAIN fed |-> fed[i][k]]

\* Minimum and maximum are those of all samples since stats_init, the peak is
\* the maximum, the average is one after a single stats_finalise that came
\* last, and delta_rss_kb is the last sample, not the growth that stats.h:17
\* calls it (stats_update, stats_finalise).
StatsTrue ==
  fed # <<>> =>
    /\ \A k \in Kinds : /\ min_kb[k] = Min(ToSet(Samples(k)))
                        /\ max_kb[k] = Max(ToSet(Samples(k)))
    /\ peak_rss_kb = max_kb["rss"]
    /\ delta_rss_kb = Last(fed)["rss"]
    /\ finals = 0 => \A k \in Kinds : avg_kb[k] = Scale * FoldSeq(+, 0, Samples(k))

\* Called once and last, stats_finalise gives averages.
AveragesTrue ==
  [][stats_finalise /\ finals = 0 =>
       \A k \in Kinds : avg_kb'[k] * Len(fed) = Scale * FoldSeq(+, 0, Samples(k))]_vars

\* The rate is that of the last two samples and no older one; it is 0 before
\* there are two and when no time passed between them (rate_update).
RateOfLastTwo ==
  /\ rate_get = IF Len(latest) < 2 THEN Flat ELSE Slope(latest[1], latest[2])
  /\ \A limit \in Sizes : rate_exceeds(limit) =>
       Len(latest) = 2 /\ latest[2].kb > latest[1].kb /\ latest[2].time > latest[1].time

\* Whatever the clock does, the smoothed value stays within the values it was
\* made of, and a projection goes to 0 and never rises (decay_update,
\* decay_project).
DecayStaysWithin ==
  /\ mixed # <<>> => value \in (Scale * Min(ToSet(mixed)))..(Scale * Max(ToSet(mixed)))
  /\ \A t, u \in 0..MaxMoment : t <= u =>
       0 <= decay_project(u) /\ decay_project(u) <= decay_project(t)
                             /\ decay_project(t) <= value

\* Between bounds in order values come out within them, and only those outside
\* are changed.  What is counted is what was changed, for bounds in any order
\* (clamp_apply, clamp_set_bounds).
ClampTrue ==
  /\ cut.min <= cut.max =>
       /\ cut.result \in cut.min..cut.max
       /\ cut.value \in cut.min..cut.max => cut.result = cut.value
  /\ clamped = changed

\* The statistics are those of the last MaxSamples samples, the variance being
\* the mean square less the squared mean; the baseline is ready from its
\* MinReady-th sample on and remembers that moment (baseline_add).
BaselineIsTrue ==
  LET n  == Len(recent)
      S1 == FoldLeft(LAMBDA a, v : a + v, 0, recent)
      S2 == FoldLeft(LAMBDA a, v : a + v * v, 0, recent)
  IN /\ mean = S1
     /\ variance = n * S2 - S1 * S1
     /\ ready <=> added >= MinReady
     /\ ready => established_at = MinReady
=============================================================================
