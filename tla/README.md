# A formal model of memtrace-lite

memtrace-lite is a C library that samples the memory of a process and judges
what it sees. This directory holds TLA+ modules that model its components, TLC
configurations that check them on small instances, and proofs of what matters
most for every instance.

`src/README.md` describes a command that hooks allocations. The repository has
no such code and no `main`: it has some fifty small components in `src/src`,
each a struct with its functions, and tests that call them. The models follow
the `.c` files.

## The system

| component | state | operations | what is hard |
|---|---|---|---|
| sampling loop (`sampler.c`) | a global stop flag; locals of `sampler_run` | `sampler_run`, `sampler_stop` | a signal handler between any two steps, several threads on one flag, reads and reallocs that fail, a target that exits |
| snapshot log (`snapshot.c`) | `entries`, `count`, `capacity` | init, append, free | growth by realloc at count = capacity |
| heartbeat (`heartbeat.c`) | state, `miss_count`, `last_beat_ns` | beat, check, reset | a callback that calls back, a wrapping counter, rounding of times |
| watchdog (`watchdog.c`) | state, two counters, the last snapshot | check, reset | checks skipped by an interval, failed reads, a callback that resets |
| throttle, cooldown, suppressor, debouncer | a time and a count | an event, questions, reset | windows that do not slide, 0 as "never", a 32-bit clock that wraps |
| ring buffer, history, window, pivot, baseline | a ring and what is computed from it | push, pop, get, queries, clear, free | wrap-around; results that must forget evicted samples |
| scoreboard, checkpoints, ledger, tally, thresholds, latches | a bounded array | insert, update, remove, sort, search, reset | full tables, gaps, names cut to a field, cached flags |
| escalation, cascade, sentinel | a level and counters | update, check, presets, reset | misordered thresholds, levels crossed to and fro, callbacks |
| fence, quota, budget, guard, ceiling | limits and counters | check, policy, arm, reset | exact hits, disabled limits, verdicts that are kept |
| backoff, jitter | a delay and a count; a seed | next, apply, reset | products and sums that wrap in 32 bits, empty ranges |
| stats, rate, decay, clamp | sums and extremes, the last two samples, a smoothed value, counts | update, finalise, project, set bounds, reset | fields with two meanings, 0 as "never", a clock that goes back |
| tracker, epoch | snapshots with their stamps; two times and two totals | collect, open, close, record, free, reset | full, failed reads, differences of times |
| probe | a reading, a baseline and a number; one atomic counter for all | init, sample, reset of the baseline, age | threads that number their probes while others measure, failed reads |
| filter, filter chain | flags and bounds; copies of filters | set, match, add, apply | bounds that stay, copies, the end of the output |
| trend, score, alert, pressure, anomaly with its reports and sinks | none, or what was configured | judge, fill, dispatch | misordered thresholds, division by 0, tests in an order that hides one |

The components interact little. `sampler_run` reads the target through
`procmem.c`, appends to a log of the caller and tests the flag that
`sampler_stop` sets; that flag and the counter that numbers the probes are the
only state that threads share. Heartbeat, watchdog
and sentinel call their user back in the middle of a check. `guard.c` contains
a fence policy, `latch_group.c` points to latches, `history_query.c` reads a
history, `budget_policy.c` resets a budget, `cascade_policy.c` initialises a
cascade. Everything else is used by one thread, one call after the other, and
its difficulty lies in long sequences of legal calls.

Several `.c` files do not compile against their own headers (among them
history, window, ringbuf, debounce, cooldown, watchdog, guard, fence_policy,
latch_group, filter, probe, tracker, anomaly, backoff, decay): the types and signatures
differ.
For those the `.c` file is the reference, and headers are used where they agree
with it. `latch_group.c` calls `latch_is_set`, taken to be
`latch_is_triggered`; `watchdog.c` calls `snapshot_read`, of which the model
assumes only that it gives sizes or fails. `tracker.c`, `probe.c`, `pressure.c`
and `sampler.c` hand `procmem_read` records of four different types; the models
take the field each of them uses for the field `procmem.c` fills.

## The modules

Specifications of what is promised, which the detailed ones are shown to
implement: `SamplingSession` (snapshots are appended during a call, and the
call returns how many), `RateGate` (a rate limiter), `SlidingLog` (the last
samples, oldest first), `BoundedTable` (a map with limited room).

| module | models | remarks |
|---|---|---|
| `SnapshotLog` | the log as a record, with operators for init, append and growth | slots beyond `count` are `Junk` |
| `Sampler` | `sampler_run` step by step, one access to shared state per action, for a set of threads; `sampler_stop`; the target | implements `SamplingSession` |
| `Heartbeat` | `heartbeat.c`, time in ticks of a fraction of a millisecond, `on_dead` that beats, resets or does nothing | |
| `Watchdog` | `watchdog.c`, callbacks that may reset it, times as ages | |
| `GateClock` | the clock and the settings of the next four | |
| `Throttle`, `Cooldown` | the two rate limiters | implement `RateGate` |
| `Suppress`, `Debounce` | the counting and the timed suppressor, the debouncer | |
| `RingBuf`, `History`, `Window`, `Pivot` | the rings, with head, tail and count as in the code | the first three implement `SlidingLog`; a push on a freed history dereferences NULL, and no step is modelled; one that is set up again while in use loses its array and starts empty |
| `Scoreboard`, `Checkpoint` | the tables that remove, by moving an entry and by shifting all | implement `BoundedTable` |
| `Accounts` | `ledger.c` and `tally.c` | names are records of what the field keeps and whether more follows |
| `LatchGroup` | `latch.c` and `latch_group.c` | |
| `Escalate`, `Cascade`, `Sentinel` | the ladders of levels | `heard` is what the sentinel's callback was told, also if it resets the sentinel |
| `Fence`, `Quota`, `Budget`, `Guard`, `Ceiling` | the limits; `Budget` and `Guard` with their policies | the caller of the budget's policy may hand over any verdict it was ever given (`kept`) |
| `RetryDelay` | `backoff.c` and `jitter.c` with the generator, in words modulo `WordMod` | no state at the one argument on which mode FULL divides by 0; `ideal` is the delay that the law gives, beside the code's |
| `Meters` | `stats.c`, `rate.c`, `decay.c`, `clamp.c`, `baseline.c` | rates are pairs, averages and smoothed values multiplied by `Scale` |
| `Tracker` | `tracker.c` with `procmem_read`, the report of `formatter.c`, and `epoch.c`, over one clock in half milliseconds | struct timespecs are numbers of ticks with their seconds and fractions |
| `Probe` | `probe.c` for a set of threads; `probe_init` in two steps, up to and from its atomic addition | |
| `Criteria` | `filter.c`, `filter_chain.c` and `threshold.c` | a label is the set of substrings it has |
| `Verdicts` | `trend.c`, `score.c`, `alert.c`, `pressure.c`, `anomaly.c`, `anomaly_report.c`, `anomaly_sink.c` | quotients multiplied out; a score of 1 is 400 |

State and actions carry the names of the code. A function with several outcomes
is one action with a disjunct per outcome (`CheckOk`, `CheckViolation`, ...). A
function that only answers is an operator. Variables called history record the
past for a property and constrain nothing; where they make the state infinite a
bound cuts them, which is named in the module. Sizes, names and pids are small
numbers or model values. Means and variances are kept multiplied by their
counts, so that they are integers. A definition `Name_Variant` before `Name` is
a mutant: what `Name` would be with a plausible mistake in the code. Each
property of a passing run is violated when one of them takes the place of the
original.

`Sampler`, `Heartbeat` and `Watchdog` are checked as they are, the first with
`CallerSymmetry`, as no property tells one thread from another. `MCGates`,
`MCStores` and `MCLadders` put independent components side by side: a variable
`subject` names the one a behaviour uses, and the others keep their initial
values. This explores each component as fully as a run of its own would, and
products of unrelated states are avoided. That it loses nothing is proved for
`MCStores` and `MCLadders`: a behaviour of the composition is a behaviour of each
of its parts.

## The runs

| run | bounds | what it shows |
|---|---|---|
| `sampler_solo` | one thread; capacities 1 and 3; limits none, 1, 3; 5 reads per log | `LogSound`: across three growths a log holds what was taken, in order, and no unwritten slot. `StopEndsRun`: a stop that comes after the flag was cleared ends the run whatever fails. `LimitEndsRun`: so does a limit, as long as the target lives |
| `sampler_shared` | two threads, one flag; limits none and 2; 3 reads | `StopLatency`: at most one sample per thread after a stop. `ReturnsWhatItAppended`: a run's result is exactly what it added, also over earlier runs and beside another thread. `ImplementsSession` |
| `sampler_stop_lost` | one thread | finding: `sampler_run` clears the flag after it was entered, so an earlier stop is lost and the run never ends |
| `heartbeat` | intervals 0 and 2 ms, thresholds 0 to 4, counters modulo 5, 2 ticks per ms | `DeathDeserved`, `NoResurrection`, and, under fairness, `SilenceDetected` |
| `heartbeat_on_dead` | as before | finding: `on_dead` runs at every check of a dead client |
| `watchdog` | sizes 0 to 2, all combinations of limits, counters modulo 5 | `StateReflectsReads` through skipped checks, failed reads and callbacks; `RecoveryReported`: a streak that ends is reported as RECOVERING, and as OK exactly if a failed read came in between; `BreachBecomesCritical` |
| `gates` | durations 0, 1, 3 and 11 ms of time; a clock for the suppressor that wraps after 5; words modulo 16, multipliers 0 to 3 and 7, every seed | `GatesLimitRate`: throttle and cooldown are `RateGate`s. `ReadyForetells`; `SuppressionJust`: a suppression lasts its window, at most twice the limit passes in one, nothing is blocked without cause; `AcceptsBursts`; `DelaysKeepToLaw`: a backoff follows the exponential law for every multiplier from 1, except that it lags behind the law's cap where a product of a multiplier beyond 2 wraps; a jitter stays in the band of its mode |
| `stores` | capacities 1 to 3, sequences that go round more than once; tables for 2 or 3 entries, one key more than fits; 3 samples for the meters; 8 ticks of half a millisecond in seconds of 2 ms; chains of 2 filters | `StoresSlide`: whatever the head, the last samples in order. `TablesKeepEntries`, `ScansFindExtremes`, `TotalsTrue`, `LatchesHold`. `SummariesAgree` and `AveragesTrue`: queries, statistics and baselines tell of the samples, a smoothed value stays among them, and a report whose lines may fail says whether it holds every snapshot. `EstimatesAreRecent`: pivot and rate tell of the last samples and no others. `TrackersTell`: stamps and lengths are true to less than a millisecond. `FiltersSelect`: filters and chains ask for what they were told; `ScansFindExtremes`: what a chain picks from an array are the first it lets through, and the worst, best and highest are that |
| `checkpoint_long_label` | two labels, one of 64 characters | finding: a long label is stored cut and never found again |
| `ladders` | sizes 0, 1, 2, 4; 6 updates of a cascade, 5 checks of the others between resets; 5 ms; two threads that make 3 probes, numbered modulo 3; trends of up to 4 samples | `NothingLost`: triggers never lower an escalation, and quiet resets it exactly when it should; a sentinel's callback is told of all its steps up, also if it resets the sentinel; a policy handed the latest verdict forgets no breach of an exceeded budget. `CascadeFiresOnce`, `CeilingHasHysteresis`; `LimitsCountTruly`: what fence, quota, budget and guard count and answer is true of the values since the reset. `ProbesTell`: numbers follow the order of the calls, deltas span the readings they should. `VerdictsMonotone`: verdicts do not get milder as what they judge gets worse; `TrendsTell`: a trend is judged by all pairs of its samples |
| `sentinel_sustained` | as before | finding: a value that stays at its level trips the sentinel again; the test that says otherwise fails when it is run |
| `trend_steady` | the six samples of the test | finding: a steady climb is volatile; the test that says otherwise fails when it is run |

Each group of runs also checks the type invariants of its modules.

Why these bounds are enough: what the code tells apart is order, equality and
being on a boundary. Sizes therefore include one below, at and above each limit,
zero (which disables limits) and, for `ceiling.c`, a negative number. Rings of
capacity 1 to 3 have every position of the head relative to the ends, and
sequences go round them more than once. Tables are filled beyond their
room. Counters wrap modulo a small number, larger than each threshold compared
with them, so that both sides of the wrap occur. Times pass each interval and
come back beyond it. Words of 4 bits hold a product of delay and multiplier that
wraps below the delay, one that wraps above it, and, for jitter, every delay with
every seed. The meters' `Scale` is a multiple of every denominator that 3 samples
and 3 units of time can make, so that nothing is rounded.

**Fairness.** The liveness properties assume weak fairness of each thread's
steps inside `sampler_run` (a thread that was not stopped goes on), and
for heartbeat and watchdog that time passes and that the owner goes on checking,
which is what these components are for. `LimitEndsRun` assumes strong fairness
of a successful read while the target lives: reads may fail any number of times
but not for ever. Nothing is assumed of callers, of signals or of beats.
`StopEndsRun` holds without the assumption on reads, which the run has for the
property beside it.

**Deadlock** is checked in every run.

## The proofs

| module | theorems |
|---|---|
| `SamplerProofs` | `TypeCorrect`, `LogsAreSound`, `StopsSoon`, `CountsAreTrue`, `SamplerImplementsSession` |
| `HeartbeatProofs` | `TypeCorrect`, `DeathIsDeserved`, `DeadStaysDead` |
| `WatchdogProofs` | `TypeCorrect`, `StateIsTrue`, `RecoveryIsReported` |
| `GatesProofs` | of `MCGates`: `GatesTypeCorrect`, `GatesAreRateGates`, `GatesForetell`, `GatesSuppressJustly`, `GatesAcceptBursts`, `GatesDelayLawfully`; the same of each component by itself |
| `LaddersProofs` | of `MCLadders`: `LaddersAreIndependent`, `LaddersTypeCorrect`, `LaddersLoseNothing`, `LaddersFireOnce`, `LaddersCountTruly`, `LaddersHaveHysteresis`, `LaddersProbesTell`, `LaddersJudgeMonotonely`; the same of each component by itself |
| `StoreFacts` | lemmas on rings, sequences and tables of pairs, for the next two |
| `SamplesProofs` | of single components: `RingBufferSlides`, `HistorySlides`, `WindowSlides`, `PivotIsRecent`, `RateIsRecent`, `ClampIsTrue`, `TimesAreTrue`, `FiltersTell`, `LatchesTakeOneValue`, `GroupsNeverLead` |
| `StoresProofs` | of single components: `LedgerIsTrue`, `TallyIsTrue`, `ScoreboardIsTable`, `CheckpointsAreTable`; of `MCStores`: `StoresAreIndependent`, `RingsSlide`, `TablesKeep`, `RecentAreRecent`, `AccountsAreTrue`, `StampsAreTrue`, `SelectionsAreTrue`, `LatchesAreTrue` |

They hold for every set of threads, capacity, limit, threshold, interval, size,
name and counter width that satisfies the named assumptions in the modules: that
these are natural numbers (amounts of a ledger integers, bounds of a filter
possibly -1), capacities positive, counters wide enough to hold their
thresholds, that `Junk` and `Never` are no numbers, and that a name is what
its field keeps together with whether more follows (`NamesAssumption`,
`LabelsAssumption`). One theorem has a hypothesis of its own. `TablesKeep`, like
`CheckpointsAreTable`, supposes `NoneLong`, that all labels fit into their
field, as `ShortLabels` in the run `stores` do; without it the statement is
false, which is what the run `checkpoint_long_label` shows.

*Sampler.* `LogSound` is not inductive: that the next append keeps the order
needs to know that the snapshot a thread holds is newer than its log. `LogInv`
adds this, and that every written slot holds the rank of a read that was made.
`CallInv` says that what was counted is what was appended since the call was
made, and that a limit is reached only just before it is tested, from which
`ReturnsWhatItAppended` follows at each return. `FlagInv` says where a thread
can be that has appended since the flag went up: before the test and not
between test and append, so that one sample is all. The refinement uses a lemma
on the abstract log: an append, with or without growth, appends one element to
the sequence.

*Heartbeat.* `miss_count` is the true number of misses until it wraps, only late
clients are counted, and a DEAD state was counted often enough; a few lemmas on
whole milliseconds connect the code's division with the real age.

*Watchdog.* The counter is the true length of the streak until it wraps, and the
state is a function of the last read and this length.

*Gates.* `TypeOK` bounds the last event by the present. `RateGate` says `Never`
where the throttle says 0 and the cooldown says `active = 0`; each step is then
a step of the abstract gate. `DebounceInv` ties count and first time to the
last signals of the history, and a refused signal is one of the first of its
window. `SuppressInv` divides the events that passed into those of the present
window and those before it: `PassedInv` says that all but the last `max_count` of
the earlier ones are more than a window older than the present window, which
makes the bound of twice the limit inductive. `BackoffInv` adds to the law that
`attempt` counts the calls until it wraps, and that the delay is the initial one
before the first call. The law is kept by a product that does not wrap and by one
of 1 or 2 that does (`FollowingIsLaw`); any other has left the law at `max_ms`,
where it stays.

*Ladders.* A composition has the conjunction of its parts' invariants. Those
of `LaddersInv` relate counters to the history of the calls: a cascade's run of
ticks to the place in the history where its level began (`CascadeInv`), a
ceiling's consecutive breaches to the last acceptable value (`CeilingInv`), a
budget's peak to the largest value since the reset, a probe's number and delta
to the numbers drawn and the readings taken before it (`ProbeInv`: threads that
have drawn a number but not stored it are counted, so that with at most `SeqMod`
probes no number comes twice). The verdicts are monotone by case analysis over
orders of thresholds, ratios being compared by products.

*Rings.* `View(d, n, t, c)` is what the ring `d` of `n` slots shows of `c` samples
from slot `t` on. Lemmas say what a view becomes when a slot after its end, or
the oldest one, is written: it grows, slides or loses its first. The ring buffer
has its tail as a variable. History and window do not: they take the oldest to
be at 0 until they are full and at the head from then on, which is the tail only
because nothing is ever taken out. `OpenRing` is the invariant that says so
(the head is the count until the ring is full); `Oldest` derives the tail. The
pivot has in addition that its band is the range of the slots in use, which are
those of the view in another order, and the rate that its two points are the
latest two samples (`RateInv`).

*Tables.* The entries of a table are seen as a set of pairs of key and value
(`Pairs`), with `OneEach` saying that no key is in two rows. Moves, shifts and
sorts leave the set alone, so that `Tells`, which makes it the abstract table, is
disturbed by inserts, updates and removals only. The checkpoint's entries have
but the stem of a label; `CpInv` relates them to `under`, the labels they were
recorded under.

*Accounts and latches.* `LedgerInv` and `TallyInv` relate each entry to the sum of
the events recorded under its name; the tally's names may share a category if
they are long, and its invariant says of short names only that what was counted
is in the category found. `LatchInv` says that the value shown is the first one
offered since arming, `GroupInv` that what a group counted are some of its
latches.

*Times and filters.* `TrackerInv` and `EpochInv` have each stamp equal to the clock
when it was taken; what remains is arithmetic on seconds and rest. For each
criterion, `FilterInv` says that it is the one of the last call that set it, or
that there was none. `ChainInv` says that what was accepted is what every copy in
the chain lets through.

*Independence.* `LaddersAreIndependent` and `StoresAreIndependent` show that a step
of a composition is, for each part, a step or a stutter, and so lift what is
proved of a part by itself.

Only model-checked are:
- liveness (`StopEndsRun`, `LimitEndsRun`, `SilenceDetected`,
  `BreachBecomesCritical`), which is out of the prover's reach;
- `SummariesAgree`, `AveragesTrue`, `TrendsTell` and `ScansFindExtremes`: sums,
  extremes, powers and searches made by folds over all samples. What a fold
  computes for every sequence needs induction with an operator as parameter,
  which the installed provers cannot instantiate;
- `MCStores.TypeOK`: for baseline, statistics and smoothed values it rests on
  the same folds. The types of the others are part of the invariants above.

## Findings

1. `sampler.c:23`: a stop between the call of `sampler_run` and its first store
   is lost (`sampler.h:16-17` promises that the call stops).
2. `heartbeat.c:60`: `on_dead` is repeated at each check (`heartbeat.h:19`:
   "when state -> DEAD").
3. `checkpoint.c:19`: labels of 64 characters or more (`checkpoint.c:16`).
4. `sentinel.c:42`: sustained values trip again (`test_sentinel.c:85`,
   `sentinel.h:5`).
5. `trend.c:45`: the variance is tested before the slope, so a steady climb of
   more than 219 kB in all is volatile (`test_trend.c:15-17`).

Met while modelling, and described by properties that hold of the code as it
is: `ceiling.active` stays up in the soft band although `ceiling.h:31` calls it
the hard-breach state; a debouncer for one signal takes two; a suppressor lets
up to twice its limit through over the edge of two windows; a cascade's level
can fire without the level below it having fired, although `cascade.h:9-10`
speaks of breaches in sequence; a watchdog that fails a read between a violation
and an acceptable value does not report the recovery (`RecoveryReported` says so); a guard whose action is
NONE forgets its run at a soft breach. `backoff_next` returns the delay that was current and
not, as `backoff.h:26` says, the new one; so the first delay is the initial one,
which may exceed the maximum. A multiplier of 3 or more may wrap unnoticed, so
that delays lag behind the exponential law once that has reached the maximum
(they never shrink). `delta_rss_kb` is the last size and not
"last - first" (`stats.h:17`). A filter's bound, once set, is not lifted by -1
(`filter.h:30` says "-1 to ignore bound"). A probe whose read fails shows a size
of 0 and the call succeeds. A tracker's stamps are rounded now down, now up. An
epoch that was reset looks open since the clock's zero. A deviation from a
baseline of 0 has severity LOW. `alert_build` and `pressure_evaluate` accept
thresholds in any order and stay monotone.

Further tests and comments that the code does not follow, without a run:
`backoff_next` is called with an initial delay of 10 and expected to return 20,
40 and 80 (`test_backoff.c:29-34`) where the code returns 10 first, and in the
test of its jitter to stay within the maximum (`test_backoff.c:70`), which the
first delay need not; `backoff.h` declares a jitter, a minimum and
`backoff_saturated`, which `backoff.c` does not have, and the code has a
multiplier and a limit of attempts, which the header lacks, so that the property
on delays is about the `.c` file and says of the delay handed out only what holds
of the old delay and of the new one; a jitter that was reset gets the default seed and not its own, so that
`test_jitter.c:52` fails; `filter_chain_apply` returns 0 where
`filter_chain.h:27-28` says -1;
`formatter_write_report` returns 0 where `formatter.h` says -1, when a line other
than a snapshot cannot be written; `probe.c:12` reads process 0, which has no
status file, so that a probe always shows 0 on Linux.

No property covers, and callers should know: `on_dead` that calls
`heartbeat_check`, or a watchdog callback that calls `watchdog_check` with
interval 0, recurses without end; appending to a freed log doubles a capacity of
0; one thread's entry into `sampler_run` erases a stop meant for another (the
model has this; the properties on stops say what a flag does that stays up); a
budget policy that is handed an older "ok" resets, and forgets, a budget that has
been exceeded since (the model has this, too); pushing to a freed history
dereferences NULL; setting up a history in use leaks its array, and if the new
one cannot be allocated leaves none beside a count that is not 0; a long name
registered again with a tally gets another category; a timed suppressor does not suppress again after its window unless it is checked;
jitter in mode FULL divides by 0 for the delay 2^32 - 1; a full tally refuses
names it knows; the name in a sentinel's event is not terminated if it has 63
characters.

## Not modelled

Formatting and printing of single records (`reporter.c`, most of `formatter.c`,
the functions that print, format or name a value) change no state. The scanning of a status file, and of
`/proc/meminfo`, is reduced to which fields were found. `decay_time_to_threshold`
is a logarithm; `decay.c` is modelled at times that are multiples of its
half-life, where powers of one half are rational. Rounding of floating point is
left out: quotients are exact in the models. `clamp_ratio`, a quotient of two
modelled counters, is left out, and so are the fields that functions only copy
(pids, names of probes, sequence numbers of epochs, user data). Callbacks that
call the function they were called from are left out for the reason above. Null
pointers are refused or not by a test at the entry of each function, which is
left out except in `sampler_run`. No code of the repository puts several
components together, so no model does beyond the pairs named above.

## Plan

Done, in this order: the sampling loop and its log; heartbeat and watchdog; the
gates; the stores; the tables; the ladders and limits; retry delays, meters,
tracker and epoch, probes, filters and verdicts; then the proofs, of the sampler,
of heartbeat and watchdog, of the gates, of the ladders, and of the stores with
their refinements of `SlidingLog` and `BoundedTable`.

What the runs check and no theorem states is listed above with the reason. Open
beyond this: the components of the section before, and a model of a program that
puts the library's components together, once the repository has one.
