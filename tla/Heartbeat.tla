----------------------------- MODULE Heartbeat -----------------------------
(***************************************************************************)
(* The heartbeat monitor of memtrace-lite (src/src/heartbeat.c): a client  *)
(* beats, a supervisor checks, time passes, and after enough checks        *)
(* without a recent beat the monitor declares the client dead and calls    *)
(* on_dead, which may itself beat or reset the monitor it is given.        *)
(*                                                                         *)
(* last_beat_ns is represented by beaten (it is 0 until the first beat)    *)
(* and by age, the time since the beat in ticks of 1 ms / TicksPerMs.  Age *)
(* stops at the first value whose millisecond count exceeds the interval:  *)
(* the code tells no two larger ages apart.                                *)
(***************************************************************************)
EXTENDS Integers

CONSTANTS
  Intervals,    \* values of cfg.interval_ms
  Thresholds,   \* values of cfg.miss_threshold
  Callbacks,    \* what cfg.on_dead does: "none" (NULL), "log", "beat", "reset"
  TicksPerMs,   \* ticks of the clock per millisecond
  CounterMod    \* the counters wrap at this value (2^32 for miss_count)

ASSUME IntervalsAssumption  == Intervals \subseteq Nat
ASSUME ThresholdsAssumption == Thresholds \subseteq 0..(CounterMod - 1)
ASSUME CallbacksAssumption  == Callbacks \subseteq {"none", "log", "beat", "reset"}
ASSUME TicksAssumption      == TicksPerMs \in Nat \ {0}
ASSUME CounterAssumption    == CounterMod \in Nat \ {0, 1}

VARIABLES
  interval_ms, miss_threshold, on_dead,   \* cfg, fixed by heartbeat_init
  state,         \* "ALIVE", "DEGRADED" or "DEAD"
  beaten,        \* last_beat_ns # 0
  age,           \* time since the last beat, in ticks
  miss_count,    \* misses as the monitor counts them
  total_beats,   \* beats since init or reset, modulo CounterMod
  missed         \* history: checks that found the client late since it last
                 \* beat or was reset, counted up to CounterMod

cfgVars == <<interval_ms, miss_threshold, on_dead>>
vars    == <<interval_ms, miss_threshold, on_dead, state, beaten, age,
             miss_count, total_beats, missed>>

AgeCap == (interval_ms + 1) * TicksPerMs

Init ==
  /\ interval_ms \in Intervals
  /\ miss_threshold \in Thresholds
  /\ on_dead \in Callbacks
  /\ state = "ALIVE"
  /\ beaten = FALSE
  /\ age = 0
  /\ miss_count = 0
  /\ total_beats = 0
  /\ missed = 0

-----------------------------------------------------------------------------
heartbeat_beat ==
  /\ beaten' = TRUE
  /\ age' = 0
  /\ total_beats' = (total_beats + 1) % CounterMod
  /\ miss_count' = 0
  /\ state' = "ALIVE"
  /\ missed' = 0
  /\ UNCHANGED cfgVars

heartbeat_reset ==
  /\ beaten' = FALSE
  /\ age' = 0
  /\ total_beats' = 0
  /\ miss_count' = 0
  /\ state' = "ALIVE"
  /\ missed' = 0
  /\ UNCHANGED cfgVars

-----------------------------------------------------------------------------
(* heartbeat_check.                                                        *)

\* Mutant: the interval itself already counts as late.
Late_AtInterval == ~beaten \/ age \div TicksPerMs >= interval_ms

\* Never beaten, or more whole milliseconds than the interval have passed.
Late == ~beaten \/ age \div TicksPerMs > interval_ms

\* Mutant: a client that never beat is not counted as missing.
Misses_OnceBeaten == IF beaten /\ Late THEN (miss_count + 1) % CounterMod ELSE 0

\* Mutant: the counter does not wrap.
Misses_Unbounded == IF Late THEN miss_count + 1 ELSE 0

\* miss_count after this check.
Misses == IF Late THEN (miss_count + 1) % CounterMod ELSE 0

Seen ==
  missed' = IF ~Late THEN 0 ELSE IF missed < CounterMod THEN missed + 1 ELSE missed

CheckAlive ==
  /\ Misses = 0
  /\ miss_count' = 0
  /\ state' = "ALIVE"
  /\ Seen
  /\ UNCHANGED <<cfgVars, beaten, age, total_beats>>

CheckDegraded ==
  /\ Misses # 0 /\ Misses < miss_threshold
  /\ miss_count' = Misses
  /\ state' = "DEGRADED"
  /\ Seen
  /\ UNCHANGED <<cfgVars, beaten, age, total_beats>>

Death == Misses # 0 /\ Misses >= miss_threshold

\* Mutant: the count starts again once the death was reported.
CheckDead_Restarts ==
  /\ Death /\ on_dead \notin {"beat", "reset"}
  /\ miss_count' = 0
  /\ state' = "DEAD"
  /\ Seen
  /\ UNCHANGED <<cfgVars, beaten, age, total_beats>>

\* No callback, or one that leaves the monitor alone.
CheckDead ==
  /\ Death /\ on_dead \notin {"beat", "reset"}
  /\ miss_count' = Misses
  /\ state' = "DEAD"
  /\ Seen
  /\ UNCHANGED <<cfgVars, beaten, age, total_beats>>

\* The callback revives the monitor, and the check returns the revived state.
CheckDeadBeats  == Death /\ on_dead = "beat"  /\ heartbeat_beat
CheckDeadResets == Death /\ on_dead = "reset" /\ heartbeat_reset

heartbeat_check ==
  CheckAlive \/ CheckDegraded \/ CheckDead \/ CheckDeadBeats \/ CheckDeadResets

-----------------------------------------------------------------------------
Tick ==
  /\ beaten /\ age < AgeCap
  /\ age' = age + 1
  /\ UNCHANGED <<cfgVars, state, beaten, miss_count, total_beats, missed>>

Next == heartbeat_beat \/ heartbeat_reset \/ heartbeat_check \/ Tick

Spec == Init /\ [][Next]_vars

\* Time passes and the supervisor keeps checking; nobody has to beat or reset.
FairSpec == Spec /\ WF_vars(Tick) /\ WF_vars(heartbeat_check)

-----------------------------------------------------------------------------
(* Correctness.                                                            *)

\* Every variable has its type.
TypeOK ==
  /\ interval_ms \in Intervals
  /\ miss_threshold \in Thresholds
  /\ on_dead \in Callbacks
  /\ state \in {"ALIVE", "DEGRADED", "DEAD"}
  /\ beaten \in BOOLEAN
  /\ age \in 0..AgeCap
  /\ miss_count \in 0..(CounterMod - 1)
  /\ total_beats \in 0..(CounterMod - 1)
  /\ missed \in 0..CounterMod

\* A monitor is DEAD only if its client really is silent: it never beat, or
\* more than the interval has passed since, and miss_threshold checks found
\* that.  A beat between two checks is never forgotten (heartbeat_check).
DeathDeserved ==
  state = "DEAD" =>
    /\ beaten => age > interval_ms * TicksPerMs
    /\ missed >= 1 /\ missed >= miss_threshold

\* What is dead stays dead until it beats or is reset, whatever checks are
\* made: only a wrap of miss_count can bring it back (heartbeat_check).
NoResurrection ==
  [][state = "DEAD" /\ state' # "DEAD" =>
       missed' = 0 \/ (miss_count = CounterMod - 1 /\ miss_count' = 0)]_vars

\* A client that stops beating is found dead again and again by a supervisor
\* that keeps checking, even one that never beat (heartbeat_check).
SilenceDetected ==
  (<>[][~heartbeat_beat /\ ~heartbeat_reset]_vars
     /\ on_dead \notin {"beat", "reset"}) => []<>(state = "DEAD")

\* heartbeat.h:19 says of on_dead: "Optional callback when state -> DEAD".
CallsOnDead == CheckDead /\ on_dead # "none"

CalledOnTransition == [][CallsOnDead => state # "DEAD"]_vars
=============================================================================
