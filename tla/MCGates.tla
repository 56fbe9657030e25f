------------------------------ MODULE MCGates ------------------------------
(***************************************************************************)
(* The four gates over one clock, and the delays between retries, which    *)
(* count calls instead.  A behaviour uses one of them, the subject, in     *)
(* each of its configurations; the others are initialised and left alone,  *)
(* as they share nothing with it but the time.                             *)
(***************************************************************************)
EXTENDS GateClock, Sequences

CONSTANTS ClockMod, MaxRecords, MaxPasses, MaxSignals, MaxSuppressed,
          WordMod, Initials, Multipliers, Maxima, AttemptLimits, Bases, Caps

ASSUME ClockModAssumption == ClockMod \in Nat \ {0}
ASSUME WordModAssumption  == WordMod \in Nat \ {0}
ASSUME WordsAssumption    ==
  Initials \cup Multipliers \cup Maxima \cup AttemptLimits \cup Bases \cup Caps
    \subseteq 0..(WordMod - 1)

VARIABLES subject,
          interval_ms, last_ms, suppressed, enabled, allowed,
          period_ms, last_trigger_ms, active, triggered,
          mode, window_ms, max_count, count, window_start_ms,
          suppress_until_ms, suppressing, verdict, since, passed,
          quiet_ms, min_count, settled, first_seen_ms, signal_count, signals,
          initial_ms, multiplier, max_ms, max_attempts, current_ms, attempt,
          backing_off, handed, calls, ideal,
          jitter, base_ms, cap_ms, seed, asked, given

T == INSTANCE Throttle
C == INSTANCE Cooldown
S == INSTANCE Suppress WITH active <- suppressing
D == INSTANCE Debounce WITH window_ms <- quiet_ms, active <- settled,
                            count <- signal_count
R == INSTANCE RetryDelay WITH mode <- jitter

throttleVars == <<interval_ms, last_ms, suppressed, enabled, allowed>>
cooldownVars == <<period_ms, last_trigger_ms, active, triggered>>
suppressVars == <<mode, window_ms, max_count, count, window_start_ms,
                  suppress_until_ms, suppressing, verdict, since, passed>>
debounceVars == <<quiet_ms, min_count, settled, first_seen_ms, signal_count, signals>>
gateVars     == <<throttleVars, cooldownVars, suppressVars, debounceVars>>
backoffVars  == <<initial_ms, multiplier, max_ms, max_attempts, current_ms, attempt,
                  backing_off, handed, calls, ideal>>
jitterVars   == <<jitter, base_ms, cap_ms, seed, asked, given>>
vars == <<now, subject, gateVars, backoffVars, jitterVars>>

Some(S0) == CHOOSE x \in S0 : TRUE

Init ==
  /\ subject \in {"throttle", "cooldown", "suppress", "debounce", "backoff", "jitter"}
  /\ now = IF subject = "throttle" THEN 1 ELSE 0
  /\ T!throttle_init /\ C!cooldown_init /\ S!suppress_init /\ D!debounce_init
  /\ subject # "throttle" => interval_ms = Some(Durations)
  /\ subject # "cooldown" => period_ms = Some(Durations)
  /\ subject # "suppress" =>
       mode = "TIMED" /\ window_ms = Some(Durations) /\ max_count = Some(Counts)
  /\ subject # "debounce" => quiet_ms = Some(Durations) /\ min_count = 1
  /\ subject # "backoff"  => /\ initial_ms = Some(Initials) /\ multiplier = 0
                             /\ max_ms = Some(Maxima) /\ max_attempts = 0
  /\ subject # "jitter"   => /\ jitter = "NONE" /\ seed = 1
                             /\ base_ms = Some(Bases) /\ cap_ms = Some(Caps)
  /\ R!Init

UseThrottle ==
  /\ subject = "throttle"
  /\ T!Next
  /\ UNCHANGED <<subject, cooldownVars, suppressVars, debounceVars, backoffVars, jitterVars>>

UseCooldown ==
  /\ subject = "cooldown"
  /\ C!Next
  /\ UNCHANGED <<subject, throttleVars, suppressVars, debounceVars, backoffVars, jitterVars>>

UseSuppress ==
  /\ subject = "suppress"
  /\ S!Next
  /\ UNCHANGED <<subject, throttleVars, cooldownVars, debounceVars, backoffVars, jitterVars>>

UseDebounce ==
  /\ subject = "debounce"
  /\ D!Next
  /\ UNCHANGED <<subject, throttleVars, cooldownVars, suppressVars, backoffVars, jitterVars>>

UseBackoff ==
  /\ subject = "backoff"
  /\ R!BackoffNext
  /\ UNCHANGED <<now, subject, gateVars, jitterVars>>

UseJitter ==
  /\ subject = "jitter"
  /\ R!JitterNext
  /\ UNCHANGED <<now, subject, gateVars, backoffVars>>

Next == \/ UseThrottle \/ UseCooldown \/ UseSuppress \/ UseDebounce
        \/ UseBackoff \/ UseJitter

Spec == Init /\ [][Next]_vars

-----------------------------------------------------------------------------
\* Every gate keeps its types, used or not.
TypeOK ==
  /\ subject = "throttle" => T!TypeOK
  /\ C!TypeOK /\ S!TypeOK /\ D!TypeOK /\ R!TypeOK

\* A throttle is a rate limiter, across switching off and on, and a cooldown is
\* one, also from time 0 on (throttle_allow, cooldown_trigger).
GatesLimitRate == T!ImplementsRateGate /\ C!ImplementsRateGate

\* cooldown_ready and cooldown_remaining_ms foretell what a trigger does.
ReadyForetells == C!ReadyForetells

\* A timed suppression lasts exactly its window, no more than twice the limit
\* passes in any window, and events are suppressed only behind the limit
\* of an open window (suppress_record, suppress_check).
SuppressionJust ==
  subject = "suppress" => S!TimedSuppression /\ S!BurstBound /\ S!BlockedForCause

\* A debouncer accepts bursts only, and misses no long one (debounce_update).
AcceptsBursts == subject = "debounce" => D!AcceptedMeansBurst /\ D!BurstIsAccepted

\* Delays grow as the backoff's law says, within max_ms and for every multiplier,
\* and jitter keeps them in its band, where words of 32 bits wrap, too
\* (backoff_next, jitter_apply).
DelaysKeepToLaw ==
  /\ subject = "backoff" => R!BackoffKeepsLaw
  /\ subject = "jitter"  => R!JitterKeepsBand
=============================================================================
