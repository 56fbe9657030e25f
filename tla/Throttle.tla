------------------------------ MODULE Throttle -----------------------------
(***************************************************************************)
(* The throttle of memtrace-lite (src/src/throttle.c): at most one event   *)
(* per interval_ms of the monotonic clock is allowed, the others counted.  *)
(* The monotonic clock is past its first millisecond when a program runs,  *)
(* and the code takes 0 for "never".                                       *)
(***************************************************************************)
EXTENDS GateClock

CONSTANT MaxSuppressed   \* bound: suppressed events counted

VARIABLES interval_ms, last_ms, suppressed, enabled,
          allowed     \* what throttle_allow returned, if it was the last step

vars == <<now, interval_ms, last_ms, suppressed, enabled, allowed>>

throttle_init ==
  /\ interval_ms \in Durations
  /\ last_ms = 0
  /\ suppressed = 0
  /\ enabled = TRUE
  /\ allowed = "none"

Init == now = 1 /\ throttle_init

throttle_set_enabled ==
  /\ enabled' \in BOOLEAN
  /\ allowed' = "none"
  /\ UNCHANGED <<now, interval_ms, last_ms, suppressed>>

\* Mutant: strictly more than the interval must have passed.
Due_Late == last_ms = 0 \/ now - last_ms > interval_ms

Due == last_ms = 0 \/ now - last_ms >= interval_ms

AllowDisabled ==
  /\ ~enabled
  /\ allowed' = "pass"
  /\ UNCHANGED <<now, interval_ms, last_ms, suppressed, enabled>>

Allow ==
  /\ enabled /\ Due
  /\ last_ms' = now
  /\ allowed' = "pass"
  /\ UNCHANGED <<now, interval_ms, suppressed, enabled>>

Suppress ==
  /\ enabled /\ ~Due
  /\ suppressed < MaxSuppressed
  /\ suppressed' = suppressed + 1
  /\ allowed' = "block"
  /\ UNCHANGED <<now, interval_ms, last_ms, enabled>>

throttle_allow == AllowDisabled \/ Allow \/ Suppress

throttle_reset ==
  /\ last_ms' = 0
  /\ suppressed' = 0
  /\ allowed' = "none"
  /\ UNCHANGED <<now, interval_ms, enabled>>

Tick ==
  /\ TimePasses
  /\ allowed' = "none"
  /\ UNCHANGED <<interval_ms, last_ms, suppressed, enabled>>

Next == throttle_set_enabled \/ throttle_allow \/ throttle_reset \/ Tick

Spec == Init /\ [][Next]_vars

-----------------------------------------------------------------------------
\* Every variable has its type, and the last allowed event is in the past.
TypeOK ==
  /\ now \in Nat \ {0}
  /\ interval_ms \in Durations
  /\ last_ms \in 0..now
  /\ suppressed \in Nat
  /\ enabled \in BOOLEAN
  /\ allowed \in {"none", "pass", "block"}

\* A throttle is a rate limiter: while it is enabled, allowed events are at
\* least interval_ms apart, across switching off and on, and no event that
\* far from the last allowed one is suppressed (throttle_allow).
Gate == INSTANCE RateGate WITH
  interval <- interval_ms, answer <- allowed,
  last <- IF last_ms = 0 THEN Never ELSE last_ms

ImplementsRateGate == Gate!Spec
=============================================================================
