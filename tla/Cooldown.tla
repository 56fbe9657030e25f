------------------------------ MODULE Cooldown -----------------------------
(***************************************************************************)
(* The cooldown of memtrace-lite (src/src/cooldown.c): a trigger is let    *)
(* through unless one was, less than period_ms ago.  The caller passes the *)
(* time, which may be 0 and does not go back.                              *)
(***************************************************************************)
EXTENDS GateClock

VARIABLES period_ms, last_trigger_ms, active,
          triggered   \* what cooldown_trigger returned, if it was the last step

vars == <<now, period_ms, last_trigger_ms, active, triggered>>

cooldown_init ==
  /\ period_ms \in Durations
  /\ last_trigger_ms = 0
  /\ active = FALSE
  /\ triggered = "none"

Init == now = 0 /\ cooldown_init

cooldown_reset ==
  /\ last_trigger_ms' = 0
  /\ active' = FALSE
  /\ triggered' = "none"
  /\ UNCHANGED <<now, period_ms>>

\* Mutant: 0 is taken for a time at which nothing was triggered.
Hot_FromZero == last_trigger_ms # 0 /\ now - last_trigger_ms < period_ms

\* A trigger was let through less than period_ms ago.
Hot == active /\ now - last_trigger_ms < period_ms

Refuse ==
  /\ Hot
  /\ triggered' = "block"
  /\ UNCHANGED <<now, period_ms, last_trigger_ms, active>>

LetThrough ==
  /\ ~Hot
  /\ last_trigger_ms' = now
  /\ active' = TRUE
  /\ triggered' = "pass"
  /\ UNCHANGED <<now, period_ms>>

cooldown_trigger == Refuse \/ LetThrough

Tick ==
  /\ TimePasses
  /\ triggered' = "none"
  /\ UNCHANGED <<period_ms, last_trigger_ms, active>>

Next == cooldown_reset \/ cooldown_trigger \/ Tick

Spec == Init /\ [][Next]_vars

-----------------------------------------------------------------------------
(* The two questions a caller can ask without triggering.                  *)

cooldown_ready == ~active \/ now - last_trigger_ms >= period_ms

\* Mutant: what is left is measured from the other end.
cooldown_remaining_ms_Elapsed ==
  IF ~active \/ now - last_trigger_ms >= period_ms THEN 0
  ELSE now - last_trigger_ms

cooldown_remaining_ms ==
  IF ~active \/ now - last_trigger_ms >= period_ms THEN 0
  ELSE period_ms - (now - last_trigger_ms)

-----------------------------------------------------------------------------
\* Every variable has its type, and the last trigger is in the past.
TypeOK ==
  /\ now \in Nat
  /\ period_ms \in Durations
  /\ last_trigger_ms \in 0..now
  /\ active \in BOOLEAN
  /\ triggered \in {"none", "pass", "block"}

\* The questions foretell the trigger: ready says now, and remaining says for
\* how long, a trigger would be refused (cooldown_ready, _remaining_ms).
ReadyForetells ==
  /\ cooldown_ready <=> ~Hot
  /\ \A d \in 0..MaxTime :
       (active /\ now + d - last_trigger_ms < period_ms) <=> d < cooldown_remaining_ms

\* A cooldown is a rate limiter: triggers are let through at least period_ms
\* apart, also the first one at time 0, and none is refused without need
\* (cooldown_trigger).
Gate == INSTANCE RateGate WITH
  interval <- period_ms, enabled <- TRUE, answer <- triggered,
  last <- IF active THEN last_trigger_ms ELSE Never

ImplementsRateGate == Gate!Spec
=============================================================================
