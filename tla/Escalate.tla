------------------------------ MODULE Escalate -----------------------------
(***************************************************************************)
(* The escalation of memtrace-lite (src/src/escalate.c): repeated triggers *)
(* raise a level, and an update without a trigger after a quiet period     *)
(* resets it.  The caller passes the time, of which 0 stands for "never".  *)
(***************************************************************************)
EXTENDS Integers

CONSTANTS Configs,      \* cfg: the three thresholds and auto_reset_ms
          MaxTime,      \* bound: the last time of the clock
          CounterMod    \* trigger_count wraps at this value (2^32)

VARIABLES now, cfg, current_level, trigger_count, last_trigger_time,
          called         \* history: the last call, or the clock's tick

vars == <<now, cfg, current_level, trigger_count, last_trigger_time, called>>

NONE == 0
NOTICE == 1
WARNING == 2
CRITICAL == 3

escalate_init ==
  /\ cfg \in Configs
  /\ current_level = NONE /\ trigger_count = 0 /\ last_trigger_time = 0

Init == now = 0 /\ escalate_init /\ called = "reset"

Cleared ==
  /\ current_level' = NONE /\ trigger_count' = 0 /\ last_trigger_time' = 0
  /\ UNCHANGED <<now, cfg>>

escalate_reset == Cleared /\ called' = "reset"

\* Mutant: the period must have passed by more than a millisecond.
Quiet_Later ==
  /\ cfg.auto_reset_ms > 0 /\ last_trigger_time > 0
  /\ now - last_trigger_time > cfg.auto_reset_ms

Quiet ==
  /\ cfg.auto_reset_ms > 0 /\ last_trigger_time > 0
  /\ now - last_trigger_time >= cfg.auto_reset_ms

UpdateQuiet ==
  /\ called' = "quiet"
  /\ IF Quiet THEN Cleared
     ELSE UNCHANGED <<now, cfg, current_level, trigger_count, last_trigger_time>>

\* Mutant: the notice threshold is compared first.
LevelAt_FromBelow(n) ==
  IF n >= cfg.notice_threshold THEN NOTICE
  ELSE IF n >= cfg.warning_threshold THEN WARNING
  ELSE IF n >= cfg.critical_threshold THEN CRITICAL
  ELSE NONE

LevelAt(n) ==
  IF n >= cfg.critical_threshold THEN CRITICAL
  ELSE IF n >= cfg.warning_threshold THEN WARNING
  ELSE IF n >= cfg.notice_threshold THEN NOTICE
  ELSE NONE

UpdateTriggered ==
  /\ trigger_count' = (trigger_count + 1) % CounterMod
  /\ last_trigger_time' = now
  /\ current_level' = LevelAt(trigger_count')
  /\ called' = "triggered"
  /\ UNCHANGED <<now, cfg>>

escalate_update == UpdateQuiet \/ UpdateTriggered

Tick ==
  /\ now < MaxTime
  /\ now' = now + 1 /\ called' = "tick"
  /\ UNCHANGED <<cfg, current_level, trigger_count, last_trigger_time>>

Next == escalate_reset \/ escalate_update \/ Tick

Spec == Init /\ [][Next]_vars

-----------------------------------------------------------------------------
\* Every variable has its type.
TypeOK ==
  /\ now \in Nat /\ cfg \in Configs
  /\ current_level \in NONE..CRITICAL
  /\ trigger_count \in 0..(CounterMod - 1)
  /\ last_trigger_time \in 0..now
  /\ called \in {"reset", "quiet", "triggered", "tick"}

\* However the thresholds are ordered, triggers never lower the level: it is
\* lost all at once, by a reset or by an update that comes auto_reset_ms after
\* the last trigger, or when trigger_count wraps (escalate_update).
NeverDemoted ==
  [][current_level' < current_level =>
       trigger_count' = 0 /\ (\/ current_level' = NONE
                              \/ trigger_count = CounterMod - 1)]_vars

\* The first update without a trigger that comes auto_reset_ms or more after the
\* last trigger resets the level, and one that comes earlier does not.  A
\* trigger at time 0 is as none: the level it raised stays until
\* escalate_reset (escalate_update).
QuietResets ==
  [][called' = "quiet" /\ current_level > NONE =>
       IF /\ cfg.auto_reset_ms > 0
          /\ now >= last_trigger_time + cfg.auto_reset_ms
          /\ last_trigger_time # 0
       THEN current_level' = NONE /\ trigger_count' = 0
       ELSE current_level' = current_level]_vars
=============================================================================
