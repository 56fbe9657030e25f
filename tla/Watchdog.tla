----------------------------- MODULE Watchdog ------------------------------
(***************************************************************************)
(* The watchdog of memtrace-lite (src/src/watchdog.c): a supervisor calls  *)
(* watchdog_check, which reads the memory of the target at most once per   *)
(* interval, counts the reads above the limits, and calls on_violation and *)
(* on_critical.  A callback may reset the watchdog that is calling it; the *)
(* rest of the check then runs on the reset watchdog.                      *)
(*                                                                         *)
(* last_check_ts is represented by checked (it is 0 before the first read) *)
(* and by age, the milliseconds since that read, which stop at the         *)
(* interval: the code tells no two larger ages apart.                      *)
(***************************************************************************)
EXTENDS Integers

CONSTANTS
  Intervals, RssLimits, VmsLimits,     \* the configurations given to
  MaxConsecutives,                     \* watchdog_init
  Sizes,       \* memory sizes in kB: what a read can return
  CounterMod   \* the counters, unsigned int, wrap at this value (2^32)

\* A callback is NULL or leaves the watchdog alone ("quiet"), or resets it.
ConfigSet ==
  [interval_ms : Int, rss_limit_kb : Int, vms_limit_kb : Int,
   max_consecutive : 0..(CounterMod - 1),
   on_violation : {"quiet", "reset"}, on_critical : {"quiet", "reset"}]

Configs ==
  [interval_ms : Intervals, rss_limit_kb : RssLimits, vms_limit_kb : VmsLimits,
   max_consecutive : MaxConsecutives,
   on_violation : {"quiet", "reset"}, on_critical : {"quiet", "reset"}]

Snapshots  == [rss_kb : Sizes, vms_kb : Sizes]
NoSnapshot == [rss_kb |-> 0, vms_kb |-> 0]     \* the memset of init and reset

ASSUME ConfigsAssumption == Configs \subseteq ConfigSet
ASSUME SizesAssumption   == Sizes \subseteq Nat /\ 0 \in Sizes
ASSUME CounterAssumption == CounterMod \in Nat \ {0, 1}

VARIABLES
  cfg,                      \* fixed by watchdog_init
  state,                    \* wd->state
  checked, age,             \* wd->last_check_ts
  last_snapshot,
  violation_count,
  consecutive_violations,
  streak                    \* history: breaching reads since the last read
                            \* within the limits or reset, up to CounterMod

wdVars == <<state, checked, last_snapshot, violation_count,
            consecutive_violations, streak>>
vars   == <<cfg, state, checked, age, last_snapshot, violation_count,
            consecutive_violations, streak>>

AgeCap == IF cfg.interval_ms > 0 THEN cfg.interval_ms ELSE 0

Init ==
  /\ cfg \in Configs
  /\ state = "IDLE"
  /\ checked = FALSE
  /\ age = 0
  /\ last_snapshot = NoSnapshot
  /\ violation_count = 0
  /\ consecutive_violations = 0
  /\ streak = 0

watchdog_reset ==
  /\ state' = "IDLE"
  /\ checked' = FALSE
  /\ age' = 0
  /\ last_snapshot' = NoSnapshot
  /\ violation_count' = 0
  /\ consecutive_violations' = 0
  /\ streak' = 0
  /\ UNCHANGED cfg

-----------------------------------------------------------------------------
(* watchdog_check.                                                         *)

\* Less than interval_ms since the last read: nothing is read.
Skips == checked /\ age < cfg.interval_ms

CheckSkipped == Skips /\ UNCHANGED vars

\* A read is made, and its time remembered, whatever it returns.
Reads ==
  /\ ~Skips
  /\ checked' = TRUE
  /\ age' = 0
  /\ UNCHANGED cfg

\* Mutant: an unreadable target starts the count again.
CheckError_Forgets ==
  /\ Reads
  /\ state' = "ERROR"
  /\ consecutive_violations' = 0
  /\ UNCHANGED <<last_snapshot, violation_count, streak>>

\* The target cannot be read.
CheckError ==
  /\ Reads
  /\ state' = "ERROR"
  /\ UNCHANGED <<last_snapshot, violation_count, consecutive_violations, streak>>

\* A limit of 0 (or less) is disabled.
Breached(snap) ==
  \/ cfg.rss_limit_kb > 0 /\ snap.rss_kb > cfg.rss_limit_kb
  \/ cfg.vms_limit_kb > 0 /\ snap.vms_kb > cfg.vms_limit_kb

\* Mutant: recovery is only reported from VIOLATION.
CheckOk_FromViolation ==
  /\ Reads
  /\ \E snap \in Snapshots : ~Breached(snap) /\ last_snapshot' = snap
  /\ consecutive_violations' = 0
  /\ state' = IF state = "VIOLATION" THEN "RECOVERING" ELSE "OK"
  /\ streak' = 0
  /\ UNCHANGED violation_count

CheckOk ==
  /\ Reads
  /\ \E snap \in Snapshots : ~Breached(snap) /\ last_snapshot' = snap
  /\ consecutive_violations' = 0
  /\ state' = IF state \in {"VIOLATION", "CRITICAL"} THEN "RECOVERING" ELSE "OK"
  /\ streak' = 0
  /\ UNCHANGED violation_count

\* Mutant: the counter does not wrap.
Consecutive_Unbounded == consecutive_violations + 1

\* The counters after one more breaching read.
Consecutive == (consecutive_violations + 1) % CounterMod

Counted ==
  /\ violation_count' = (violation_count + 1) % CounterMod
  /\ consecutive_violations' = Consecutive
  /\ streak' = IF streak < CounterMod THEN streak + 1 ELSE streak

Critical == cfg.max_consecutive > 0 /\ Consecutive >= cfg.max_consecutive

\* Mutant: a reported violation is not counted again.
CheckViolation_Restarts ==
  /\ Reads
  /\ cfg.on_violation = "quiet" /\ ~Critical
  /\ \E snap \in Snapshots : Breached(snap) /\ last_snapshot' = snap
  /\ consecutive_violations' = 0
  /\ state' = "VIOLATION"
  /\ UNCHANGED <<violation_count, streak>>

\* No callback resets: the check returns VIOLATION, or CRITICAL.
CheckViolation ==
  /\ Reads
  /\ cfg.on_violation = "quiet" /\ ~Critical
  /\ \E snap \in Snapshots : Breached(snap) /\ last_snapshot' = snap
  /\ Counted
  /\ state' = "VIOLATION"

CheckCritical ==
  /\ Reads
  /\ cfg.on_violation = "quiet" /\ Critical /\ cfg.on_critical = "quiet"
  /\ \E snap \in Snapshots : Breached(snap) /\ last_snapshot' = snap
  /\ Counted
  /\ state' = "CRITICAL"

\* on_violation resets: the count is 0 when the check compares it, so that it
\* returns VIOLATION and leaves an idle watchdog.
CheckViolationResets ==
  /\ ~Skips
  /\ cfg.on_violation = "reset"
  /\ \E snap \in Snapshots : Breached(snap)
  /\ watchdog_reset

\* on_critical resets: the check returns CRITICAL and leaves an idle watchdog.
CheckCriticalResets ==
  /\ ~Skips
  /\ cfg.on_violation = "quiet" /\ Critical /\ cfg.on_critical = "reset"
  /\ \E snap \in Snapshots : Breached(snap)
  /\ watchdog_reset

watchdog_check ==
  \/ CheckSkipped \/ CheckError \/ CheckOk
  \/ CheckViolation \/ CheckCritical
  \/ CheckViolationResets \/ CheckCriticalResets

-----------------------------------------------------------------------------
Tick ==
  /\ checked /\ age < AgeCap
  /\ age' = age + 1
  /\ UNCHANGED <<cfg, wdVars>>

Next == watchdog_check \/ watchdog_reset \/ Tick

Spec == Init /\ [][Next]_vars

\* Time passes and the supervisor keeps checking.
FairSpec == Spec /\ WF_vars(Tick) /\ WF_vars(watchdog_check)

-----------------------------------------------------------------------------
(* Correctness.                                                            *)

\* Every variable has its type.
TypeOK ==
  /\ cfg \in Configs
  /\ state \in {"IDLE", "OK", "VIOLATION", "CRITICAL", "RECOVERING", "ERROR"}
  /\ checked \in BOOLEAN
  /\ age \in 0..AgeCap
  /\ last_snapshot \in Snapshots
  /\ violation_count \in 0..(CounterMod - 1)
  /\ consecutive_violations \in 0..(CounterMod - 1)
  /\ streak \in 0..CounterMod

\* The state tells the truth about the reads: CRITICAL exactly when the last
\* snapshot breaches and at least max_consecutive reads in a row did, failed
\* reads in between not counting for or against, VIOLATION when fewer did;
\* any other state but ERROR means that none did.  The one exception is a
\* streak of CounterMod reads, which the counter takes for a new one.
StateReflectsReads ==
  /\ state \in {"VIOLATION", "CRITICAL"} => Breached(last_snapshot) /\ streak > 0
  /\ state = "CRITICAL" =>
       cfg.max_consecutive > 0 /\ streak >= cfg.max_consecutive
  /\ state = "VIOLATION" /\ cfg.max_consecutive > 0 =>
       streak < cfg.max_consecutive \/ streak = CounterMod
  /\ state \in {"IDLE", "OK", "RECOVERING"} => streak = 0

\* The first read within the limits after breaching ones is reported as
\* RECOVERING, and RECOVERING means nothing else.  A failed read in between takes
\* the report away: the same read is then reported as OK, never as RECOVERING
\* (watchdog_check).
RecoveryReported ==
  [][/\ streak > 0 /\ streak' = 0 =>
          state' \in {"IDLE", IF state = "ERROR" THEN "OK" ELSE "RECOVERING"}
     /\ state' = "RECOVERING" /\ state # "RECOVERING" =>
          Breached(last_snapshot) /\ ~Breached(last_snapshot')]_vars

\* A target that stays above a limit makes the watchdog CRITICAL again and
\* again, if it is checked often enough and no callback resets it.
BreachBecomesCritical ==
  (/\ cfg.max_consecutive > 0
   /\ cfg.on_violation = "quiet" /\ cfg.on_critical = "quiet"
   /\ <>[][CheckViolation \/ CheckCritical \/ Tick]_vars)
    => []<>(state = "CRITICAL")
=============================================================================
