----------------------------- MODULE Suppress ------------------------------
(***************************************************************************)
(* The event suppressor of memtrace-lite (src/src/suppress.c).  In mode    *)
(* TIMED the first event passes and starts a suppression of window_ms; in  *)
(* mode COUNT the first max_count events of a window pass.  The caller     *)
(* passes its time in 32 bits, which come round every ClockMod ms.         *)
(***************************************************************************)
EXTENDS GateClock, Sequences, FiniteSets

CONSTANTS ClockMod,    \* 2^32
          MaxRecords,  \* bound: events counted between two clearings of count
          MaxPasses    \* bound: events let through between two resets

VARIABLES mode, window_ms, max_count,           \* fixed by suppress_init
          count, window_start_ms, suppress_until_ms, active,
          verdict,   \* what the last record or check at this time returned
          since,     \* history: when the window or suppression really started
          passed     \* history: when events were let through, mode COUNT

cfgVars == <<mode, window_ms, max_count>>
vars    == <<now, mode, window_ms, max_count, count, window_start_ms,
             suppress_until_ms, active, verdict, since, passed>>

Clock(t) == t % ClockMod

\* window_start_ms is cleared to 0: the last time that the clock read so.
LastZero == now - Clock(now)

suppress_init ==
  /\ mode \in {"TIMED", "COUNT"}
  /\ window_ms \in {d \in Durations : d < ClockMod}
  /\ max_count \in Counts
  /\ count = 0 /\ window_start_ms = 0 /\ suppress_until_ms = 0
  /\ active = FALSE
  /\ verdict = "none"
  /\ since = 0
  /\ passed = <<>>

Init == now = 0 /\ suppress_init

suppress_reset ==
  /\ count' = 0 /\ window_start_ms' = 0 /\ suppress_until_ms' = 0
  /\ active' = FALSE
  /\ verdict' = "none"
  /\ since' = LastZero
  /\ passed' = <<>>
  /\ UNCHANGED <<now, cfgVars>>

-----------------------------------------------------------------------------
(* Mode TIMED.                                                             *)

\* Mutant: the end of the suppression is still suppressed.
Before_Inclusive == Clock(now) <= suppress_until_ms

Before == Clock(now) < suppress_until_ms

\* Mutant: the count is cleared, but the suppressor stays active.
CheckTimed_KeepsActive ==
  /\ mode = "TIMED"
  /\ verdict' = IF active /\ Before THEN "block" ELSE "pass"
  /\ count' = IF active /\ ~Before THEN 0 ELSE count
  /\ UNCHANGED <<now, cfgVars, window_start_ms, suppress_until_ms, active,
                 since, passed>>

\* A check that finds the suppression over ends it; a record does not.
CheckTimed ==
  /\ mode = "TIMED"
  /\ verdict' = IF active /\ Before THEN "block" ELSE "pass"
  /\ active' = (active /\ Before)
  /\ count' = IF active /\ ~Before THEN 0 ELSE count
  /\ UNCHANGED <<now, cfgVars, window_start_ms, suppress_until_ms, since, passed>>

RecordFirst ==
  /\ mode = "TIMED" /\ ~active
  /\ active' = TRUE
  /\ suppress_until_ms' = Clock(now + window_ms)
  /\ count' = 1
  /\ verdict' = "pass"
  /\ since' = now
  /\ UNCHANGED <<now, cfgVars, window_start_ms, passed>>

RecordTimed ==
  /\ mode = "TIMED" /\ active
  /\ count < MaxRecords
  /\ count' = count + 1
  /\ verdict' = IF Before THEN "block" ELSE "pass"
  /\ UNCHANGED <<now, cfgVars, window_start_ms, suppress_until_ms, active,
                 since, passed>>

-----------------------------------------------------------------------------
(* Mode COUNT.                                                             *)

WindowOver == Clock(now - window_start_ms) > window_ms

\* Mutant: the new window does not remember when it started.
Opened_NoStart(n) ==
  /\ count' = n + (IF WindowOver THEN 0 ELSE count)
  /\ UNCHANGED window_start_ms
  /\ since' = IF WindowOver THEN now ELSE since

\* Mutant: the events of the old window still count.
Opened_KeepsCount(n) ==
  /\ count' = n + count
  /\ window_start_ms' = IF WindowOver THEN Clock(now) ELSE window_start_ms
  /\ since' = IF WindowOver THEN now ELSE since

\* The window, opened anew if it is over, with n more events counted in it.
Opened(n) ==
  /\ count' = n + (IF WindowOver THEN 0 ELSE count)
  /\ window_start_ms' = IF WindowOver THEN Clock(now) ELSE window_start_ms
  /\ since' = IF WindowOver THEN now ELSE since

CheckCount ==
  /\ mode = "COUNT"
  /\ Opened(0)
  /\ active' = (active /\ ~WindowOver)
  /\ verdict' = IF active' THEN "block" ELSE "pass"
  /\ UNCHANGED <<now, cfgVars, suppress_until_ms, passed>>

RecordPassed ==
  /\ mode = "COUNT"
  /\ Opened(1) /\ count' <= max_count
  /\ Len(passed) < MaxPasses
  /\ active' = (active /\ ~WindowOver)
  /\ verdict' = "pass"
  /\ passed' = Append(passed, now)
  /\ UNCHANGED <<now, cfgVars, suppress_until_ms>>

RecordBlocked ==
  /\ mode = "COUNT"
  /\ Opened(1) /\ count' > max_count
  /\ count' <= MaxRecords
  /\ active' = TRUE
  /\ verdict' = "block"
  /\ UNCHANGED <<now, cfgVars, suppress_until_ms, passed>>

suppress_check  == CheckTimed \/ CheckCount
suppress_record == RecordFirst \/ RecordTimed \/ RecordPassed \/ RecordBlocked

-----------------------------------------------------------------------------
Tick ==
  /\ TimePasses
  /\ verdict' = "none"
  /\ UNCHANGED <<cfgVars, count, window_start_ms, suppress_until_ms, active,
                 since, passed>>

Next == suppress_reset \/ suppress_check \/ suppress_record \/ Tick

Spec == Init /\ [][Next]_vars

-----------------------------------------------------------------------------
\* Every variable has its type; active is only TRUE while events are counted.
TypeOK ==
  /\ now \in Nat
  /\ mode \in {"TIMED", "COUNT"} /\ window_ms \in Durations /\ max_count \in Counts
  /\ count \in Nat
  /\ window_start_ms \in 0..(ClockMod - 1) /\ suppress_until_ms \in 0..(ClockMod - 1)
  /\ active \in BOOLEAN /\ (active => count > 0)
  /\ verdict \in {"none", "pass", "block"}
  /\ since \in 0..now
  /\ passed \in Seq(0..now)

\* As long as the clock does not come round between the end of a suppression
\* and now, events are suppressed exactly for the window_ms that follow the
\* event that started it (suppress_record, suppress_check).
TimedSuppression ==
  LET end == since + window_ms IN
  mode = "TIMED" /\ active /\ end \div ClockMod = now \div ClockMod =>
    /\ verdict = "block" => now < end
    /\ verdict = "pass"  => now >= end \/ (now = since /\ count = 1)

\* Windows do not slide, so a burst over the edge of two may let through twice
\* max_count events within one window_ms, but never more (suppress_record).
BurstBound ==
  \A i \in DOMAIN passed :
    Cardinality({j \in DOMAIN passed : passed[j] \in passed[i]..(passed[i] + window_ms)})
      <= 2 * max_count

\* No event is suppressed, or reported suppressed, before max_count others
\* passed in a window that is still open, unless that window is so old that
\* the clock has come round (suppress_record, suppress_check).
BlockedForCause ==
  mode = "COUNT" /\ verdict = "block" =>
    /\ Cardinality({i \in DOMAIN passed : passed[i] >= since}) >= max_count
    /\ now - since <= window_ms \/ now - since >= ClockMod
=============================================================================
