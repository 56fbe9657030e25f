----------------------------- MODULE Debounce ------------------------------
(***************************************************************************)
(* The debouncer of memtrace-lite (src/src/debounce.c): a condition that   *)
(* is reported again and again is accepted once it was reported min_count  *)
(* times within window_ms without a break.  The caller passes the time.    *)
(***************************************************************************)
EXTENDS GateClock, Sequences

CONSTANT MaxSignals    \* bound: signals in a row

VARIABLES window_ms, min_count,              \* fixed by debounce_init
          active, first_seen_ms, count,
          signals    \* history: the signals since the last break, each with
                     \* its time and with what debounce_update returned

vars == <<now, window_ms, min_count, active, first_seen_ms, count, signals>>

debounce_init ==
  /\ window_ms \in Durations
  /\ \E n \in Counts : min_count = IF n > 0 THEN n ELSE 1
  /\ active = FALSE /\ first_seen_ms = 0 /\ count = 0
  /\ signals = <<>>

Init == now = 0 /\ debounce_init

\* Also what an update without a signal does.
debounce_reset ==
  /\ active' = FALSE /\ first_seen_ms' = 0 /\ count' = 0
  /\ signals' = <<>>
  /\ UNCHANGED <<now, window_ms, min_count>>

-----------------------------------------------------------------------------
Heard(accepted) ==
  /\ Len(signals) < MaxSignals
  /\ signals' = Append(signals, [at |-> now, accepted |-> accepted])
  /\ UNCHANGED <<now, window_ms, min_count>>

Expired == now - first_seen_ms > window_ms

\* Mutant: the signal that opens a window is not counted in it.
StartWindow_FromZero ==
  /\ count = 0 \/ Expired
  /\ first_seen_ms' = now
  /\ count' = 0
  /\ active' = FALSE
  /\ Heard(FALSE)

\* The first signal, and the first one after the window, are never accepted.
StartWindow ==
  /\ count = 0 \/ Expired
  /\ first_seen_ms' = now
  /\ count' = 1
  /\ active' = FALSE
  /\ Heard(FALSE)

CountSignal ==
  /\ count > 0 /\ ~Expired
  /\ count' = count + 1
  /\ active' = (active \/ count' >= min_count)
  /\ Heard(active')
  /\ UNCHANGED first_seen_ms

debounce_update == debounce_reset \/ StartWindow \/ CountSignal

-----------------------------------------------------------------------------
Tick ==
  /\ TimePasses
  /\ UNCHANGED <<window_ms, min_count, active, first_seen_ms, count, signals>>

Next == debounce_update \/ Tick

Spec == Init /\ [][Next]_vars

-----------------------------------------------------------------------------
\* Every variable has its type.
TypeOK ==
  /\ now \in Nat
  /\ window_ms \in Durations /\ min_count \in Nat \ {0}
  /\ active \in BOOLEAN
  /\ first_seen_ms \in 0..now
  /\ count \in Nat
  /\ signals \in Seq([at : 0..now, accepted : BOOLEAN])

\* Accepting takes two signals even where min_count is 1.
Needed == IF min_count < 2 THEN 2 ELSE min_count

\* The last n signals came within window_ms.
Burst(n) ==
  /\ n <= Len(signals)
  /\ signals[Len(signals)].at - signals[Len(signals) + 1 - n].at <= window_ms

\* Nothing is accepted without a burst: enough signals, without a break,
\* within window_ms (debounce_update).
AcceptedMeansBurst == active => Burst(Needed)

\* No long burst is missed: windows do not slide, so Needed signals over the
\* edge of two may all be refused, but of nearly twice as many within
\* window_ms one is accepted (debounce_update).
BurstIsAccepted ==
  Burst(2 * Needed - 1) =>
    \E i \in (Len(signals) - 2 * Needed + 2)..Len(signals) : signals[i].accepted
=============================================================================
