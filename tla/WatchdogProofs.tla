--------------------------- MODULE WatchdogProofs --------------------------
(***************************************************************************)
(* Proofs about Watchdog, for every set of configurations and of memory    *)
(* sizes and for every counter width.                                      *)
(***************************************************************************)
EXTENDS Watchdog, TLAPS

\* Until it wraps, the watchdog's count of consecutive violations is true.
CountInv == streak < CounterMod => consecutive_violations = streak

IInv == TypeOK /\ CountInv /\ StateReflectsReads

USE ConfigsAssumption, SizesAssumption, CounterAssumption

-----------------------------------------------------------------------------
LEMMA Zeros ==
  /\ 0 \in 0..(CounterMod - 1)
  /\ 0 \in 0..CounterMod
  /\ NoSnapshot \in Snapshots
BY DEF NoSnapshot, Snapshots

LEMMA ConfigTypes ==
  ASSUME TypeOK
  PROVE  /\ AgeCap \in Nat
         /\ cfg.max_consecutive \in 0..(CounterMod - 1)
         /\ cfg.on_violation \in {"quiet", "reset"}
BY DEF TypeOK, ConfigSet, AgeCap

LEMMA ConsecutiveType ==
  ASSUME TypeOK
  PROVE  /\ Consecutive \in 0..(CounterMod - 1)
         /\ (violation_count + 1) % CounterMod \in 0..(CounterMod - 1)
         /\ \/ Consecutive = consecutive_violations + 1
            \/ Consecutive = 0 /\ consecutive_violations = CounterMod - 1
<1>1. consecutive_violations \in 0..(CounterMod - 1)
      /\ violation_count \in 0..(CounterMod - 1)
  BY DEF TypeOK
<1>2. CASE consecutive_violations = CounterMod - 1
  BY <1>1, <1>2 DEF Consecutive
<1>3. CASE consecutive_violations # CounterMod - 1
  <2>1. consecutive_violations + 1 \in 0..(CounterMod - 1)
    BY <1>1, <1>3
  <2>2. (consecutive_violations + 1) % CounterMod = consecutive_violations + 1
    BY <2>1
  <2> QED  BY <1>1, <2>1, <2>2 DEF Consecutive
<1> QED  BY <1>2, <1>3

LEMMA InitIInv == Init => IInv
<1> SUFFICES ASSUME Init PROVE IInv
  OBVIOUS
<1>1. 0 \in 0..AgeCap
  BY DEF Init, ConfigSet, AgeCap
<1>2. checked \in BOOLEAN
  BY DEF Init
<1>3. TypeOK
  BY <1>1, <1>2, Zeros DEF Init, TypeOK
<1>4. CountInv /\ StateReflectsReads
  BY DEF Init, CountInv, StateReflectsReads
<1> QED  BY <1>3, <1>4 DEF IInv

LEMMA ResetIInv == IInv /\ watchdog_reset => IInv'
<1> SUFFICES ASSUME IInv, watchdog_reset PROVE IInv'
  OBVIOUS
<1>1. AgeCap' = AgeCap /\ 0 \in 0..AgeCap
  BY ConfigTypes DEF IInv, AgeCap, watchdog_reset
<1>2. checked' \in BOOLEAN
  BY DEF watchdog_reset
<1>3. TypeOK'
  BY <1>1, <1>2, Zeros DEF IInv, TypeOK, watchdog_reset
<1>4. CountInv' /\ StateReflectsReads'
  BY DEF CountInv, StateReflectsReads, watchdog_reset
<1> QED  BY <1>3, <1>4 DEF IInv

\* What every check that makes a read does to the configuration and the clock.
LEMMA ReadsType == IInv /\ Reads =>
  /\ UNCHANGED cfg
  /\ checked' \in BOOLEAN
  /\ age' \in 0..AgeCap'
  /\ \A snap : Breached(snap)' <=> Breached(snap')
BY ConfigTypes DEF IInv, Reads, AgeCap, Breached

LEMMA ErrorIInv == IInv /\ CheckError => IInv'
<1> SUFFICES ASSUME IInv, CheckError PROVE IInv'
  OBVIOUS
<1>1. TypeOK'
  BY ReadsType DEF IInv, TypeOK, CheckError
<1>2. CountInv' /\ StateReflectsReads'
  BY DEF IInv, CountInv, StateReflectsReads, CheckError
<1> QED  BY <1>1, <1>2 DEF IInv

LEMMA OkIInv == IInv /\ CheckOk => IInv'
<1> SUFFICES ASSUME IInv, CheckOk PROVE IInv'
  OBVIOUS
<1>0. state' \in {"OK", "RECOVERING"}
  BY DEF CheckOk
<1>1. TypeOK'
  BY <1>0, ReadsType, Zeros DEF IInv, TypeOK, CheckOk
<1>2. CountInv' /\ StateReflectsReads'
  BY <1>0 DEF CountInv, StateReflectsReads, CheckOk
<1> QED  BY <1>1, <1>2 DEF IInv

LEMMA BreachIInv == IInv /\ (CheckViolation \/ CheckCritical) => IInv'
<1> SUFFICES ASSUME IInv, CheckViolation \/ CheckCritical PROVE IInv'
  OBVIOUS
<1>0. TypeOK /\ CountInv /\ StateReflectsReads
  BY DEF IInv
<1>1. /\ Reads /\ Counted
      /\ \E snap \in Snapshots : Breached(snap) /\ last_snapshot' = snap
      /\ \/ state' = "VIOLATION" /\ ~Critical
         \/ state' = "CRITICAL" /\ Critical
  BY DEF CheckViolation, CheckCritical
<1>2. cfg' = cfg /\ last_snapshot' \in Snapshots /\ Breached(last_snapshot)'
  BY <1>1 DEF Reads, Breached
<1>3. streak' \in 1..CounterMod
  BY <1>0, <1>1 DEF TypeOK, Counted
<1>4. TypeOK'
  BY <1>0, <1>1, <1>2, <1>3, ReadsType, ConsecutiveType DEF IInv, TypeOK, Counted
<1>5. CountInv'
  BY <1>0, <1>1, ConsecutiveType DEF TypeOK, CountInv, Counted
<1>6. StateReflectsReads'
  <2>1. /\ cfg.max_consecutive \in 0..(CounterMod - 1)
        /\ Consecutive \in 0..(CounterMod - 1)
        /\ streak' < CounterMod => Consecutive = streak'
    BY <1>0, <1>1, <1>5, ConfigTypes, ConsecutiveType DEF CountInv, Counted
  <2>2. CASE state' = "CRITICAL"
    BY <1>1, <1>2, <1>3, <2>1, <2>2 DEF Critical, StateReflectsReads
  <2>3. CASE state' = "VIOLATION"
    BY <1>1, <1>2, <1>3, <2>1, <2>3 DEF Critical, StateReflectsReads
  <2> QED  BY <1>1, <2>2, <2>3
<1> QED  BY <1>4, <1>5, <1>6 DEF IInv

LEMMA NextIInv == IInv /\ [Next]_vars => IInv'
<1> SUFFICES ASSUME IInv, [Next]_vars PROVE IInv'
  OBVIOUS
<1>1. CASE CheckSkipped \/ UNCHANGED vars
  BY <1>1 DEF CheckSkipped, IInv, TypeOK, AgeCap, CountInv, StateReflectsReads,
     Breached, vars
<1>2. CASE Tick
  <2>1. AgeCap' = AgeCap /\ age' \in 0..AgeCap /\ UNCHANGED <<cfg, wdVars>>
    BY <1>2, ConfigTypes DEF IInv, TypeOK, AgeCap, Tick
  <2> QED  BY <2>1 DEF IInv, TypeOK, CountInv, StateReflectsReads, Breached, wdVars
<1> QED  BY <1>1, <1>2, ResetIInv, ErrorIInv, OkIInv, BreachIInv
         DEF Next, watchdog_check, CheckViolationResets, CheckCriticalResets

THEOREM Invariance == Spec => []IInv
BY InitIInv, NextIInv, PTL DEF Spec

-----------------------------------------------------------------------------
(* The properties of Watchdog.                                             *)

\* Every variable of the watchdog keeps its type.
THEOREM TypeCorrect == Spec => []TypeOK
BY Invariance, PTL DEF IInv

\* VIOLATION and CRITICAL tell the truth about the reads made so far, through
\* skipped checks, failed reads and callbacks that reset the watchdog.
THEOREM StateIsTrue == Spec => []StateReflectsReads
BY Invariance, PTL DEF IInv

\* The end of a streak is reported as RECOVERING, and nothing else is; after a
\* failed read it is reported as OK.
THEOREM RecoveryIsReported == Spec => RecoveryReported
<1> DEFINE End ==
      /\ streak > 0 /\ streak' = 0 =>
           state' \in {"IDLE", IF state = "ERROR" THEN "OK" ELSE "RECOVERING"}
      /\ state' = "RECOVERING" /\ state # "RECOVERING" =>
           Breached(last_snapshot) /\ ~Breached(last_snapshot')
<1>1. IInv /\ [Next]_vars => End
  <2> SUFFICES ASSUME IInv, [Next]_vars PROVE End
    OBVIOUS
  <2>0. TypeOK /\ StateReflectsReads
    BY DEF IInv
  <2>1. CASE CheckSkipped \/ UNCHANGED vars \/ Tick
    BY <2>0, <2>1 DEF TypeOK, CheckSkipped, vars, wdVars, Tick
  <2>2. CASE watchdog_reset \/ CheckViolationResets \/ CheckCriticalResets
    BY <2>2 DEF watchdog_reset, CheckViolationResets, CheckCriticalResets
  <2>3. CASE CheckError
    BY <2>0, <2>3 DEF CheckError
  <2>4. CASE CheckOk
    <3>1. PICK snap \in Snapshots : ~Breached(snap) /\ last_snapshot' = snap
      BY <2>4 DEF CheckOk
    <3> QED  BY <2>0, <2>4, <3>1 DEF CheckOk, TypeOK, StateReflectsReads
  <2>5. CASE CheckViolation \/ CheckCritical
    BY <2>0, <2>5 DEF TypeOK, CheckViolation, CheckCritical, Counted
  <2> QED  BY <2>1, <2>2, <2>3, <2>4, <2>5 DEF Next, watchdog_check
<1> QED  BY <1>1, Invariance, PTL DEF Spec, RecoveryReported
=============================================================================
