-------------------------- MODULE HeartbeatProofs --------------------------
(***************************************************************************)
(* Proofs about Heartbeat, for every interval, threshold, callback, clock  *)
(* resolution and counter width.                                           *)
(***************************************************************************)
EXTENDS Heartbeat, TLAPS

\* The monitor's count is the true count until it wraps; only a late client
\* is counted; a dead one was counted often enough.
CountInv ==
  /\ missed < CounterMod => miss_count = missed
  /\ missed > 0 => Late
  /\ state = "DEAD" => /\ missed >= 1 /\ missed >= miss_threshold
                       /\ miss_count >= 1 /\ miss_count >= miss_threshold

IInv == TypeOK /\ CountInv

USE IntervalsAssumption, ThresholdsAssumption, CallbacksAssumption,
    TicksAssumption, CounterAssumption

-----------------------------------------------------------------------------
(* Arithmetic of the clock.                                                *)

\* More than k whole milliseconds is more than k milliseconds.
LEMMA WholeMs ==
  ASSUME NEW t \in Nat \ {0}, NEW k \in Nat, NEW x \in Nat, x \div t > k
  PROVE  x > k * t
<1> DEFINE q == x \div t
<1>1. q \in Nat /\ x = t * q + (x % t) /\ x % t \in 0..(t - 1)
  OBVIOUS
<1>2. q >= k + 1
  BY <1>1
<1> HIDE DEF q
<1>3. t * q >= t * (k + 1)
  BY <1>1, <1>2
<1> QED  BY <1>1, <1>3

\* Time only makes a client later.
LEMMA DivGrows ==
  ASSUME NEW t \in Nat \ {0}, NEW x \in Nat
  PROVE  x \div t \in Nat /\ (x + 1) \div t \in Nat /\ (x + 1) \div t >= x \div t
<1> DEFINE q == x \div t  p == (x + 1) \div t
<1>1. /\ q \in Nat /\ x = t * q + (x % t) /\ x % t \in 0..(t - 1)
      /\ p \in Nat /\ x + 1 = t * p + ((x + 1) % t) /\ (x + 1) % t \in 0..(t - 1)
  OBVIOUS
<1> HIDE DEF q, p
<1>2. CASE p < q
  <2>1. t * p <= t * (q - 1)
    BY <1>1, <1>2
  <2> QED  BY <1>1, <2>1
<1> QED  BY <1>1, <1>2 DEF p, q

LEMMA AgeCapType == TypeOK => AgeCap \in Nat
BY DEF TypeOK, AgeCap

-----------------------------------------------------------------------------
(* The inductive invariant.                                                *)

LEMMA InitIInv == Init => IInv
<1> SUFFICES ASSUME Init PROVE IInv
  OBVIOUS
<1>1. interval_ms \in Nat /\ TicksPerMs \in Nat
  BY DEF Init
<1>2. AgeCap \in Nat
  BY <1>1 DEF AgeCap
<1>3. TypeOK
  <2>1. beaten \in BOOLEAN
    BY DEF Init
  <2>2. /\ 0 \in 0..AgeCap /\ 0 \in 0..(CounterMod - 1) /\ 0 \in 0..CounterMod
    BY <1>2
  <2> QED  BY <2>1, <2>2 DEF Init, TypeOK
<1>4. CountInv
  BY DEF Init, CountInv
<1> QED  BY <1>3, <1>4 DEF IInv

LEMMA MissesType ==
  ASSUME TypeOK
  PROVE  /\ Misses \in 0..(CounterMod - 1)
         /\ Misses = 0 \/ Misses = miss_count + 1
         /\ Late /\ Misses = 0 => miss_count = CounterMod - 1
         /\ ~Late => Misses = 0
         /\ miss_count \in Nat
<1>1. miss_count \in 0..(CounterMod - 1)
  BY DEF TypeOK
<1>2. CASE ~Late
  BY <1>1, <1>2 DEF Misses
<1>3. CASE Late /\ miss_count = CounterMod - 1
  BY <1>1, <1>3 DEF Misses
<1>4. CASE Late /\ miss_count # CounterMod - 1
  <2>1. miss_count + 1 \in 0..(CounterMod - 1)
    BY <1>1, <1>4
  <2>2. (miss_count + 1) % CounterMod = miss_count + 1
    BY <2>1
  <2> QED  BY <1>1, <1>4, <2>1, <2>2 DEF Misses
<1> QED  BY <1>2, <1>3, <1>4

LEMMA BeatIInv == IInv /\ (heartbeat_beat \/ heartbeat_reset) => IInv'
<1> SUFFICES ASSUME IInv, heartbeat_beat \/ heartbeat_reset PROVE IInv'
  OBVIOUS
<1>1. AgeCap' = AgeCap /\ AgeCap \in Nat
  BY AgeCapType DEF IInv, AgeCap, heartbeat_beat, heartbeat_reset, cfgVars
<1>2. total_beats' \in 0..(CounterMod - 1) /\ 0 \in 0..AgeCap
      /\ 0 \in 0..(CounterMod - 1) /\ 0 \in 0..CounterMod
  <2>1. total_beats \in Nat
    BY DEF IInv, TypeOK
  <2> QED  BY <1>1, <2>1 DEF heartbeat_beat, heartbeat_reset
<1>3. TypeOK'
  BY <1>1, <1>2 DEF IInv, TypeOK, heartbeat_beat, heartbeat_reset, cfgVars
<1> QED  BY <1>3 DEF IInv, CountInv, heartbeat_beat, heartbeat_reset

LEMMA CheckIInv == IInv /\ (CheckAlive \/ CheckDegraded \/ CheckDead) => IInv'
<1> SUFFICES ASSUME IInv, CheckAlive \/ CheckDegraded \/ CheckDead PROVE IInv'
  OBVIOUS
<1>0. TypeOK /\ CountInv
  BY DEF IInv
<1>1. /\ UNCHANGED <<cfgVars, beaten, age, total_beats>>
      /\ miss_count' = Misses /\ Seen
      /\ state' \in {"ALIVE", "DEGRADED", "DEAD"}
      /\ state' = "DEAD" => Death
  BY DEF CheckAlive, CheckDegraded, CheckDead
<1>2. AgeCap' = AgeCap /\ (Late' <=> Late)
  BY <1>1 DEF AgeCap, Late, cfgVars
<1>3. missed' \in 0..CounterMod
  BY <1>0, <1>1 DEF TypeOK, Seen
<1>4. TypeOK'
  BY <1>0, <1>1, <1>2, <1>3, MissesType DEF TypeOK, cfgVars
<1>5. missed' > 0 => Late
  BY <1>1 DEF Seen
<1>6. missed' < CounterMod => miss_count' = missed'
  BY <1>0, <1>1, MissesType DEF TypeOK, CountInv, Seen
<1>7. state' = "DEAD" => /\ missed' >= 1 /\ missed' >= miss_threshold'
                         /\ miss_count' >= 1 /\ miss_count' >= miss_threshold'
  <2> SUFFICES ASSUME state' = "DEAD" PROVE /\ missed' >= 1 /\ missed' >= miss_threshold'
                         /\ miss_count' >= 1 /\ miss_count' >= miss_threshold'
    OBVIOUS
  <2>1. Misses # 0 /\ Misses >= miss_threshold /\ Late
    BY <1>0, <1>1, MissesType DEF Death
  <2>2. miss_count' >= 1 /\ miss_count' >= miss_threshold'
    <3>1. Misses \in Nat /\ miss_count' = Misses
      BY <1>0, <1>1, MissesType
    <3>2. miss_threshold' = miss_threshold
      BY <1>1 DEF cfgVars
    <3> QED  BY <2>1, <3>1, <3>2
  <2>0. miss_threshold' = miss_threshold /\ miss_threshold \in Nat
    BY <1>0, <1>1 DEF TypeOK, cfgVars
  <2>3. CASE missed' < CounterMod
    BY <1>6, <2>2, <2>3
  <2>4. CASE missed' = CounterMod
    <3>1. miss_threshold \in 0..(CounterMod - 1)
      BY <1>0 DEF TypeOK
    <3> QED  BY <2>0, <2>2, <2>4, <3>1
  <2>5. missed' < CounterMod \/ missed' = CounterMod
    BY <1>3
  <2> QED  BY <2>2, <2>3, <2>4, <2>5
<1> QED  BY <1>2, <1>4, <1>5, <1>6, <1>7 DEF IInv, CountInv

LEMMA TickIInv == IInv /\ Tick => IInv'
<1> SUFFICES ASSUME IInv, Tick PROVE IInv'
  OBVIOUS
<1>0. TypeOK /\ CountInv /\ AgeCap \in Nat
  BY AgeCapType DEF IInv
<1>1. AgeCap' = AgeCap
  BY DEF AgeCap, Tick, cfgVars
<1>2. TypeOK'
  BY <1>0, <1>1 DEF TypeOK, Tick, cfgVars
<1>3. Late => Late'
  <2>1. /\ age \in Nat /\ interval_ms \in Nat /\ age' = age + 1
        /\ UNCHANGED <<beaten, interval_ms>>
    BY <1>0 DEF TypeOK, Tick, cfgVars
  <2> QED  BY <2>1, DivGrows DEF Late
<1> QED  BY <1>0, <1>2, <1>3 DEF IInv, CountInv, Tick, cfgVars

LEMMA NextIInv == IInv /\ [Next]_vars => IInv'
<1>1. IInv /\ UNCHANGED vars => IInv'
  BY DEF IInv, TypeOK, CountInv, AgeCap, Late, vars
<1> QED  BY <1>1, BeatIInv, CheckIInv, TickIInv
         DEF Next, heartbeat_check, CheckDeadBeats, CheckDeadResets

THEOREM Invariance == Spec => []IInv
BY InitIInv, NextIInv, PTL DEF Spec

-----------------------------------------------------------------------------
(* The properties of Heartbeat.                                            *)

\* Every variable of the monitor keeps its type.
THEOREM TypeCorrect == Spec => []TypeOK
BY Invariance, PTL DEF IInv

\* Only a client that was silent for more than the interval, and found so by
\* miss_threshold checks, is DEAD (heartbeat_check).
THEOREM DeathIsDeserved == Spec => []DeathDeserved
<1>1. IInv => DeathDeserved
  <2> SUFFICES ASSUME IInv, state = "DEAD"
               PROVE  /\ beaten => age > interval_ms * TicksPerMs
                      /\ missed >= 1 /\ missed >= miss_threshold
    BY DEF DeathDeserved
  <2>1. Late /\ missed >= 1 /\ missed >= miss_threshold
    BY DEF IInv, TypeOK, CountInv
  <2>2. interval_ms \in Nat /\ age \in Nat
    BY AgeCapType DEF IInv, TypeOK
  <2> QED  BY <2>1, <2>2, WholeMs DEF Late
<1> QED  BY <1>1, Invariance, PTL

\* Checks alone revive no dead client, but for a wrap of miss_count.
THEOREM DeadStaysDead == Spec => NoResurrection
<1>1. ASSUME IInv, [Next]_vars, state = "DEAD", state' # "DEAD"
      PROVE  missed' = 0 \/ (miss_count = CounterMod - 1 /\ miss_count' = 0)
  <2>1. TypeOK /\ CountInv
    BY <1>1 DEF IInv
  <2>2. Late /\ miss_count >= miss_threshold /\ miss_threshold \in Nat
    BY <1>1, <2>1 DEF TypeOK, CountInv
  <2>3. CASE heartbeat_beat \/ heartbeat_reset \/ CheckDeadBeats \/ CheckDeadResets
    BY <2>3 DEF heartbeat_beat, heartbeat_reset, CheckDeadBeats, CheckDeadResets
  <2>4. CASE CheckAlive
    BY <2>1, <2>2, <2>4, MissesType DEF CheckAlive
  <2>5. CASE CheckDegraded
    BY <2>1, <2>2, <2>5, MissesType DEF CheckDegraded
  <2>6. CASE CheckDead \/ Tick \/ UNCHANGED vars
    BY <1>1, <2>6 DEF CheckDead, Tick, vars
  <2> QED  BY <1>1, <2>3, <2>4, <2>5, <2>6 DEF Next, heartbeat_check
<1> QED  BY <1>1, Invariance, PTL DEF Spec, NoResurrection
=============================================================================
