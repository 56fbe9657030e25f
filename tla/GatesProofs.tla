---------------------------- MODULE GatesProofs ----------------------------
(***************************************************************************)
(* Proofs about the gates and the delays between retries: of each for      *)
(* itself, and of the five together, as MCGates composes them.  The        *)
(* invariants are about the histories, which the gates themselves forget:  *)
(* the proofs relate the few words that a gate keeps to what happened.     *)
(***************************************************************************)
EXTENDS MCGates, SequenceTheorems, FiniteSetTheorems, TLAPS

-----------------------------------------------------------------------------
(* Arithmetic of clocks and counters that come round.                      *)

\* Division with a remainder.
LEMMA DivMod ==
  ASSUME NEW a \in Int, NEW m \in Nat \ {0}
  PROVE  a % m \in 0..(m - 1) /\ a \div m \in Int /\ a = m * (a \div m) + (a % m)
OBVIOUS

\* There is only one.
LEMMA ModUnique ==
  ASSUME NEW m \in Nat \ {0}, NEW q \in Int, NEW r \in 0..(m - 1)
  PROVE  (m * q + r) % m = r /\ (m * q + r) \div m = q
OBVIOUS

\* A number below the modulus stays.
LEMMA ModSmall ==
  ASSUME NEW m \in Nat \ {0}, NEW a \in 0..(m - 1)
  PROVE  a % m = a
OBVIOUS

\* A number that went round once loses the modulus.
LEMMA ModOnce ==
  ASSUME NEW m \in Nat \ {0}, NEW a \in m..(2 * m - 1)
  PROVE  a % m = a - m
OBVIOUS

\* A remainder is no greater than the number.
LEMMA ModAtMost ==
  ASSUME NEW m \in Nat \ {0}, NEW a \in Nat
  PROVE  a % m <= a
<1>1. a % m \in Int /\ a \div m \in Int /\ a = m * (a \div m) + (a % m) /\ a % m < m
      /\ a % m >= 0
  BY DivMod
<1> DEFINE q == a \div m
           r == a % m
<1>2. r \in Int /\ q \in Int /\ a = m * q + r /\ r < m
  BY <1>1
<1> HIDE DEF q, r
<1>3. q >= 0
  <2> SUFFICES ASSUME q <= -1 PROVE FALSE
    BY <1>2
  <2> DEFINE p == (-q) - 1
  <2>1. p \in Nat /\ q = (-p) - 1
    BY <1>2
  <2>2. m * p >= 0
    BY <2>1
  <2>3. m * q = (-(m * p)) - m
    BY <1>2, <2>1
  <2> QED  BY <1>2, <2>1, <2>2, <2>3
<1>4. m * q >= 0
  BY <1>2, <1>3
<1>5. r <= a
  BY <1>2, <1>4
<1> QED  BY <1>5 DEF r

\* It does not matter for a difference when its second term came round.
LEMMA ModDifference ==
  ASSUME NEW m \in Nat \ {0}, NEW a \in Int, NEW b \in Int
  PROVE  (a - (b % m)) % m = (a - b) % m
<1> DEFINE q == b \div m
           r == b % m
           p == (a - r) \div m
           s == (a - r) % m
<1>1. q \in Int /\ r \in 0..(m - 1) /\ b = m * q + r
  BY DivMod
<1>2. p \in Int /\ s \in 0..(m - 1) /\ a - r = m * p + s
  BY <1>1, DivMod
<1> HIDE DEF p, q, r, s
<1>3. a - b = m * (p - q) + s /\ p - q \in Int
  BY <1>1, <1>2
<1>4. (a - b) % m = s
  BY <1>2, <1>3, ModUnique
<1> QED  BY <1>4 DEF s, r

\* Times of one round compare as what the clock shows of them does.
LEMMA SameRound ==
  ASSUME NEW m \in Nat \ {0}, NEW a \in Int, NEW b \in Int, a \div m = b \div m
  PROVE  a % m < b % m <=> a < b
<1> DEFINE q == a \div m
           r == a % m
           s == b % m
           p == b \div m
<1>1. /\ q \in Int /\ a = m * q + r /\ r \in Int
      /\ b = m * p + s /\ s \in Int
  BY DivMod
<1>2. p = q
  OBVIOUS
<1> HIDE DEF p, q, r, s
<1>3. r < s <=> a < b
  BY <1>1, <1>2
<1> QED  BY <1>3 DEF r, s

-----------------------------------------------------------------------------
(* The throttle.                                                           *)

\* Types are kept: the last allowed event is never in the future.
LEMMA ThrottleTypes == T!TypeOK /\ [T!Next]_(T!vars) => T!TypeOK'
<1> SUFFICES ASSUME T!TypeOK, [T!Next]_(T!vars) PROVE T!TypeOK'
  OBVIOUS
<1> USE DurationsAssumption DEF T!TypeOK
<1>1. CASE T!throttle_set_enabled
  BY <1>1 DEF T!throttle_set_enabled
<1>2. CASE T!AllowDisabled
  BY <1>2 DEF T!AllowDisabled
<1>3. CASE T!Allow
  BY <1>3 DEF T!Allow
<1>4. CASE T!Suppress
  BY <1>4 DEF T!Suppress
<1>5. CASE T!throttle_reset
  BY <1>5 DEF T!throttle_reset
<1>6. CASE T!Tick
  BY <1>6 DEF T!Tick, T!TimePasses
<1>7. CASE UNCHANGED T!vars
  BY <1>7 DEF T!vars
<1> QED
  BY <1>1, <1>2, <1>3, <1>4, <1>5, <1>6, <1>7 DEF T!Next, T!throttle_allow

\* Type correctness of the throttle.
THEOREM ThrottleTypeCorrect == T!Spec => []T!TypeOK
<1>1. T!Init => T!TypeOK
  BY DEF T!Init, T!throttle_init, T!TypeOK
<1> QED  BY <1>1, ThrottleTypes, PTL DEF T!Spec

-----------------------------------------------------------------------------
\* The gate lets an event pass exactly when the throttle finds it due: an
\* event was allowed at time 0 by no throttle.
LEMMA DueIsFar == ASSUME T!TypeOK PROVE T!Due <=> T!Gate!Far
BY NeverAssumption DEF T!TypeOK, T!Due, T!Gate!Far

\* No event was allowed yet.
LEMMA ThrottleInitRefines == T!Init => T!Gate!Init
BY DEF T!Init, T!throttle_init, T!Gate!Init

\* Every step of the throttle is one of the gate's, or none.
LEMMA ThrottleRefines == T!TypeOK /\ [T!Next]_(T!vars) => [T!Gate!Next]_(T!Gate!gateVars)
<1> SUFFICES ASSUME T!TypeOK, [T!Next]_(T!vars) PROVE [T!Gate!Next]_(T!Gate!gateVars)
  OBVIOUS
<1> USE DurationsAssumption, NeverAssumption DEF T!TypeOK
<1>1. CASE T!throttle_set_enabled
  <2>1. T!Gate!Switch
    BY <1>1 DEF T!throttle_set_enabled, T!Gate!Switch
  <2> QED  BY <2>1 DEF T!Gate!Next
<1>2. CASE T!AllowDisabled
  <2>1. T!Gate!Bypass
    BY <1>2 DEF T!AllowDisabled, T!Gate!Bypass
  <2> QED  BY <2>1 DEF T!Gate!Next
<1>3. CASE T!Allow
  <2>1. T!Gate!Pass
    BY <1>3, DueIsFar DEF T!Allow, T!Gate!Pass
  <2> QED  BY <2>1 DEF T!Gate!Next
<1>4. CASE T!Suppress
  <2>1. T!Gate!Block
    BY <1>4, DueIsFar DEF T!Suppress, T!Gate!Block
  <2> QED  BY <2>1 DEF T!Gate!Next
<1>5. CASE T!throttle_reset
  <2>1. T!Gate!Reset
    BY <1>5 DEF T!throttle_reset, T!Gate!Reset
  <2> QED  BY <2>1 DEF T!Gate!Next
<1>6. CASE T!Tick
  <2>1. T!Gate!Tick
    BY <1>6 DEF T!Tick, T!TimePasses, T!Gate!Tick
  <2> QED  BY <2>1 DEF T!Gate!Next
<1>7. CASE UNCHANGED T!vars
  BY <1>7 DEF T!vars, T!Gate!gateVars
<1> QED
  BY <1>1, <1>2, <1>3, <1>4, <1>5, <1>6, <1>7 DEF T!Next, T!throttle_allow

\* For every interval the throttle is a rate limiter: while it is enabled,
\* allowed events are at least interval_ms apart, across switching off and on,
\* and no event that far from the last is suppressed (T!throttle_allow).
THEOREM ThrottleIsRateGate == T!Spec => T!ImplementsRateGate
<1>1. T!Spec => []T!TypeOK
  BY ThrottleTypeCorrect
<1> QED
  BY <1>1, ThrottleInitRefines, ThrottleRefines, PTL DEF T!Spec, T!ImplementsRateGate, T!Gate!Spec
-----------------------------------------------------------------------------
\* Types are kept: the last trigger is never in the future.
LEMMA CooldownTypes == C!TypeOK /\ [C!Next]_(C!vars) => C!TypeOK'
<1> SUFFICES ASSUME C!TypeOK, [C!Next]_(C!vars) PROVE C!TypeOK'
  OBVIOUS
<1> USE DurationsAssumption DEF C!TypeOK
<1>1. CASE C!cooldown_reset
  <2>1. active' \in BOOLEAN
    BY <1>1, Zenon DEF C!cooldown_reset
  <2> QED  BY <1>1, <2>1 DEF C!cooldown_reset
<1>2. CASE C!Refuse
  BY <1>2 DEF C!Refuse
<1>3. CASE C!LetThrough
  BY <1>3 DEF C!LetThrough
<1>4. CASE C!Tick
  BY <1>4 DEF C!Tick, C!TimePasses
<1>5. CASE UNCHANGED C!vars
  BY <1>5 DEF C!vars
<1> QED
  BY <1>1, <1>2, <1>3, <1>4, <1>5 DEF C!Next, C!cooldown_trigger

\* The cooldown starts cold.
LEMMA CooldownInitTypes == ASSUME now \in Nat, C!cooldown_init PROVE C!TypeOK
<1>1. active \in BOOLEAN
  BY Zenon DEF C!cooldown_init
<1> QED  BY <1>1 DEF C!cooldown_init, C!TypeOK

\* Type correctness of the cooldown.
THEOREM CooldownTypeCorrect == C!Spec => []C!TypeOK
<1>1. C!Init => C!TypeOK
  BY CooldownInitTypes DEF C!Init
<1> QED  BY <1>1, CooldownTypes, PTL DEF C!Spec

\* C!cooldown_ready and C!cooldown_remaining_ms foretell, at any time and for any
\* period, whether a trigger is let through and how long it will not be.
LEMMA QuestionsFollowTypes == ASSUME C!TypeOK PROVE C!ReadyForetells
<1> USE DurationsAssumption, MaxTimeAssumption DEF C!TypeOK
<1>1. C!cooldown_ready <=> ~C!Hot
  BY DEF C!cooldown_ready, C!Hot
<1>2. ASSUME NEW d \in 0..MaxTime
      PROVE  (active /\ now + d - last_trigger_ms < period_ms)
               <=> d < C!cooldown_remaining_ms
  <2>1. /\ d \in Nat /\ now \in Nat /\ period_ms \in Nat
        /\ last_trigger_ms \in Nat
    BY <1>2
  <2>2. CASE ~active
    BY <2>1, <2>2 DEF C!cooldown_remaining_ms
  <2>3. CASE active /\ now - last_trigger_ms >= period_ms
    BY <2>1, <2>3 DEF C!cooldown_remaining_ms
  <2>4. CASE active /\ ~(now - last_trigger_ms >= period_ms)
    BY <2>1, <2>4 DEF C!cooldown_remaining_ms
  <2> QED  BY <2>2, <2>3, <2>4
<1> QED  BY <1>1, <1>2 DEF C!ReadyForetells

\* The cooldown's questions are answered truly (cooldown_ready,
\* cooldown_remaining_ms).
THEOREM QuestionsForetell == C!Spec => []C!ReadyForetells
BY QuestionsFollowTypes, CooldownTypeCorrect, PTL

-----------------------------------------------------------------------------
\* The gate lets a trigger pass exactly when the cooldown is not hot, also
\* when the last one was let through at time 0.
LEMMA HotIsNear == ASSUME C!TypeOK PROVE C!Hot <=> ~C!Gate!Far
BY DurationsAssumption, NeverAssumption DEF C!TypeOK, C!Hot, C!Gate!Far

\* No trigger was let through yet.
LEMMA CooldownInitRefines == C!Init => C!Gate!Init
BY DEF C!Init, C!cooldown_init, C!Gate!Init

\* Every step of the cooldown is one of the gate's, or none.
LEMMA CooldownRefines == C!TypeOK /\ [C!Next]_(C!vars) => [C!Gate!Next]_(C!Gate!gateVars)
<1> SUFFICES ASSUME C!TypeOK, [C!Next]_(C!vars) PROVE [C!Gate!Next]_(C!Gate!gateVars)
  OBVIOUS
<1> USE DurationsAssumption, NeverAssumption DEF C!TypeOK
<1>1. CASE C!cooldown_reset
  <2>1. C!Gate!Reset
    BY <1>1 DEF C!cooldown_reset, C!Gate!Reset
  <2> QED  BY <2>1 DEF C!Gate!Next
<1>2. CASE C!Refuse
  <2>1. C!Gate!Block
    BY <1>2, HotIsNear DEF C!Refuse, C!Gate!Block
  <2> QED  BY <2>1 DEF C!Gate!Next
<1>3. CASE C!LetThrough
  <2>1. C!Gate!Pass
    BY <1>3, HotIsNear DEF C!LetThrough, C!Gate!Pass
  <2> QED  BY <2>1 DEF C!Gate!Next
<1>4. CASE C!Tick
  <2>1. C!Gate!Tick
    BY <1>4 DEF C!Tick, C!TimePasses, C!Gate!Tick
  <2> QED  BY <2>1 DEF C!Gate!Next
<1>5. CASE UNCHANGED C!vars
  BY <1>5 DEF C!vars, C!Gate!gateVars
<1> QED
  BY <1>1, <1>2, <1>3, <1>4, <1>5 DEF C!Next, C!cooldown_trigger

\* For every period the cooldown is a rate limiter: triggers are let through
\* at least period_ms apart, also from time 0 on, and none is refused without
\* need (C!cooldown_trigger).
THEOREM CooldownIsRateGate == C!Spec => C!ImplementsRateGate
<1>1. C!Spec => []C!TypeOK
  BY CooldownTypeCorrect
<1> QED
  BY <1>1, CooldownInitRefines, CooldownRefines, PTL DEF C!Spec, C!ImplementsRateGate, C!Gate!Spec

-----------------------------------------------------------------------------
(* The debouncer.                                                          *)

\* Where the signals of the present window begin.
WindowStart == Len(signals) + 1 - signal_count

\* A window began at signal s: it is the present one or over by the time the
\* present one began, and the signals that came within it, from the Needed-th
\* on, were accepted.
WindowFrom(s) ==
  /\ s = WindowStart \/ signals[WindowStart].at - signals[s].at > quiet_ms
  /\ \A j \in (s + D!Needed - 1)..Len(signals) :
       signals[j].at - signals[s].at <= quiet_ms => signals[j].accepted

\* The count and the time of the first signal are those of the last signals in
\* the history, and a refused signal is one of the first of a window.
DebounceInv ==
  /\ D!TypeOK
  /\ signal_count <= Len(signals) /\ (signal_count = 0 => Len(signals) = 0)
  /\ signal_count > 0 => /\ signals[WindowStart].at = first_seen_ms
                         /\ signals[Len(signals)].at - first_seen_ms <= quiet_ms
  /\ \A i, j \in 1..Len(signals) : i <= j => signals[i].at <= signals[j].at
  /\ settled <=> signal_count >= D!Needed
  /\ \A i \in 1..Len(signals) :
       signals[i].accepted \/ \E s \in 1..i : s > i - D!Needed + 1 /\ WindowFrom(s)

\* What a signal adds to the history.
LEMMA HeardAppends ==
  ASSUME D!TypeOK, NEW a \in BOOLEAN, D!Heard(a)
  PROVE  /\ Len(signals) \in Nat /\ Len(signals') = Len(signals) + 1
         /\ \A i \in 1..Len(signals) : signals'[i] = signals[i]
         /\ signals'[Len(signals) + 1].at = now
         /\ signals'[Len(signals) + 1].accepted = a
         /\ signals' \in Seq([at : 0..now', accepted : BOOLEAN])
         /\ UNCHANGED <<now, quiet_ms, min_count>>
<1> DEFINE Heard == [at : 0..now, accepted : BOOLEAN]
           e == [at |-> now, accepted |-> a]
<1>1. signals \in Seq(Heard) /\ e \in Heard /\ signals' = Append(signals, e)
  BY DEF D!TypeOK, D!Heard
<1>2. e.at = now /\ e.accepted = a
  OBVIOUS
<1> HIDE DEF Heard, e
<1>3. Len(signals) \in Nat
  BY <1>1, LenProperties
<1>4. /\ signals' \in Seq(Heard) /\ Len(signals') = Len(signals) + 1
      /\ \A i \in 1..Len(signals) : signals'[i] = signals[i]
      /\ signals'[Len(signals) + 1] = e
  BY <1>1, <1>3, AppendProperties
<1>5. now' = now /\ UNCHANGED <<quiet_ms, min_count>>
  BY DEF D!Heard
<1>6. signals' \in Seq([at : 0..now', accepted : BOOLEAN])
  BY <1>4, <1>5, Zenon DEF Heard
<1> QED  BY <1>2, <1>3, <1>4, <1>5, <1>6

\* The history as a function of the positions in it.
LEMMA SignalTypes ==
  ASSUME D!TypeOK
  PROVE  /\ Len(signals) \in Nat /\ DOMAIN signals = 1..Len(signals)
         /\ \A i \in 1..Len(signals) : /\ signals[i].at \in 0..now
                                       /\ signals[i].accepted \in BOOLEAN
<1> DEFINE Heard == [at : 0..now, accepted : BOOLEAN]
<1>1. signals \in Seq(Heard)
  BY DEF D!TypeOK
<1>2. \A r \in Heard : r.at \in 0..now /\ r.accepted \in BOOLEAN
  OBVIOUS
<1> HIDE DEF Heard
<1>3. \A i \in 1..Len(signals) : signals[i] \in Heard
  BY <1>1, ElementOfSeq
<1> QED  BY <1>1, <1>2, <1>3, LenProperties

\* Types are kept: windows begin in the past, and so were all signals.
LEMMA DebounceTypes == D!TypeOK /\ [D!Next]_(D!vars) => D!TypeOK'
<1> SUFFICES ASSUME D!TypeOK, [D!Next]_(D!vars) PROVE D!TypeOK'
  OBVIOUS
<1> USE DurationsAssumption
<1>1. CASE D!debounce_reset
  <2>1. settled' = FALSE /\ first_seen_ms' = 0 /\ signal_count' = 0 /\ signals' = <<>>
    BY <1>1, Zenon DEF D!debounce_reset
  <2>2. signals' \in Seq([at : 0..now', accepted : BOOLEAN])
    BY <2>1, EmptySeq, Zenon
  <2>3. /\ now' \in Nat /\ quiet_ms' \in Durations /\ min_count' \in Nat \ {0}
        /\ first_seen_ms' \in 0..now' /\ signal_count' \in Nat
    BY <1>1, <2>1 DEF D!debounce_reset, D!TypeOK
  <2> QED  BY <2>1, <2>2, <2>3, Zenon DEF D!TypeOK
<1>2. CASE D!StartWindow
  <2>1. /\ signals' \in Seq([at : 0..now', accepted : BOOLEAN])
        /\ UNCHANGED <<now, quiet_ms, min_count>>
    BY <1>2, HeardAppends DEF D!StartWindow
  <2>2. settled' = FALSE /\ first_seen_ms' = now /\ signal_count' = 1
    BY <1>2, Zenon DEF D!StartWindow
  <2>3. /\ now' \in Nat /\ quiet_ms' \in Durations /\ min_count' \in Nat \ {0}
        /\ first_seen_ms' \in 0..now' /\ signal_count' \in Nat
    BY <2>1, <2>2 DEF D!TypeOK
  <2> QED  BY <2>1, <2>2, <2>3, Zenon DEF D!TypeOK
<1>3. CASE D!CountSignal
  <2>1. settled' \in BOOLEAN
    BY <1>3, Zenon DEF D!CountSignal
  <2>2. /\ signals' \in Seq([at : 0..now', accepted : BOOLEAN])
        /\ UNCHANGED <<now, quiet_ms, min_count>>
    BY <1>3, <2>1, HeardAppends DEF D!CountSignal
  <2>3. first_seen_ms' = first_seen_ms /\ signal_count' = signal_count + 1
    BY <1>3 DEF D!CountSignal
  <2>4. /\ now' \in Nat /\ quiet_ms' \in Durations /\ min_count' \in Nat \ {0}
        /\ first_seen_ms' \in 0..now' /\ signal_count' \in Nat
    BY <2>2, <2>3 DEF D!TypeOK
  <2> QED  BY <2>1, <2>2, <2>4, Zenon DEF D!TypeOK
<1>4. CASE D!Tick
  <2> DEFINE Heard == [at : 0..now, accepted : BOOLEAN]
             Later == [at : 0..(now + 1), accepted : BOOLEAN]
  <2>1. now \in Nat /\ Heard \subseteq Later
    BY DEF D!TypeOK
  <2>2. signals \in Seq(Heard)
    BY DEF D!TypeOK
  <2> HIDE DEF Heard, Later
  <2>3. signals \in Seq(Later)
    BY <2>1, <2>2, SeqMonotonic
  <2>4. /\ now' = now + 1
        /\ UNCHANGED <<quiet_ms, min_count, settled, first_seen_ms, signal_count, signals>>
    BY <1>4 DEF D!Tick, D!TimePasses
  <2> QED  BY <2>1, <2>3, <2>4 DEF D!TypeOK, Later
<1>5. CASE UNCHANGED D!vars
  BY <1>5 DEF D!vars, D!TypeOK
<1> QED
  BY <1>1, <1>2, <1>3, <1>4, <1>5 DEF D!Next, D!debounce_update

\* Every step of the debouncer keeps the invariant.
LEMMA DebounceInvStep == DebounceInv /\ [D!Next]_(D!vars) => DebounceInv'
<1> SUFFICES ASSUME DebounceInv, [D!Next]_(D!vars) PROVE DebounceInv'
  OBVIOUS
<1> DEFINE N == D!Needed
           L == Len(signals)
<1>1. D!TypeOK'
  BY DebounceTypes DEF DebounceInv
<1>2. /\ now \in Nat /\ quiet_ms \in Nat /\ signal_count \in Nat /\ first_seen_ms \in Nat
      /\ min_count \in Nat /\ settled \in BOOLEAN /\ N \in Nat /\ N >= 2
  BY DurationsAssumption DEF DebounceInv, D!TypeOK, D!Needed
<1>3. /\ L \in Nat
      /\ \A i \in 1..L : /\ signals[i].at \in 0..now
                         /\ signals[i].accepted \in BOOLEAN
  BY SignalTypes DEF DebounceInv
<1>4. CASE D!debounce_reset
  <2>1. signal_count' = 0 /\ signals' = <<>> /\ settled' = FALSE /\ UNCHANGED min_count
    BY <1>4, Zenon DEF D!debounce_reset
  <2>2. Len(signals') = 0
    BY <2>1, EmptySeq
  <2>3. N' = N
    BY <2>1 DEF D!Needed
  <2> QED  BY <1>1, <1>2, <2>1, <2>2, <2>3 DEF DebounceInv
<1>5. CASE D!StartWindow
  <2>1. /\ Len(signals') = L + 1
        /\ \A i \in 1..L : signals'[i] = signals[i]
        /\ signals'[L + 1].at = now /\ signals'[L + 1].accepted = FALSE
        /\ UNCHANGED <<now, quiet_ms, min_count>>
    BY <1>5, HeardAppends DEF D!StartWindow, DebounceInv
  <2>2. first_seen_ms' = now /\ signal_count' = 1 /\ settled' = FALSE
    BY <1>5, Zenon DEF D!StartWindow
  <2>3. N' = N /\ WindowStart' = L + 1
    BY <1>3, <2>1, <2>2 DEF D!Needed, WindowStart
  <2>4. ASSUME NEW s \in 1..L, WindowFrom(s) PROVE WindowFrom(s)'
    <3>1. /\ signal_count > 0 /\ WindowStart \in 1..L
          /\ signals[WindowStart].at = first_seen_ms
      BY <1>2, <1>3 DEF DebounceInv, WindowStart
    <3>2. now - first_seen_ms > quiet_ms
      BY <1>5, <3>1 DEF D!StartWindow, D!Expired
    <3>3. now - signals[s].at > quiet_ms
      BY <1>2, <1>3, <2>4, <3>1, <3>2 DEF WindowFrom
    <3>4. signals'[s] = signals[s] /\ signals'[WindowStart'].at = now
      BY <2>1, <2>3
    <3>5. ASSUME NEW j \in (s + N - 1)..(L + 1), signals'[j].at - signals[s].at <= quiet_ms
          PROVE  signals'[j].accepted
      <4>1. j # L + 1
        BY <1>2, <1>3, <2>1, <2>4, <3>3, <3>5
      <4>2. j \in (s + N - 1)..L /\ j \in 1..L
        BY <1>2, <1>3, <4>1
      <4> QED  BY <2>1, <2>4, <3>5, <4>2 DEF WindowFrom
    <3> QED  BY <2>1, <2>3, <3>3, <3>4, <3>5 DEF WindowFrom
  <2>5. ASSUME NEW s, s = L + 1 PROVE WindowFrom(s)'
    <3>1. (s + N - 1)..(L + 1) = {}
      BY <1>2, <1>3, <2>5
    <3> QED  BY <2>1, <2>3, <2>5, <3>1 DEF WindowFrom
  <2>6. ASSUME NEW i \in 1..(L + 1)
        PROVE  signals'[i].accepted \/ \E s \in 1..i : s > i - N + 1 /\ WindowFrom(s)'
    <3>1. CASE i = L + 1
      BY <1>2, <1>3, <2>5, <3>1
    <3>2. CASE i # L + 1
      <4>1. i \in 1..L
        BY <1>3, <3>2
      <4>2. signals[i].accepted \/ \E s \in 1..i : s > i - N + 1 /\ WindowFrom(s)
        BY <4>1 DEF DebounceInv
      <4>3. \A s \in 1..i : s \in 1..L
        BY <1>3, <4>1
      <4> QED  BY <2>1, <2>4, <4>1, <4>2, <4>3
    <3> QED  BY <3>1, <3>2
  <2>7. ASSUME NEW i \in 1..(L + 1), NEW j \in 1..(L + 1), i <= j
        PROVE  signals'[i].at <= signals'[j].at
    <3>1. CASE j = L + 1
      <4>1. signals'[i].at \in 0..now
        BY <1>2, <1>3, <2>1
      <4> QED  BY <1>2, <2>1, <3>1, <4>1
    <3>2. CASE j # L + 1
      <4>1. i \in 1..L /\ j \in 1..L
        BY <1>3, <2>7, <3>2
      <4> QED  BY <2>7, <2>1, <4>1 DEF DebounceInv
    <3> QED  BY <3>1, <3>2
  <2> QED  BY <1>1, <1>2, <1>3, <2>1, <2>2, <2>3, <2>6, <2>7 DEF DebounceInv
<1>6. CASE D!CountSignal
  <2>1. settled' \in BOOLEAN /\ D!Heard(settled')
    BY <1>6, Zenon DEF D!CountSignal
  <2>2. /\ Len(signals') = L + 1
        /\ \A i \in 1..L : signals'[i] = signals[i]
        /\ signals'[L + 1].at = now /\ signals'[L + 1].accepted = settled'
        /\ UNCHANGED <<now, quiet_ms, min_count>>
    BY <2>1, HeardAppends DEF DebounceInv
  <2>3. /\ signal_count > 0 /\ now - first_seen_ms <= quiet_ms
        /\ first_seen_ms' = first_seen_ms /\ signal_count' = signal_count + 1
    BY <1>2, <1>6 DEF D!CountSignal, D!Expired
  <2>4. N' = N /\ WindowStart' = WindowStart /\ WindowStart \in 1..L
    BY <1>2, <1>3, <2>2, <2>3 DEF D!Needed, WindowStart, DebounceInv
  <2>5. settled' <=> signal_count + 1 >= N
    <3>1. settled' <=> settled \/ signal_count + 1 >= min_count
      BY <1>6, <2>3 DEF D!CountSignal
    <3>2. settled <=> signal_count >= N
      BY DEF DebounceInv
    <3>3. signal_count + 1 >= min_count <=> signal_count + 1 >= N
      BY <1>2, <2>3 DEF D!Needed
    <3>4. signal_count >= N => signal_count + 1 >= N
      BY <1>2
    <3> QED  BY <3>1, <3>2, <3>3, <3>4
  <2>6. ASSUME NEW s \in 1..L, WindowFrom(s) PROVE WindowFrom(s)'
    <3>1. signals'[s] = signals[s] /\ signals'[WindowStart] = signals[WindowStart]
      BY <2>2, <2>4
    <3>2. ASSUME NEW j \in (s + N - 1)..(L + 1), signals'[j].at - signals[s].at <= quiet_ms
          PROVE  signals'[j].accepted
      <4>1. CASE j = L + 1
        <5>1. s = WindowStart
          <6>1. s = WindowStart \/ signals[WindowStart].at - signals[s].at > quiet_ms
            BY <2>6 DEF WindowFrom
          <6>2. signals[WindowStart].at = first_seen_ms
            BY <2>3 DEF DebounceInv
          <6>3. now - signals[s].at <= quiet_ms
            BY <2>2, <3>2, <4>1
          <6>4. signals[s].at \in 0..now
            BY <1>3, <2>6
          <6>5. first_seen_ms <= now
            BY <1>3, <2>4, <6>2
          <6> QED  BY <1>2, <6>1, <6>2, <6>3, <6>4, <6>5
        <5>2. signal_count + 1 >= N
          BY <1>2, <1>3, <2>4, <4>1, <5>1 DEF WindowStart
        <5> QED  BY <2>2, <2>5, <4>1, <5>2
      <4>2. CASE j # L + 1
        <5>1. j \in (s + N - 1)..L /\ j \in 1..L
          <6>1. N \in Nat /\ N >= 2 /\ L \in Nat
            BY <1>2, <1>3
          <6> HIDE DEF N, L
          <6> QED  BY <4>2, <6>1
        <5> QED  BY <2>2, <2>6, <3>2, <5>1 DEF WindowFrom
      <4> QED  BY <4>1, <4>2
    <3> QED  BY <2>2, <2>4, <2>6, <3>1, <3>2 DEF WindowFrom
  <2>7. ASSUME NEW s, s = WindowStart, ~(signal_count + 1 >= N) PROVE WindowFrom(s)'
    <3>1. (s + N - 1)..(L + 1) = {}
      BY <1>2, <1>3, <2>4, <2>7 DEF WindowStart
    <3> QED  BY <2>2, <2>4, <2>7, <3>1 DEF WindowFrom
  <2>8. ASSUME NEW i \in 1..(L + 1)
        PROVE  signals'[i].accepted \/ \E s \in 1..i : s > i - N + 1 /\ WindowFrom(s)'
    <3>1. CASE i = L + 1
      <4>1. CASE signal_count + 1 >= N
        BY <2>2, <2>5, <3>1, <4>1
      <4>2. CASE ~(signal_count + 1 >= N)
        <5>1. WindowStart \in 1..i /\ WindowStart > i - N + 1
          BY <1>2, <1>3, <2>4, <3>1, <4>2 DEF WindowStart
        <5>2. PICK s \in 1..i : s = WindowStart
          BY <5>1
        <5> QED  BY <2>7, <4>2, <5>1, <5>2
      <4> QED  BY <4>1, <4>2
    <3>2. CASE i # L + 1
      <4>1. i \in 1..L
        BY <1>3, <3>2
      <4>2. signals[i].accepted \/ \E s \in 1..i : s > i - N + 1 /\ WindowFrom(s)
        BY <4>1 DEF DebounceInv
      <4>3. \A s \in 1..i : s \in 1..L
        BY <1>3, <4>1
      <4> QED  BY <2>2, <2>6, <4>1, <4>2, <4>3
    <3> QED  BY <3>1, <3>2
  <2>9. ASSUME NEW i \in 1..(L + 1), NEW j \in 1..(L + 1), i <= j
        PROVE  signals'[i].at <= signals'[j].at
    <3>1. CASE j = L + 1
      <4>1. signals'[i].at \in 0..now
        BY <1>2, <1>3, <2>2
      <4> QED  BY <1>2, <2>2, <3>1, <4>1
    <3>2. CASE j # L + 1
      <4>1. i \in 1..L /\ j \in 1..L
        BY <1>3, <2>9, <3>2
      <4> QED  BY <2>9, <2>2, <4>1 DEF DebounceInv
    <3> QED  BY <3>1, <3>2
  <2> QED  BY <1>1, <1>2, <1>3, <2>2, <2>3, <2>4, <2>5, <2>8, <2>9 DEF DebounceInv
<1>7. CASE D!Tick
  BY <1>1, <1>7 DEF D!Tick, DebounceInv, D!Needed, WindowFrom, WindowStart
<1>8. CASE UNCHANGED D!vars
  BY <1>8 DEF D!vars, DebounceInv, D!TypeOK, D!Needed, WindowFrom, WindowStart
<1> QED
  BY <1>4, <1>5, <1>6, <1>7, <1>8 DEF D!Next, D!debounce_update

\* From the invariant: an accepted burst ends the present window, and of
\* signals that are accepted nowhere in a long burst, the one in its middle
\* belongs to a window that began in the burst and had time for an acceptance.
LEMMA DebounceInvSuffices == DebounceInv => D!AcceptedMeansBurst /\ D!BurstIsAccepted
<1> SUFFICES ASSUME DebounceInv PROVE D!AcceptedMeansBurst /\ D!BurstIsAccepted
  OBVIOUS
<1> DEFINE N == D!Needed
           L == Len(signals)
<1>1. /\ quiet_ms \in Nat /\ signal_count \in Nat /\ first_seen_ms \in Nat
      /\ N \in Nat /\ N >= 2
  BY DurationsAssumption DEF DebounceInv, D!TypeOK, D!Needed
<1>2. L \in Nat /\ \A i \in 1..L : signals[i].at \in Nat
  BY SignalTypes DEF DebounceInv, D!TypeOK
<1>3. \A i, j \in 1..L : i <= j => signals[i].at <= signals[j].at
  BY DEF DebounceInv
<1> HIDE DEF N
<1>4. ASSUME settled PROVE D!Burst(N)
  <2>1. /\ signal_count >= N /\ signal_count <= L
        /\ signals[WindowStart].at = first_seen_ms
        /\ signals[L].at - first_seen_ms <= quiet_ms
    BY <1>1, <1>4 DEF DebounceInv, N
  <2>2. WindowStart \in 1..L /\ L + 1 - N \in 1..L /\ WindowStart <= L + 1 - N /\ L \in 1..L
    BY <1>1, <1>2, <2>1 DEF WindowStart
  <2>3. signals[WindowStart].at <= signals[L + 1 - N].at
    BY <1>3, <2>2
  <2>4. signals[L].at - signals[L + 1 - N].at <= quiet_ms
    <3>1. signals[L].at \in Nat /\ signals[L + 1 - N].at \in Nat
      BY <1>2, <2>2
    <3> DEFINE a == signals[L].at
               b == signals[L + 1 - N].at
               c == signals[WindowStart].at
    <3>2. c = first_seen_ms /\ a - first_seen_ms <= quiet_ms /\ c <= b /\ a \in Nat /\ b \in Nat
      BY <2>1, <2>3, <3>1
    <3> HIDE DEF a, b, c
    <3>3. a - b <= quiet_ms
      BY <1>1, <3>2
    <3> QED  BY <3>3 DEF a, b
  <2> QED  BY <1>1, <1>2, <2>1, <2>4 DEF D!Burst
<1>5. ASSUME D!Burst(2 * N - 1)
      PROVE  \E i \in (L - 2 * N + 2)..L : signals[i].accepted
  <2>1. /\ L >= 2 * N - 1
        /\ signals[L].at - signals[L + 1 - (2 * N - 1)].at <= quiet_ms
    BY <1>1, <1>2, <1>5 DEF D!Burst
  <2> DEFINE first  == L - 2 * N + 2
             middle == L - N + 1
  <2>2. L + 1 - (2 * N - 1) = first
    BY <1>1, <1>2
  <2>3. first \in 1..L /\ middle \in first..L /\ middle \in 1..L /\ L \in 1..L
    BY <1>1, <1>2, <2>1
  <2>4. CASE signals[middle].accepted
    BY <2>3, <2>4
  <2>5. CASE ~signals[middle].accepted
    <3>1. PICK s \in 1..middle : s > middle - N + 1 /\ WindowFrom(s)
      BY <2>3, <2>5 DEF DebounceInv, N
    <3>2. /\ s \in 1..L /\ first <= s
          /\ s + N - 1 \in first..L /\ s + N - 1 \in 1..L
      BY <1>1, <1>2, <2>3, <3>1, SMTT(30)
    <3>3. signals[s + N - 1].at <= signals[L].at /\ signals[first].at <= signals[s].at
      <4>1. s + N - 1 <= L /\ L \in 1..L /\ first \in 1..L
        BY <2>3, <3>2
      <4>2. signals[s + N - 1].at <= signals[L].at
        BY <1>3, <3>2, <4>1
      <4>3. signals[first].at <= signals[s].at
        BY <1>3, <3>2, <4>1
      <4> QED  BY <4>2, <4>3
    <3>4. signals[s + N - 1].at - signals[s].at <= quiet_ms
      <4>1. /\ signals[L].at \in Nat /\ signals[first].at \in Nat
            /\ signals[s].at \in Nat /\ signals[s + N - 1].at \in Nat
        BY <1>2, <2>3, <3>2
      <4>2. signals[L].at - signals[first].at <= quiet_ms
        BY <2>1, <2>2
      <4> DEFINE a == signals[first].at
                 b == signals[s].at
                 c == signals[s + N - 1].at
                 d == signals[L].at
      <4>3. /\ d - a <= quiet_ms /\ a <= b /\ c <= d
            /\ a \in Nat /\ b \in Nat /\ c \in Nat /\ d \in Nat
        BY <3>3, <4>1, <4>2
      <4> HIDE DEF a, b, c, d
      <4>4. c - b <= quiet_ms
        BY <1>1, <4>3
      <4> QED  BY <4>4 DEF b, c
    <3>5. s + N - 1 \in (s + N - 1)..L
      BY <1>1, <1>2, <3>2
    <3>6. signals[s + N - 1].accepted
      BY <3>1, <3>4, <3>5 DEF WindowFrom, N
    <3> QED  BY <3>2, <3>6
  <2> QED  BY <2>4, <2>5
<1>6. D!AcceptedMeansBurst
  BY <1>4 DEF D!AcceptedMeansBurst, N
<1>7. D!BurstIsAccepted
  BY <1>5 DEF D!BurstIsAccepted, N
<1> QED  BY <1>6, <1>7

\* The debouncer starts with no signal heard.
LEMMA DebounceInit == ASSUME now \in Nat, D!debounce_init PROVE DebounceInv
<1>1. /\ quiet_ms \in Durations /\ first_seen_ms = 0 /\ signal_count = 0
      /\ settled = FALSE /\ signals = <<>>
  BY Zenon DEF D!debounce_init
<1>2. min_count \in Nat \ {0}
  BY CountsAssumption DEF D!debounce_init
<1>3. signals \in Seq([at : 0..now, accepted : BOOLEAN]) /\ Len(signals) = 0
  BY <1>1, EmptySeq, Zenon
<1>4. first_seen_ms \in 0..now /\ now \in Nat /\ signal_count \in Nat
  BY <1>1
<1>5. D!TypeOK
  BY <1>1, <1>2, <1>3, <1>4, Zenon DEF D!TypeOK
<1> QED  BY <1>1, <1>2, <1>3, <1>5 DEF DebounceInv, D!Needed

\* For every window and every count: nothing is accepted without a burst, and no
\* long burst goes without an acceptance (debounce_update).
THEOREM DebounceAcceptsBursts ==
  D!Spec => [](D!AcceptedMeansBurst /\ D!BurstIsAccepted)
<1>1. D!Init => DebounceInv
  BY DebounceInit DEF D!Init
<1> QED  BY <1>1, DebounceInvStep, DebounceInvSuffices, PTL DEF D!Spec

-----------------------------------------------------------------------------
(* The suppressor.                                                         *)

\* How many events of the present window were let through, and how many before.
InWindow == IF count < max_count THEN count ELSE max_count
Earlier  == Len(passed) - InWindow

\* A suppression ends when its window does, and the verdict is about that.
TimedInv ==
  mode = "TIMED" =>
    /\ passed = <<>>
    /\ suppressing => /\ suppress_until_ms = S!Clock(since + window_ms)
                      /\ verdict = "block" => S!Before
                      /\ verdict = "pass"  => ~S!Before \/ (now = since /\ count = 1)

\* The last events passed in the present window, those before them until it
\* began, and those before the last max_count of these a window earlier.
PassedInv ==
  /\ InWindow <= Len(passed)
  /\ \A i, j \in 1..Len(passed) : i <= j => passed[i] <= passed[j]
  /\ \A i \in 1..Len(passed) :
       /\ i > Earlier => passed[i] >= since
       /\ i <= Earlier => passed[i] <= since
       /\ i <= Earlier - max_count => since - passed[i] > window_ms
  /\ \A i, j \in 1..Len(passed) :
       j - i >= 2 * max_count => passed[j] - passed[i] > window_ms

\* The window began at since, and its verdicts are about it.
CountInv ==
  mode = "COUNT" =>
    /\ window_start_ms = S!Clock(since)
    /\ suppressing => count > max_count
    /\ verdict = "block" => suppressing /\ ~S!WindowOver
    /\ PassedInv

SuppressInv == S!TypeOK /\ TimedInv /\ CountInv

\* The types of the suppressor as the proofs use them.
LEMMA SuppressFacts ==
  ASSUME S!TypeOK
  PROVE  /\ now \in Nat /\ window_ms \in Nat /\ max_count \in Nat /\ count \in Nat
         /\ since \in 0..now /\ since \in Nat /\ suppressing \in BOOLEAN
         /\ Len(passed) \in Nat /\ \A i \in 1..Len(passed) : passed[i] \in 0..now
         /\ InWindow \in Nat /\ InWindow <= max_count /\ Earlier \in Int
         /\ Earlier + InWindow = Len(passed)
<1>1. /\ now \in Nat /\ window_ms \in Nat /\ max_count \in Nat /\ count \in Nat
      /\ since \in 0..now /\ suppressing \in BOOLEAN /\ passed \in Seq(0..now)
  BY DurationsAssumption, CountsAssumption DEF S!TypeOK
<1>2. Len(passed) \in Nat /\ \A i \in 1..Len(passed) : passed[i] \in 0..now
  BY <1>1, LenProperties, ElementOfSeq
<1> QED  BY <1>1, <1>2 DEF InWindow, Earlier

\* A window that the clock finds to be over is over, and one that it finds open
\* is open or so old that the clock came round.
LEMMA OverIsOver ==
  ASSUME S!TypeOK, window_start_ms = S!Clock(since)
  PROVE  /\ S!WindowOver => now - since > window_ms
         /\ ~S!WindowOver => now - since <= window_ms \/ now - since >= ClockMod
<1>1. /\ now \in Int /\ since \in Int /\ window_ms \in Nat /\ now - since \in Nat
  BY SuppressFacts
<1>2. S!WindowOver <=> (now - (since % ClockMod)) % ClockMod > window_ms
  BY DEF S!WindowOver, S!Clock
<1>3. (now - (since % ClockMod)) % ClockMod = (now - since) % ClockMod
  BY <1>1, ClockModAssumption, ModDifference
<1>4. (now - since) % ClockMod <= now - since
  BY <1>1, ClockModAssumption, ModAtMost
<1>5. now - since < ClockMod => (now - since) % ClockMod = now - since
  BY <1>1, ClockModAssumption, ModSmall
<1>6. (now - since) % ClockMod \in Int /\ now - since \in Int
  BY <1>1, ClockModAssumption, DivMod
<1> DEFINE r == (now - since) % ClockMod
           age == now - since
<1>7. S!WindowOver <=> r > window_ms
  BY <1>2, <1>3
<1>8. r \in Int /\ age \in Int /\ r <= age /\ (age < ClockMod => r = age)
  BY <1>4, <1>5, <1>6
<1> HIDE DEF r, age
<1>9. (r > window_ms => age > window_ms)
      /\ (~(r > window_ms) => age <= window_ms \/ age >= ClockMod)
  BY <1>1, <1>8, ClockModAssumption
<1> QED  BY <1>7, <1>9 DEF age

\* What every event and check in mode COUNT does to the window.
LEMMA OpenedFacts ==
  ASSUME S!TypeOK, window_start_ms = S!Clock(since), NEW n \in {0, 1}, S!Opened(n),
         now' = now, window_ms' = window_ms
  PROVE  /\ IF S!WindowOver THEN count' = n /\ since' = now /\ now - since > window_ms
                            ELSE count' = count + n /\ since' = since
         /\ window_start_ms' = S!Clock(since)' /\ window_start_ms' \in 0..(ClockMod - 1)
         /\ ~S!WindowOver'
<1>1. /\ now \in Nat /\ count \in Nat /\ since \in Int /\ window_ms \in Nat
      /\ window_start_ms \in 0..(ClockMod - 1)
  BY SuppressFacts DEF S!TypeOK
<1>2. CASE S!WindowOver
  <2>1. count' = n /\ since' = now /\ window_start_ms' = S!Clock(now)
    BY <1>1, <1>2 DEF S!Opened
  <2>2. now - since > window_ms
    BY <1>2, OverIsOver
  <2>3. S!Clock(now) \in 0..(ClockMod - 1)
    BY <1>1, ClockModAssumption, DivMod DEF S!Clock
  <2>4. (now - S!Clock(now)) % ClockMod = 0
    <3>1. now \in Int
      BY <1>1
    <3>2. (now - (now % ClockMod)) % ClockMod = (now - now) % ClockMod
      BY <3>1, ClockModAssumption, ModDifference
    <3>3. now - now = 0 /\ 0 \in 0..(ClockMod - 1)
      BY <1>1, ClockModAssumption
    <3>4. 0 % ClockMod = 0
      BY <3>3, ClockModAssumption, ModSmall
    <3> QED  BY <3>2, <3>3, <3>4 DEF S!Clock
  <2>5. ~S!WindowOver'
    BY <1>1, <2>1, <2>4 DEF S!WindowOver, S!Clock
  <2> QED  BY <1>2, <2>1, <2>2, <2>3, <2>5 DEF S!Clock
<1>3. CASE ~S!WindowOver
  <2>1. count' = count + n /\ since' = since /\ window_start_ms' = window_start_ms
    BY <1>1, <1>3 DEF S!Opened
  <2> QED  BY <1>1, <1>3, <2>1 DEF S!WindowOver, S!Clock
<1> QED  BY <1>2, <1>3

-----------------------------------------------------------------------------
\* Every step of the suppressor keeps the types.
LEMMA SuppressTypes ==
  ASSUME S!TypeOK, S!Next
  PROVE  S!TypeOK'
<1> USE DEF S!cfgVars
<1>0. /\ now \in Nat /\ now \in Int /\ window_ms \in Nat /\ count \in Nat
      /\ suppressing \in BOOLEAN
      /\ window_start_ms \in 0..(ClockMod - 1) /\ suppress_until_ms \in 0..(ClockMod - 1)
      /\ mode \in {"TIMED", "COUNT"} /\ window_ms \in Durations /\ max_count \in Counts
      /\ passed \in Seq(0..now) /\ since \in 0..now /\ (suppressing => count > 0)
      /\ verdict \in {"none", "pass", "block"}
  BY SuppressFacts DEF S!TypeOK
<1>c. \A t \in Int : S!Clock(t) \in 0..(ClockMod - 1)
  BY ClockModAssumption, DivMod DEF S!Clock
<1>1. CASE S!suppress_reset
  <2>1. now % ClockMod \in 0..(ClockMod - 1) /\ now % ClockMod <= now
    BY <1>0, ClockModAssumption, DivMod, ModAtMost
  <2>2. since' \in 0..now'
    BY <1>0, <1>1, <2>1, ClockModAssumption DEF S!suppress_reset, S!LastZero, S!Clock
  <2>3. passed' \in Seq(0..now')
    BY <1>1, EmptySeq DEF S!suppress_reset
  <2>4. suppressing' = FALSE /\ verdict' = "none" /\ mode' = mode
        /\ window_ms' = window_ms /\ max_count' = max_count
    BY <1>1 DEF S!suppress_reset
  <2>5. /\ now' \in Nat /\ count' \in Nat /\ window_start_ms' \in 0..(ClockMod - 1)
        /\ suppress_until_ms' \in 0..(ClockMod - 1)
    BY <1>0, <1>1, ClockModAssumption DEF S!suppress_reset
  <2> QED  BY <1>0, <2>2, <2>3, <2>4, <2>5, Zenon DEF S!TypeOK
<1>2. CASE S!CheckTimed
  <2>1. passed' \in Seq(0..now')
    BY <1>0, <1>2, Zenon DEF S!CheckTimed
  <2>2. suppressing' \in BOOLEAN /\ verdict' \in {"none", "pass", "block"}
        /\ (suppressing' => S!Before /\ suppressing)
    BY <1>2 DEF S!CheckTimed
  <2>3. count' \in Nat /\ (suppressing' => count' > 0)
    BY <1>0, <1>2, <2>2 DEF S!CheckTimed
  <2> QED  BY <1>0, <1>2, <2>1, <2>2, <2>3 DEF S!CheckTimed, S!TypeOK
<1>3. CASE S!RecordFirst
  <2>1. passed' \in Seq(0..now')
    BY <1>0, <1>3, Zenon DEF S!RecordFirst
  <2>2. suppress_until_ms' \in 0..(ClockMod - 1)
    BY <1>0, <1>3, <1>c DEF S!RecordFirst
  <2> QED  BY <1>0, <1>3, <2>1, <2>2 DEF S!RecordFirst, S!TypeOK
<1>4. CASE S!RecordTimed
  <2>1. passed' \in Seq(0..now')
    BY <1>0, <1>4, Zenon DEF S!RecordTimed
  <2> QED  BY <1>0, <1>4, <2>1 DEF S!RecordTimed, S!TypeOK
<1>o. ASSUME NEW n \in {0, 1}, S!Opened(n), now' = now
      PROVE  /\ count' \in Nat /\ count' >= n /\ since' \in 0..now
             /\ window_start_ms' \in 0..(ClockMod - 1)
             /\ ~S!WindowOver => count' >= count
  <2>1. S!Clock(now) \in 0..(ClockMod - 1)
    BY <1>0, <1>c
  <2>2. CASE S!WindowOver
    <3>1. count' = n /\ since' = now /\ window_start_ms' = S!Clock(now)
      BY <1>o, <2>2 DEF S!Opened
    <3> QED  BY <1>0, <2>1, <2>2, <3>1
  <2>3. CASE ~S!WindowOver
    <3>1. count' = n + count /\ since' = since /\ window_start_ms' = window_start_ms
      BY <1>o, <2>3 DEF S!Opened
    <3> QED  BY <1>0, <2>3, <3>1
  <2> QED  BY <2>2, <2>3
<1>5. CASE S!CheckCount
  <2>1. passed' \in Seq(0..now')
    BY <1>0, <1>5, Zenon DEF S!CheckCount
  <2>2. suppressing' \in BOOLEAN /\ verdict' \in {"none", "pass", "block"}
        /\ (suppressing' => ~S!WindowOver /\ suppressing)
    BY <1>5 DEF S!CheckCount
  <2> QED  BY <1>0, <1>5, <1>o, <2>1, <2>2 DEF S!CheckCount, S!TypeOK
<1>6. CASE S!RecordPassed
  <2>1. passed' \in Seq(0..now')
    <3>1. now \in 0..now
      BY <1>0
    <3> DEFINE N == 0..now
    <3> HIDE DEF N
    <3>2. Append(passed, now) \in Seq(N)
      BY <1>0, <3>1, AppendProperties DEF N
    <3> QED  BY <1>6, <3>2, Zenon DEF S!RecordPassed, N
  <2>2. suppressing' \in BOOLEAN
    BY <1>6, Zenon DEF S!RecordPassed
  <2> QED  BY <1>0, <1>6, <1>o, <2>1, <2>2 DEF S!RecordPassed, S!TypeOK
<1>7. CASE S!RecordBlocked
  <2>1. passed' \in Seq(0..now')
    BY <1>0, <1>7, Zenon DEF S!RecordBlocked
  <2> QED  BY <1>0, <1>7, <1>o, <2>1 DEF S!RecordBlocked, S!TypeOK
<1>8. CASE S!Tick
  <2>1. now' \in Nat /\ now < now'
    BY <1>0, <1>8, MaxTimeAssumption DEF S!Tick, S!TimePasses
  <2>2. 0..now \subseteq 0..now'
    BY <1>0, <2>1
  <2>3. passed' \in Seq(0..now')
    <3>1. passed \in Seq(0..now')
      BY <1>0, <2>2, SeqMonotonic, Zenon
    <3> QED  BY <1>8, <3>1, Zenon DEF S!Tick
  <2> QED  BY <1>0, <1>8, <2>1, <2>2, <2>3 DEF S!Tick, S!TypeOK
<1> QED
  BY <1>1, <1>2, <1>3, <1>4, <1>5, <1>6, <1>7, <1>8
  DEF S!Next, S!suppress_check, S!suppress_record

\* Every step of the suppressor keeps what is known of a suppression.
LEMMA TimedInvStep ==
  ASSUME S!TypeOK, TimedInv, S!Next
  PROVE  TimedInv'
<1> SUFFICES ASSUME mode' = "TIMED"
             PROVE  /\ passed' = <<>>
                    /\ suppressing' =>
                         /\ suppress_until_ms' = S!Clock(since + window_ms)'
                         /\ verdict' = "block" => S!Before'
                         /\ verdict' = "pass" =>
                              ~S!Before' \/ (now' = since' /\ count' = 1)
  BY DEF TimedInv
<1> USE DEF S!cfgVars
<1>0. mode = "TIMED" /\ passed = <<>>
  <2>1. mode' = mode
    BY Zenon DEF S!Next, S!suppress_check, S!suppress_record, S!suppress_reset,
       S!CheckTimed, S!RecordFirst, S!RecordTimed, S!CheckCount, S!RecordPassed,
       S!RecordBlocked, S!Tick
  <2> QED  BY <2>1 DEF TimedInv
<1>1. CASE S!suppress_reset
  BY <1>1 DEF S!suppress_reset
<1>2. CASE S!CheckTimed
  <2>1. suppressing' => suppressing /\ S!Before
    BY <1>2 DEF S!CheckTimed
  <2> QED  BY <1>0, <1>2, <2>1 DEF S!CheckTimed, S!Before, S!Clock, TimedInv
<1>3. CASE S!RecordFirst
  BY <1>0, <1>3 DEF S!RecordFirst, S!Clock, S!Before
<1>4. CASE S!RecordTimed
  BY <1>0, <1>4 DEF S!RecordTimed, S!Before, S!Clock, TimedInv
<1>5. CASE S!CheckCount \/ S!RecordPassed \/ S!RecordBlocked
  BY <1>0, <1>5 DEF S!CheckCount, S!RecordPassed, S!RecordBlocked
<1>6. CASE S!Tick
  BY <1>0, <1>6 DEF S!Tick, S!TimePasses, S!Clock, TimedInv
<1> QED
  BY <1>1, <1>2, <1>3, <1>4, <1>5, <1>6 DEF S!Next, S!suppress_check, S!suppress_record

\* An event that passes is appended to those that passed.
LEMMA PassAppends ==
  ASSUME S!TypeOK, passed' = Append(passed, now)
  PROVE  /\ Len(passed') = Len(passed) + 1
         /\ passed'[Len(passed) + 1] = now
         /\ \A i \in 1..Len(passed) : passed'[i] = passed[i]
<1>1. passed \in Seq(0..now) /\ now \in 0..now
  BY SuppressFacts DEF S!TypeOK
<1> DEFINE N == 0..now
<1> HIDE DEF N
<1> QED  BY <1>1, AppendProperties DEF N

\* An event or a check that lets nothing through keeps what is known of those
\* that passed.
LEMMA PassedInvKept ==
  ASSUME S!TypeOK, PassedInv, window_start_ms = S!Clock(since),
         NEW n \in {0, 1}, S!Opened(n), n = 1 => count' > max_count,
         now' = now, window_ms' = window_ms, max_count' = max_count, passed' = passed
  PROVE  PassedInv'
<1>1. /\ now \in Nat /\ max_count \in Nat /\ count \in Nat /\ window_ms \in Nat
      /\ since \in Nat /\ since <= now /\ Len(passed) \in Nat
      /\ \A i \in 1..Len(passed) : passed[i] \in 0..now
  BY SuppressFacts
<1>2. IF S!WindowOver THEN count' = n /\ since' = now /\ now - since > window_ms
                      ELSE count' = count + n /\ since' = since
  BY OpenedFacts
<1>3. CASE S!WindowOver
  <2>1. InWindow' = 0 /\ Earlier' = Len(passed)
    BY <1>1, <1>2, <1>3 DEF InWindow, Earlier
  <2>2. ASSUME NEW i \in 1..Len(passed)
        PROVE  /\ ~(i > Earlier') /\ passed[i] <= since'
               /\ i <= Earlier' - max_count => since' - passed[i] > window_ms
    <3>1. i <= Len(passed) - max_count => i <= Earlier
      BY <1>1 DEF InWindow, Earlier
    <3>2. i <= Earlier => passed[i] <= since
      BY DEF PassedInv
    <3>3. passed[i] \in Nat /\ passed[i] <= now /\ i \in Nat /\ i <= Len(passed)
      BY <1>1
    <3> QED  BY <1>1, <1>2, <1>3, <2>1, <3>1, <3>2, <3>3
  <2> QED  BY <1>1, <2>1, <2>2 DEF PassedInv
<1>4. CASE ~S!WindowOver
  <2>1. InWindow' = InWindow
    BY <1>1, <1>2, <1>4 DEF InWindow
  <2>2. Earlier' = Earlier /\ since' = since
    BY <1>2, <1>4, <2>1 DEF Earlier
  <2> QED  BY <2>1, <2>2 DEF PassedInv
<1> QED  BY <1>3, <1>4

\* So does an event that is let through.
LEMMA PassedInvPassed ==
  ASSUME S!TypeOK, PassedInv, window_start_ms = S!Clock(since),
         S!Opened(1), count' <= max_count,
         now' = now, window_ms' = window_ms, max_count' = max_count,
         passed' = Append(passed, now)
  PROVE  PassedInv'
<1> DEFINE n == Len(passed)
<1>1. /\ now \in Nat /\ max_count \in Nat /\ count \in Nat /\ window_ms \in Nat
      /\ since \in Nat /\ since <= now /\ n \in Nat
      /\ \A i \in 1..n : passed[i] \in 0..now
  BY SuppressFacts
<1>2. IF S!WindowOver THEN count' = 1 /\ since' = now /\ now - since > window_ms
                      ELSE count' = count + 1 /\ since' = since
  BY OpenedFacts
<1>3. /\ Len(passed') = n + 1 /\ passed'[n + 1] = now
      /\ \A i \in 1..n : passed'[i] = passed[i]
  BY PassAppends
<1>4. 1..(n + 1) = (1..n) \cup {n + 1}
  BY <1>1
<1> HIDE DEF n
<1>5. /\ InWindow' = IF S!WindowOver THEN 1 ELSE InWindow + 1
      /\ InWindow' <= n + 1
      /\ Earlier' = IF S!WindowOver THEN n ELSE Earlier
      /\ InWindow \in Nat /\ Earlier \in Int /\ Earlier + InWindow = n
      /\ 1 <= max_count /\ InWindow <= max_count
      /\ ~S!WindowOver => InWindow + 1 <= max_count
  <2>1. InWindow \in Nat /\ InWindow <= max_count /\ Earlier \in Int
        /\ Earlier + InWindow = n /\ InWindow <= n
    BY SuppressFacts DEF PassedInv, n
  <2>2. CASE S!WindowOver
    BY <1>1, <1>2, <1>3, <2>1, <2>2 DEF InWindow, Earlier
  <2>3. CASE ~S!WindowOver
    <3>1. count + 1 <= max_count /\ count' = count + 1
      BY <1>2, <2>3
    <3>2. InWindow = count /\ InWindow' = count + 1
      BY <1>1, <3>1 DEF InWindow
    <3>3. Earlier' = (n + 1) - (count + 1)
      BY <1>3, <3>2 DEF Earlier
    <3> QED  BY <1>1, <2>1, <2>3, <3>1, <3>2, <3>3
  <2> QED  BY <2>2, <2>3
<1>6. ASSUME NEW i \in 1..n
      PROVE  /\ passed[i] \in Nat /\ passed[i] <= now /\ i \in Nat /\ i <= n /\ 1 <= i
             /\ i > Earlier => passed[i] >= since
             /\ i <= Earlier => passed[i] <= since
             /\ i <= Earlier - max_count => since - passed[i] > window_ms
  BY <1>1 DEF PassedInv, n
<1>7. \A i, j \in 1..(n + 1) : i <= j => passed'[i] <= passed'[j]
  <2> SUFFICES ASSUME NEW i \in 1..(n + 1), NEW j \in 1..(n + 1), i <= j
               PROVE  passed'[i] <= passed'[j]
    OBVIOUS
  <2>1. CASE j = n + 1
    BY <1>1, <1>3, <1>4, <1>6, <2>1
  <2>2. CASE j # n + 1
    <3>1. i \in 1..n /\ j \in 1..n
      BY <1>1, <2>2
    <3> QED  BY <1>3, <3>1 DEF PassedInv, n
  <2> QED  BY <2>1, <2>2
<1>8. ASSUME NEW i \in 1..(n + 1)
      PROVE  /\ i > Earlier' => passed'[i] >= since'
             /\ i <= Earlier' => passed'[i] <= since'
             /\ i <= Earlier' - max_count => since' - passed'[i] > window_ms
  <2>1. CASE i = n + 1
    BY <1>1, <1>2, <1>3, <1>5, <2>1
  <2>2. CASE i \in 1..n
    <3>1. passed'[i] = passed[i]
      BY <1>3, <2>2
    <3>2. CASE S!WindowOver
      BY <1>1, <1>2, <1>5, <1>6, <2>2, <3>1, <3>2
    <3>3. CASE ~S!WindowOver
      BY <1>2, <1>5, <1>6, <2>2, <3>1, <3>3
    <3> QED  BY <3>2, <3>3
  <2> QED  BY <1>4, <2>1, <2>2
<1>9. ASSUME NEW i \in 1..(n + 1), NEW j \in 1..(n + 1), j - i >= 2 * max_count
      PROVE  passed'[j] - passed'[i] > window_ms
  <2>1. i \in 1..n
    BY <1>1, <1>5, <1>9
  <2>2. passed'[i] = passed[i]
    BY <1>3, <2>1
  <2>3. CASE j = n + 1
    <3>1. CASE S!WindowOver
      <4>1. i <= Earlier
        BY <1>1, <1>5, <1>9, <2>3
      <4> QED  BY <1>1, <1>2, <1>3, <1>6, <2>1, <2>2, <2>3, <3>1, <4>1
    <3>2. CASE ~S!WindowOver
      <4>1. i <= Earlier - max_count
        BY <1>1, <1>5, <1>9, <2>3, <3>2
      <4> QED  BY <1>1, <1>2, <1>3, <1>6, <2>1, <2>2, <2>3, <3>2, <4>1
    <3> QED  BY <3>1, <3>2
  <2>4. CASE j \in 1..n
    BY <1>3, <1>9, <2>1, <2>2, <2>4 DEF PassedInv, n
  <2> QED  BY <1>4, <2>3, <2>4
<1> QED  BY <1>3, <1>5, <1>7, <1>8, <1>9 DEF PassedInv

\* Every step of the suppressor keeps what is known of its windows.
LEMMA CountInvStep ==
  ASSUME S!TypeOK, CountInv, S!Next
  PROVE  CountInv'
<1> SUFFICES ASSUME mode' = "COUNT"
             PROVE  /\ window_start_ms' = S!Clock(since)'
                    /\ suppressing' => count' > max_count'
                    /\ verdict' = "block" => suppressing' /\ ~S!WindowOver'
                    /\ PassedInv'
  BY DEF CountInv
<1> USE DEF S!cfgVars
<1>0. /\ now \in Nat /\ now \in Int /\ max_count \in Nat /\ count \in Nat
      /\ suppressing \in BOOLEAN
  BY SuppressFacts
<1>m. mode = "COUNT"
  BY Zenon DEF S!Next, S!suppress_check, S!suppress_record, S!suppress_reset,
     S!CheckTimed, S!RecordFirst, S!RecordTimed, S!CheckCount, S!RecordPassed,
     S!RecordBlocked, S!Tick
<1>i. /\ window_start_ms = S!Clock(since)
      /\ suppressing => count > max_count
      /\ verdict = "block" => suppressing /\ ~S!WindowOver
      /\ PassedInv
  BY <1>m DEF CountInv
<1>1. CASE S!suppress_reset
  <2>1. suppressing' = FALSE /\ verdict' = "none" /\ window_start_ms' = 0
        /\ since' = now - (now % ClockMod) /\ passed' = <<>> /\ count' = 0
        /\ max_count' = max_count
    BY <1>1 DEF S!suppress_reset, S!LastZero, S!Clock
  <2>2. (now - (now % ClockMod)) % ClockMod = 0
    <3>1. (now - (now % ClockMod)) % ClockMod = (now - now) % ClockMod
      BY <1>0, ClockModAssumption, ModDifference
    <3>2. now - now = 0 /\ 0 \in 0..(ClockMod - 1)
      BY <1>0, ClockModAssumption
    <3>3. 0 % ClockMod = 0
      BY <3>2, ClockModAssumption, ModSmall
    <3> QED  BY <3>1, <3>2, <3>3
  <2>3. Len(passed') = 0 /\ 1..0 = {}
    BY <2>1, EmptySeq
  <2>4. InWindow' <= 0
    BY <1>0, <2>1 DEF InWindow
  <2>5. PassedInv'
    BY <2>3, <2>4 DEF PassedInv
  <2> QED  BY <2>1, <2>2, <2>5 DEF S!Clock
<1>2. CASE S!CheckTimed \/ S!RecordFirst \/ S!RecordTimed
  BY <1>2, <1>m DEF S!CheckTimed, S!RecordFirst, S!RecordTimed
<1>3. CASE S!CheckCount
  <2>1. /\ S!Opened(0) /\ now' = now /\ window_ms' = window_ms
        /\ max_count' = max_count /\ passed' = passed
        /\ suppressing' = (suppressing /\ ~S!WindowOver)
        /\ verdict' = IF suppressing' THEN "block" ELSE "pass"
    BY <1>3, Zenon DEF S!CheckCount
  <2>2. PassedInv'
    BY <1>i, <2>1, PassedInvKept
  <2>3. /\ IF S!WindowOver THEN count' = 0 ELSE count' = count + 0
        /\ window_start_ms' = S!Clock(since)' /\ ~S!WindowOver'
    BY <1>i, <2>1, OpenedFacts
  <2>4. ASSUME suppressing' PROVE count' > max_count'
    <3>1. suppressing /\ ~S!WindowOver
      BY <2>1, <2>4
    <3> QED  BY <1>0, <1>i, <2>1, <2>3, <3>1
  <2>5. verdict' = "block" => suppressing'
    BY <2>1
  <2> QED  BY <2>2, <2>3, <2>4, <2>5
<1>4. CASE S!RecordPassed
  <2>1. /\ S!Opened(1) /\ now' = now /\ window_ms' = window_ms
        /\ max_count' = max_count /\ passed' = Append(passed, now)
        /\ suppressing' = (suppressing /\ ~S!WindowOver)
        /\ verdict' = "pass" /\ count' <= max_count
    BY <1>4, Zenon DEF S!RecordPassed
  <2>2. PassedInv'
    BY <1>i, <2>1, PassedInvPassed
  <2>3. /\ IF S!WindowOver THEN count' = 1 ELSE count' = count + 1
        /\ window_start_ms' = S!Clock(since)'
    BY <1>i, <2>1, OpenedFacts
  <2>4. ASSUME suppressing' PROVE count' > max_count'
    <3>1. suppressing /\ ~S!WindowOver
      BY <2>1, <2>4
    <3> QED  BY <1>0, <1>i, <2>1, <2>3, <3>1
  <2> QED  BY <2>1, <2>2, <2>3, <2>4
<1>5. CASE S!RecordBlocked
  <2>1. /\ S!Opened(1) /\ now' = now /\ window_ms' = window_ms
        /\ max_count' = max_count /\ passed' = passed
        /\ suppressing' = TRUE
        /\ verdict' = "block" /\ count' > max_count
    BY <1>5, Zenon DEF S!RecordBlocked
  <2>2. PassedInv'
    BY <1>i, <2>1, PassedInvKept
  <2>3. window_start_ms' = S!Clock(since)' /\ ~S!WindowOver'
    BY <1>i, <2>1, OpenedFacts
  <2> QED  BY <2>1, <2>2, <2>3
<1>6. CASE S!Tick
  <2>1. /\ verdict' = "none" /\ window_ms' = window_ms /\ max_count' = max_count
        /\ count' = count /\ window_start_ms' = window_start_ms /\ since' = since
        /\ suppressing' = suppressing /\ passed' = passed
    BY <1>6, Zenon DEF S!Tick
  <2>2. InWindow' = InWindow /\ Earlier' = Earlier
    BY <2>1 DEF InWindow, Earlier
  <2>3. PassedInv'
    BY <1>i, <2>1, <2>2, Zenon DEF PassedInv
  <2> QED  BY <1>i, <2>1, <2>3 DEF S!Clock
<1> QED
  BY <1>1, <1>2, <1>3, <1>4, <1>5, <1>6 DEF S!Next, S!suppress_check, S!suppress_record

-----------------------------------------------------------------------------
\* Integers less than k apart from one another are at most k.
LEMMA CloseTogether ==
  ASSUME NEW J \in SUBSET Int, NEW k \in Nat \ {0}, \A i, j \in J : j - i < k
  PROVE  IsFiniteSet(J) /\ Cardinality(J) <= k
<1> DEFINE f == [j \in J |-> j % k]
<1>1. f \in [J -> 0..(k - 1)]
  BY DivMod
<1>2. ASSUME NEW i \in J, NEW j \in J, f[i] = f[j]
      PROVE  i = j
  <2> DEFINE p == i \div k
             q == j \div k
             r == i % k
  <2>1. p \in Int /\ q \in Int /\ r \in Int /\ i = k * p + r /\ j = k * q + r
    BY <1>2, DivMod
  <2>2. i - j < k /\ j - i < k
    OBVIOUS
  <2> HIDE DEF p, q, r
  <2> DEFINE d == p - q
  <2>3. d \in Int /\ i - j = k * d
    BY <2>1
  <2>4. ASSUME d >= 1 PROVE FALSE
    <3>1. d - 1 \in Nat /\ k * d = k + k * (d - 1)
      BY <2>3, <2>4
    <3>2. k * (d - 1) >= 0
      BY <3>1
    <3> QED  BY <2>2, <2>3, <3>1, <3>2
  <2>5. ASSUME d <= -1 PROVE FALSE
    <3> DEFINE e == (-d) - 1
    <3>1. e \in Nat /\ k * d = (-k) - (k * e)
      BY <2>3, <2>5
    <3>2. k * e >= 0
      BY <3>1
    <3> HIDE DEF e, d
    <3>3. i \in Int /\ j \in Int /\ k * d \in Int /\ k * e \in Int
      BY <2>3, <3>1
    <3> QED  BY <2>2, <2>3, <3>1, <3>2, <3>3
  <2>6. d = 0
    BY <2>3, <2>4, <2>5
  <2> QED  BY <2>1, <2>3, <2>6
<1>3. f \in Injection(J, 0..(k - 1))
  BY <1>1, <1>2 DEF Injection, IsInjective
<1>4. IsFiniteSet(0..(k - 1)) /\ Cardinality(0..(k - 1)) = k
  BY FS_Interval
<1> QED  BY <1>3, <1>4, FS_Injection

\* The instance's Cardinality is the one that the library's theorems are about.
LEMMA SameCardinality == ASSUME NEW A PROVE S!Cardinality(A) = Cardinality(A)
BY DEF S!Cardinality, Cardinality

\* From the invariant: the clock's comparison is that of the times.
LEMMA SuppressesTimely == ASSUME SuppressInv PROVE S!TimedSuppression
<1> SUFFICES ASSUME mode = "TIMED", suppressing,
                    (since + window_ms) \div ClockMod = now \div ClockMod
             PROVE  /\ verdict = "block" => now < since + window_ms
                    /\ verdict = "pass" => \/ now >= since + window_ms
                                           \/ now = since /\ count = 1
  BY DEF S!TimedSuppression
<1>1. now \in Int /\ since + window_ms \in Int
  BY SuppressFacts DEF SuppressInv
<1>2. suppress_until_ms = (since + window_ms) % ClockMod
  BY DEF SuppressInv, TimedInv, S!Clock
<1>3. now % ClockMod < (since + window_ms) % ClockMod <=> now < since + window_ms
  BY <1>1, ClockModAssumption, SameRound
<1>4. S!Before <=> now < since + window_ms
  BY <1>2, <1>3 DEF S!Before, S!Clock
<1> QED  BY <1>1, <1>4 DEF SuppressInv, TimedInv

\* From the invariant: any two events that passed within window_ms have less
\* than 2 * max_count others between them.
LEMMA SuppressesBursts == ASSUME SuppressInv PROVE S!BurstBound
<1>0. CASE mode = "TIMED"
  <2>1. DOMAIN passed = {}
    BY <1>0, EmptySeq DEF SuppressInv, TimedInv
  <2> QED  BY <2>1 DEF S!BurstBound
<1> SUFFICES ASSUME mode = "COUNT" PROVE S!BurstBound
  BY <1>0 DEF SuppressInv, S!TypeOK
<1>1. /\ window_ms \in Nat /\ max_count \in Nat /\ Len(passed) \in Nat
      /\ \A i \in 1..Len(passed) : passed[i] \in Nat
      /\ DOMAIN passed = 1..Len(passed)
  BY SuppressFacts, LenProperties DEF SuppressInv, S!TypeOK
<1>2. \A i, j \in 1..Len(passed) :
         j - i >= 2 * max_count => passed[j] - passed[i] > window_ms
  BY DEF SuppressInv, CountInv, PassedInv
<1> SUFFICES ASSUME NEW i \in 1..Len(passed)
             PROVE  Cardinality({j \in DOMAIN passed :
                       passed[j] \in passed[i]..(passed[i] + window_ms)}) <= 2 * max_count
  BY <1>1, SameCardinality DEF S!BurstBound
<1> DEFINE J == {j \in DOMAIN passed : passed[j] \in passed[i]..(passed[i] + window_ms)}
<1>3. 2 * max_count \in Nat \ {0}
  <2> SUFFICES ASSUME max_count = 0 PROVE FALSE
    BY <1>1
  <2>1. i - i >= 2 * max_count /\ passed[i] - passed[i] = 0
    BY <1>1
  <2> QED  BY <1>1, <1>2, <2>1
<1>4. ASSUME NEW a \in J, NEW b \in J
      PROVE  b - a < 2 * max_count
  <2>1. a \in 1..Len(passed) /\ b \in 1..Len(passed)
    BY <1>1
  <2>2. passed[b] - passed[a] <= window_ms
    BY <1>1, <2>1
  <2>3. passed[b] \in Nat /\ passed[a] \in Nat
    BY <1>1, <2>1
  <2>4. ~(b - a >= 2 * max_count)
    BY <1>1, <1>2, <2>1, <2>2, <2>3
  <2> QED  BY <1>1, <2>1, <2>4
<1>5. J \in SUBSET Int
  BY <1>1
<1> QED  BY <1>3, <1>4, <1>5, CloseTogether

\* From the invariant: max_count events passed since the window began.
LEMMA SuppressesForCause == ASSUME SuppressInv PROVE S!BlockedForCause
<1> SUFFICES ASSUME mode = "COUNT", verdict = "block"
             PROVE  /\ Cardinality({i \in DOMAIN passed : passed[i] >= since}) >= max_count
                    /\ now - since <= window_ms \/ now - since >= ClockMod
  BY SameCardinality DEF S!BlockedForCause
<1> DEFINE J == {i \in DOMAIN passed : passed[i] >= since}
           n == Len(passed)
<1>1. /\ max_count \in Nat /\ count \in Nat /\ n \in Nat /\ DOMAIN passed = 1..n
  BY SuppressFacts, LenProperties DEF SuppressInv, S!TypeOK
<1>2. /\ window_start_ms = S!Clock(since) /\ count > max_count /\ ~S!WindowOver
      /\ InWindow <= n /\ \A i \in 1..n : i > Earlier => passed[i] >= since
  BY DEF SuppressInv, CountInv, PassedInv
<1>3. InWindow = max_count /\ Earlier = n - max_count
  BY <1>1, <1>2 DEF InWindow, Earlier
<1>4. (n - max_count + 1)..n \in SUBSET J
  BY <1>1, <1>2, <1>3
<1>5. /\ IsFiniteSet(1..n)
      /\ Cardinality((n - max_count + 1)..n) = max_count
  BY <1>1, FS_Interval
<1>6. J \in SUBSET (1..n)
  BY <1>1
<1> HIDE DEF J, n
<1>7. IsFiniteSet(J)
  BY <1>5, <1>6, FS_Subset
<1>8. Cardinality(J) \in Nat /\ Cardinality(J) >= max_count
  <2>1. Cardinality(J) \in Nat
    BY <1>7, FS_CardinalityType
  <2>2. Cardinality((n - max_count + 1)..n) <= Cardinality(J)
    BY <1>4, <1>7, FS_Subset
  <2> QED  BY <1>5, <2>1, <2>2
<1>9. now - since <= window_ms \/ now - since >= ClockMod
  BY <1>2, OverIsOver DEF SuppressInv
<1> QED  BY <1>8, <1>9 DEF J

\* The suppressor starts with no events counted or passed.
LEMMA SuppressInit == ASSUME now \in Nat, S!suppress_init PROVE SuppressInv
<1>1. /\ mode \in {"TIMED", "COUNT"} /\ window_ms \in Durations
      /\ max_count \in Counts /\ count = 0 /\ window_start_ms = 0
      /\ suppress_until_ms = 0 /\ verdict = "none" /\ since = 0 /\ passed = <<>>
  BY DEF S!suppress_init
<1>2. suppressing = FALSE
  BY Zenon DEF S!suppress_init
<1>3. passed \in Seq(0..now) /\ Len(passed) = 0
  BY <1>1, EmptySeq, Zenon
<1>4. /\ count \in Nat /\ since \in 0..now
      /\ window_start_ms \in 0..(ClockMod - 1) /\ suppress_until_ms \in 0..(ClockMod - 1)
  BY <1>1, ClockModAssumption
<1>5. S!TypeOK
  BY <1>1, <1>2, <1>3, <1>4, Zenon DEF S!TypeOK
<1>6. 0 % ClockMod = 0
  BY ClockModAssumption, ModSmall
<1>7. InWindow = 0 /\ 1..Len(passed) = {}
  BY <1>1, <1>3, CountsAssumption DEF InWindow
<1>8. PassedInv
  BY <1>3, <1>7 DEF PassedInv
<1> QED
  BY <1>1, <1>2, <1>5, <1>6, <1>8 DEF SuppressInv, TimedInv, CountInv, S!Clock

\* Every step of the suppressor keeps the invariant.
LEMMA SuppressInvStep == SuppressInv /\ [S!Next]_(S!vars) => SuppressInv'
<1> SUFFICES ASSUME SuppressInv, [S!Next]_(S!vars) PROVE SuppressInv'
  OBVIOUS
<1>1. CASE S!Next
  BY <1>1, SuppressTypes, TimedInvStep, CountInvStep DEF SuppressInv
<1>2. CASE UNCHANGED S!vars
  BY <1>2 DEF S!vars, SuppressInv, S!TypeOK, TimedInv, CountInv, PassedInv, InWindow,
              Earlier, S!Clock, S!Before, S!WindowOver
<1> QED  BY <1>1, <1>2

\* For every window, limit and clock: a timed suppression lasts exactly its
\* window, never more than twice max_count events pass in one, and events are
\* suppressed only behind max_count others of an open window (suppress_record,
\* suppress_check).
THEOREM SuppressorIsJust ==
  S!Spec => [](S!TimedSuppression /\ S!BurstBound /\ S!BlockedForCause)
<1>1. S!Init => SuppressInv
  BY SuppressInit DEF S!Init
<1> QED
  BY <1>1, SuppressesTimely, SuppressesForCause, SuppressesBursts, SuppressInvStep, PTL
  DEF S!Spec

-----------------------------------------------------------------------------
(* The delays between retries.                                             *)

\* The law, and what keeps it: attempt counts the calls until it wraps.
BackoffInv ==
  /\ R!BackoffKeepsLaw
  /\ calls = 0 => current_ms = initial_ms
  /\ calls < WordMod => attempt = calls

DelayInv == R!TypeOK /\ BackoffInv /\ R!JitterKeepsBand

\* What taking a number modulo WordMod does.
LEMMA WordFacts ==
  /\ \A n \in Int : R!Word32(n) \in R!Word
  /\ \A n \in R!Word : n \in Nat /\ n < WordMod /\ R!Word32(n) = n
  /\ \A n \in Nat : WordMod <= n /\ n < 2 * WordMod => R!Word32(n) = n - WordMod
  /\ \A n \in Nat : R!Word32(n) \in Nat /\ R!Word32(n) <= n
  /\ 0 \in R!Word
<1>1. \A n \in Int : R!Word32(n) \in R!Word
  BY WordModAssumption, DivMod DEF R!Word32, R!Word
<1>2. \A n \in R!Word : n \in Nat /\ n < WordMod /\ R!Word32(n) = n
  BY WordModAssumption, ModSmall DEF R!Word32, R!Word
<1>3. ASSUME NEW n \in Nat, WordMod <= n, n < 2 * WordMod
      PROVE  R!Word32(n) = n - WordMod
  <2>1. n \in WordMod..(2 * WordMod - 1)
    BY <1>3, WordModAssumption
  <2> QED  BY <2>1, WordModAssumption, ModOnce DEF R!Word32
<1>4. ASSUME NEW n \in Nat
      PROVE  R!Word32(n) \in Nat /\ R!Word32(n) <= n
  <2>1. n % WordMod <= n
    BY WordModAssumption, ModAtMost
  <2>2. n % WordMod \in 0..(WordMod - 1)
    BY WordModAssumption, DivMod
  <2> QED  BY <2>1, <2>2, WordModAssumption DEF R!Word32
<1> QED  BY <1>1, <1>2, <1>3, <1>4, WordModAssumption DEF R!Word

\* The next delay is a word, never more than max_ms, and no less than a delay
\* that is within max_ms itself.
LEMMA FollowingFacts ==
  ASSUME NEW ms \in R!Word, multiplier \in R!Word, max_ms \in R!Word
  PROVE  /\ R!Following(ms) \in R!Word /\ R!Following(ms) <= max_ms
         /\ ms <= max_ms => ms <= R!Following(ms)
<1> DEFINE next == R!Word32(ms * multiplier)
<1>1. ms \in Nat /\ max_ms \in Nat /\ multiplier \in Nat
  BY WordFacts
<1>2. ms * multiplier \in Int
  BY <1>1
<1>3. next \in R!Word /\ next \in Nat
  BY <1>2, WordFacts
<1> HIDE DEF next
<1>4. R!Following(ms) = IF next > max_ms \/ next < ms THEN max_ms ELSE next
  BY DEF R!Following, next
<1> QED  BY <1>1, <1>3, <1>4

\* A greater factor makes a greater product.
LEMMA ProductGrows ==
  ASSUME NEW a \in Nat, NEW b \in Nat, NEW k \in Nat, a <= b
  PROVE  a * k \in Nat /\ a * k <= b * k
<1>1. a * k \in Nat /\ (b - a) * k \in Nat
  OBVIOUS
<1>2. b * k = a * k + (b - a) * k
  OBVIOUS
<1> QED  BY <1>1, <1>2

\* A product that does not wrap is the law's, and one by 1 or 2 that wraps is
\* noticed: only a greater multiplier that wraps may miss the law.
LEMMA FollowingIsLaw ==
  ASSUME NEW ms \in R!Word, max_ms \in R!Word, ms <= max_ms, multiplier \in R!Word,
         multiplier >= 1
  PROVE  \/ R!Following(ms) = R!Least(ms * multiplier, max_ms)
         \/ multiplier > 2 /\ ms * multiplier >= WordMod
<1>1. /\ ms \in Nat /\ max_ms \in Nat /\ ms < WordMod /\ max_ms < WordMod
      /\ multiplier \in Nat
  BY WordFacts
<1>2. ms * multiplier \in Nat /\ ms <= ms * multiplier
  <2>1. 1 * ms <= multiplier * ms /\ 1 * ms = ms /\ multiplier * ms = ms * multiplier
    BY <1>1, ProductGrows
  <2> QED  BY <1>1, <2>1
<1>3. CASE ms * multiplier < WordMod
  <2>1. R!Word32(ms * multiplier) = ms * multiplier
    BY <1>2, <1>3, WordModAssumption, ModSmall DEF R!Word32
  <2> QED  BY <1>1, <1>2, <2>1 DEF R!Following, R!Least
<1>4. CASE ms * multiplier >= WordMod /\ multiplier <= 2
  <2>1. multiplier = 2
    <3>1. multiplier \in {1, 2}
      <4>1. multiplier <= 2
        BY <1>4
      <4> QED  BY <1>1, <4>1
    <3>2. multiplier = 1 => ms * multiplier = ms
      BY <1>1
    <3>3. ms * multiplier # ms
      BY <1>1, <1>4, WordModAssumption
    <3> QED  BY <3>1, <3>2, <3>3
  <2>2. ms * multiplier = 2 * ms
    BY <1>1, <2>1
  <2>3. R!Word32(2 * ms) = 2 * ms - WordMod
    BY <1>1, <1>4, <2>2, WordModAssumption, WordFacts
  <2>4. 2 * ms - WordMod < ms /\ max_ms <= 2 * ms
    BY <1>1, <1>4, <2>2, WordModAssumption
  <2> QED  BY <1>1, <2>2, <2>3, <2>4, WordModAssumption DEF R!Following, R!Least
<1> QED  BY <1>1, <1>2, <1>3, <1>4, WordModAssumption

\* The types of the backoff, one by one.
LEMMA BackoffTypes ==
  ASSUME R!TypeOK
  PROVE  /\ initial_ms \in R!Word /\ multiplier \in R!Word /\ max_ms \in R!Word
         /\ max_attempts \in R!Word /\ current_ms \in R!Word /\ attempt \in R!Word
         /\ ideal \in R!Word /\ calls \in 0..WordMod /\ handed \in R!Word \cup {R!Nobody}
BY DEF R!TypeOK

\* Every step of the backoff keeps the law.
LEMMA BackoffStep ==
  ASSUME R!TypeOK, BackoffInv, R!BackoffNext
  PROVE  /\ BackoffInv'
         /\ {initial_ms, multiplier, max_ms, max_attempts, current_ms, attempt}' \subseteq R!Word
         /\ backing_off' \in BOOLEAN /\ handed' \in R!Word \cup {R!Nobody}
         /\ calls' \in 0..WordMod /\ ideal' \in R!Word
<1> USE DEF R!backoffCfg
<1>1. /\ initial_ms \in R!Word /\ multiplier \in R!Word /\ max_ms \in R!Word
      /\ max_attempts \in R!Word /\ current_ms \in R!Word /\ attempt \in R!Word
      /\ ideal \in R!Word /\ calls \in 0..WordMod
  BY BackoffTypes
<1>2. /\ initial_ms \in Nat /\ multiplier \in Nat /\ max_ms \in Nat /\ max_attempts \in Nat
      /\ current_ms \in Nat /\ attempt \in Nat /\ ideal \in Nat /\ calls \in Nat
  BY <1>1, WordFacts
<1>3. CASE R!backoff_reset
  <2>1. /\ current_ms' = initial_ms /\ attempt' = 0 /\ handed' = R!Nobody /\ calls' = 0
        /\ ideal' = initial_ms /\ UNCHANGED <<initial_ms, multiplier, max_ms, max_attempts>>
    BY <1>3 DEF R!backoff_reset
  <2>2. backing_off' \in BOOLEAN
    BY <1>3, Zenon DEF R!backoff_reset
  <2>3. BackoffInv'
    BY <1>2, <2>1, WordModAssumption DEF BackoffInv, R!BackoffKeepsLaw, R!backoff_exceeded
  <2> QED  BY <1>1, <2>1, <2>2, <2>3, WordFacts, WordModAssumption
<1>4. CASE R!backoff_next
  <2>1. /\ handed' = current_ms /\ attempt' = R!Word32(attempt + 1)
        /\ current_ms' = R!Following(current_ms)
        /\ UNCHANGED <<initial_ms, multiplier, max_ms, max_attempts>>
    BY <1>4 DEF R!backoff_next
  <2>2. backing_off' \in BOOLEAN
    BY <1>4, Zenon DEF R!backoff_next
  <2>3. /\ calls' = IF calls + 1 < WordMod THEN calls + 1 ELSE WordMod
        /\ ideal' = R!Least(ideal * multiplier, max_ms)
    BY <1>4 DEF R!backoff_next, R!Least
  <2>4. /\ current_ms' \in R!Word /\ current_ms' \in Nat /\ current_ms' <= max_ms
        /\ current_ms <= max_ms => current_ms <= current_ms'
    BY <1>1, <2>1, FollowingFacts, WordFacts
  <2>5. attempt' \in R!Word /\ calls' \in 0..WordMod /\ calls' >= 1
    BY <1>1, <1>2, <2>1, <2>3, WordFacts, WordModAssumption
  <2>6. ideal' \in R!Word
    <3> DEFINE product == ideal * multiplier
    <3>1. product \in Nat
      BY <1>2
    <3> HIDE DEF product
    <3>2. max_ms < WordMod
      BY <1>1, WordFacts
    <3>3. R!Least(product, max_ms) \in Nat /\ R!Least(product, max_ms) < WordMod
      BY <1>2, <3>1, <3>2, WordModAssumption DEF R!Least
    <3> QED  BY <2>3, <3>3, WordModAssumption DEF product, R!Word
  <2>7. calls' < WordMod => attempt' = calls'
    <3> SUFFICES ASSUME calls' < WordMod PROVE attempt' = calls'
      OBVIOUS
    <3>1. calls + 1 < WordMod /\ calls' = calls + 1 /\ attempt = calls
      BY <1>2, <2>3, WordModAssumption DEF BackoffInv
    <3>2. attempt + 1 \in R!Word
      BY <1>2, <3>1, WordModAssumption DEF R!Word
    <3> QED  BY <2>1, <3>1, <3>2, WordFacts
  <2>9. calls' > 1 \/ (calls' = 1 /\ initial_ms <= max_ms) => handed' <= current_ms'
    <3>1. CASE calls = 0
      BY <1>2, <2>1, <2>3, <2>4, <3>1, WordModAssumption DEF BackoffInv
    <3>2. CASE calls > 0
      BY <2>1, <2>4, <3>2 DEF BackoffInv, R!BackoffKeepsLaw
    <3> QED  BY <1>2, <3>1, <3>2
  <2>10. initial_ms <= max_ms /\ multiplier >= 1 =>
           \/ current_ms' = ideal'
           \/ multiplier > 2 /\ ideal' = max_ms /\ max_ms * multiplier >= WordMod
    <3> SUFFICES ASSUME initial_ms <= max_ms, multiplier >= 1
                 PROVE  \/ current_ms' = ideal'
                        \/ /\ multiplier > 2 /\ ideal' = max_ms
                           /\ max_ms * multiplier >= WordMod
      OBVIOUS
    <3>1. current_ms <= max_ms
      BY <1>2 DEF BackoffInv, R!BackoffKeepsLaw
    <3>2. CASE current_ms = ideal
      <4>1. CASE R!Following(current_ms) = R!Least(current_ms * multiplier, max_ms)
        BY <2>1, <2>3, <3>2, <4>1
      <4>2. CASE multiplier > 2 /\ current_ms * multiplier >= WordMod
        <5>1. /\ current_ms * multiplier \in Nat
              /\ current_ms * multiplier <= max_ms * multiplier
              /\ max_ms * multiplier \in Nat
          BY <1>2, <3>1, ProductGrows
        <5>2. max_ms < WordMod
          BY <1>1, WordFacts
        <5>3. R!Least(current_ms * multiplier, max_ms) = max_ms
          BY <1>2, <4>2, <5>1, <5>2, WordModAssumption DEF R!Least
        <5> QED  BY <2>3, <3>2, <4>2, <5>1, <5>3, WordModAssumption
      <4> QED  BY <1>1, <3>1, <4>1, <4>2, FollowingIsLaw
    <3>3. CASE current_ms # ideal
      <4>1. multiplier > 2 /\ ideal = max_ms /\ max_ms * multiplier >= WordMod
        BY <3>3 DEF BackoffInv, R!BackoffKeepsLaw
      <4>2. max_ms < WordMod
        BY <1>1, WordFacts
      <4>3. R!Least(ideal * multiplier, max_ms) = max_ms
        BY <1>2, <4>1, <4>2, WordModAssumption DEF R!Least
      <4> QED  BY <2>3, <4>1, <4>3
    <3> QED  BY <3>2, <3>3
  <2>11. BackoffInv'
    BY <2>1, <2>4, <2>5, <2>7, <2>9, <2>10
    DEF BackoffInv, R!BackoffKeepsLaw, R!backoff_exceeded
  <2> QED  BY <1>1, <2>1, <2>2, <2>4, <2>5, <2>6, <2>11
<1> QED  BY <1>3, <1>4 DEF R!BackoffNext

\* The generator gives words, and a number of the range that is asked for.
LEMMA RangeFacts ==
  ASSUME seed \in R!Word, NEW lo \in Int, NEW hi \in Int
  PROVE  /\ R!lcg_next(seed) \in R!Word
         /\ IF lo >= hi THEN R!rand_range(lo, hi) = lo
                        ELSE R!rand_range(lo, hi) \in lo..(hi - 1)
<1>1. R!lcg_next(seed) \in R!Word /\ R!lcg_next(seed) \in Int
  <2>1. R!Word32(1664525) \in Nat /\ R!Word32(1013904223) \in Nat /\ seed \in Nat
    BY WordFacts, SMT
  <2>2. R!lcg_next(seed) \in R!Word
    BY <2>1, WordFacts, SMT DEF R!lcg_next
  <2> QED  BY <2>2, WordFacts, SMT
<1>2. CASE lo >= hi
  BY <1>1, <1>2 DEF R!rand_range
<1>3. CASE ~(lo >= hi)
  <2>1. hi - lo \in Nat \ {0}
    BY <1>3
  <2>2. R!lcg_next(seed) % (hi - lo) \in 0..(hi - lo - 1)
    BY <1>1, <2>1, DivMod
  <2>3. R!rand_range(lo, hi) = lo + (R!lcg_next(seed) % (hi - lo))
    BY <1>3 DEF R!rand_range
  <2> DEFINE x == R!lcg_next(seed) % (hi - lo)
  <2>4. x \in 0..(hi - lo - 1) /\ R!rand_range(lo, hi) = lo + x
    BY <2>2, <2>3
  <2> HIDE DEF x
  <2>5. lo + x \in lo..(hi - 1)
    BY <2>4
  <2> QED  BY <1>1, <1>3, <2>4, <2>5
<1> QED  BY <1>2, <1>3

\* Every mode gives a word within its band.
LEMMA JitterApplies ==
  ASSUME R!TypeOK, NEW delay \in R!Word, asked' = delay,
         UNCHANGED <<jitter, base_ms, cap_ms>>,
         \/ R!ApplyNone(delay) \/ R!ApplyFull(delay)
         \/ R!ApplyEqual(delay) \/ R!ApplyDecorr(delay)
  PROVE  given' \in R!Word /\ seed' \in R!Word /\ R!JitterKeepsBand'
<1>1. /\ base_ms \in R!Word /\ cap_ms \in R!Word /\ seed \in R!Word
      /\ base_ms \in Nat /\ cap_ms \in Nat /\ delay \in Nat /\ R!lcg_next(seed) \in R!Word
      /\ R!lcg_next(seed) \in Nat /\ base_ms < WordMod /\ cap_ms < WordMod /\ delay < WordMod
  BY WordFacts, RangeFacts DEF R!TypeOK
<1>w. \A n \in Nat : n < WordMod => n \in R!Word
  BY WordModAssumption DEF R!Word
<1>2. CASE R!ApplyNone(delay)
  BY <1>1, <1>2 DEF R!ApplyNone, R!JitterKeepsBand
<1>3. CASE R!ApplyFull(delay)
  <2>1. delay # 0 => R!lcg_next(seed) % (delay + 1) \in 0..delay
    <3> SUFFICES ASSUME delay # 0 PROVE R!lcg_next(seed) % (delay + 1) \in 0..delay
      OBVIOUS
    <3> DEFINE m == delay + 1
    <3>1. m \in Nat \ {0} /\ m - 1 = delay /\ R!lcg_next(seed) \in Int
      BY <1>1
    <3> HIDE DEF m
    <3>2. R!lcg_next(seed) % m \in 0..(m - 1)
      BY <3>1, DivMod
    <3> QED  BY <3>1, <3>2 DEF m
  <2>2. given' \in 0..delay /\ seed' \in R!Word /\ jitter = "FULL"
    BY <1>1, <1>3, <2>1 DEF R!ApplyFull
  <2>3. given' \in R!Word
    BY <1>1, <1>w, <2>2, WordModAssumption
  <2> QED  BY <2>2, <2>3 DEF R!JitterKeepsBand
<1>4. CASE R!ApplyEqual(delay)
  <2> DEFINE lo == delay \div 2
             hi == IF delay = 0 THEN 1 ELSE delay
  <2>1. /\ jitter = "EQUAL" /\ given' = R!rand_range(lo, hi)
        /\ seed' = IF lo >= hi THEN seed ELSE R!lcg_next(seed)
    BY <1>4 DEF R!ApplyEqual, R!Draws
  <2>2. lo \in Nat /\ lo <= delay /\ hi \in Nat /\ lo < hi /\ hi <= delay + 1
        /\ (delay = 0 => lo = 0 /\ hi = 1) /\ (delay # 0 => hi = delay)
    BY <1>1
  <2> HIDE DEF lo, hi
  <2>3. R!rand_range(lo, hi) \in lo..(hi - 1)
    BY <1>1, <2>2, RangeFacts
  <2>4. given' \in lo..delay /\ given' \in Nat /\ given' < WordMod /\ seed' \in R!Word
    BY <1>1, <2>1, <2>2, <2>3, WordModAssumption
  <2> QED  BY <1>w, <2>1, <2>4 DEF R!JitterKeepsBand, lo
<1>5. CASE R!ApplyDecorr(delay)
  <2> DEFINE hi == R!DecorrEnd(delay)
             x  == R!rand_range(base_ms, hi)
  <2>1. /\ jitter = "DECORR" /\ given' = R!Least(x, cap_ms)
        /\ seed' = IF base_ms >= hi THEN seed ELSE R!lcg_next(seed)
    BY <1>5 DEF R!ApplyDecorr, R!Draws, R!Capped
  <2>2. R!Word32(delay * 3) \in Nat /\ R!Word32(delay * 3) <= delay * 3
    BY <1>1, WordFacts
  <2>3. R!Word32(base_ms + 1) \in Nat /\ R!Word32(base_ms + 1) <= base_ms + 1
    BY <1>1, WordFacts
  <2>4. hi \in Nat /\ (hi <= base_ms + 1 \/ hi <= delay * 3)
    BY <1>1, <2>2, <2>3 DEF R!DecorrEnd
  <2> HIDE DEF hi
  <2>5. IF base_ms >= hi THEN x = base_ms ELSE x \in base_ms..(hi - 1)
    BY <1>1, <2>4, RangeFacts
  <2> HIDE DEF x
  <2>6. x \in Nat /\ base_ms <= x /\ (x <= base_ms \/ x <= delay * 3)
    BY <1>1, <2>4, <2>5
  <2>7. /\ R!Least(base_ms, cap_ms) <= given' /\ given' <= cap_ms /\ given' \in Nat
        /\ given' <= base_ms \/ given' <= delay * 3
    BY <1>1, <2>1, <2>6 DEF R!Least
  <2>8. given' \in R!Word /\ seed' \in R!Word
    BY <1>1, <1>w, <2>1, <2>7, WordModAssumption
  <2> QED  BY <2>1, <2>7, <2>8 DEF R!JitterKeepsBand, R!Least
<1> QED  BY <1>2, <1>3, <1>4, <1>5

\* Every call of the jitter keeps it within its band.
LEMMA JitterStep ==
  ASSUME R!TypeOK, R!JitterKeepsBand, R!JitterNext
  PROVE  /\ R!JitterKeepsBand'
         /\ {base_ms, cap_ms, seed}' \subseteq R!Word
         /\ jitter' \in R!Modes /\ {asked, given}' \subseteq R!Word \cup {R!Nobody}
<1>1. CASE R!jitter_apply
  <2>1. PICK delay \in R!Word :
          /\ \/ R!ApplyNone(delay) \/ R!ApplyFull(delay)
             \/ R!ApplyEqual(delay) \/ R!ApplyDecorr(delay)
          /\ asked' = delay
          /\ UNCHANGED <<jitter, base_ms, cap_ms>>
    BY <1>1 DEF R!jitter_apply
  <2>2. given' \in R!Word /\ seed' \in R!Word /\ R!JitterKeepsBand'
    BY <2>1, JitterApplies
  <2> QED  BY <2>1, <2>2 DEF R!TypeOK
<1>2. CASE R!jitter_reset
  <2>1. seed' \in R!Word
    BY <1>2, WordFacts, SMT DEF R!jitter_reset, R!DefaultSeed
  <2>2. UNCHANGED <<jitter, base_ms, cap_ms, asked, given>>
    BY <1>2 DEF R!jitter_reset
  <2> QED  BY <2>1, <2>2 DEF R!TypeOK, R!JitterKeepsBand, R!Least
<1> QED  BY <1>1, <1>2 DEF R!JitterNext

\* The backoff starts at initial_ms, and the jitter has given nothing.
LEMMA DelayInit == R!Init => DelayInv
<1> SUFFICES ASSUME R!Init PROVE DelayInv
  OBVIOUS
<1>1. /\ initial_ms \in Initials /\ multiplier \in Multipliers /\ max_ms \in Maxima
      /\ max_attempts \in AttemptLimits /\ current_ms = initial_ms /\ attempt = 0
      /\ handed = R!Nobody /\ calls = 0 /\ ideal = initial_ms
      /\ jitter \in R!Modes /\ base_ms \in Bases /\ cap_ms \in Caps
      /\ asked = R!Nobody /\ given = R!Nobody
  BY DEF R!Init, R!backoff_init, R!jitter_init
<1>2. backing_off \in BOOLEAN
  BY Zenon DEF R!Init, R!backoff_init
<1>3. seed \in R!Word
  BY WordFacts, SMT DEF R!Init, R!jitter_init, R!DefaultSeed
<1>4. /\ initial_ms \in R!Word /\ multiplier \in R!Word /\ max_ms \in R!Word
      /\ max_attempts \in R!Word /\ base_ms \in R!Word /\ cap_ms \in R!Word
  BY <1>1, WordsAssumption DEF R!Word
<1>5. R!TypeOK
  BY <1>1, <1>2, <1>3, <1>4, WordFacts, WordModAssumption DEF R!TypeOK
<1>6. max_attempts \in Nat
  BY <1>4, WordFacts
<1>7. BackoffInv
  BY <1>1, <1>6 DEF BackoffInv, R!BackoffKeepsLaw, R!backoff_exceeded
<1> QED  BY <1>1, <1>5, <1>7 DEF DelayInv, R!JitterKeepsBand

\* Every call keeps the invariant.
LEMMA DelayStep == DelayInv /\ [R!Next]_(R!vars) => DelayInv'
<1> SUFFICES ASSUME DelayInv, [R!Next]_(R!vars) PROVE DelayInv'
  OBVIOUS
<1>1. ASSUME R!BackoffNext, UNCHANGED R!jitterVars PROVE DelayInv'
  <2>1. R!JitterKeepsBand'
    BY <1>1 DEF DelayInv, R!jitterVars, R!JitterKeepsBand, R!Least
  <2>2. BackoffInv' /\ R!TypeOK'
    BY <1>1, BackoffStep DEF DelayInv, R!jitterVars, R!TypeOK
  <2> QED  BY <2>1, <2>2 DEF DelayInv
<1>2. ASSUME R!JitterNext, UNCHANGED R!backoffVars PROVE DelayInv'
  <2>1. BackoffInv'
    BY <1>2 DEF DelayInv, R!backoffVars, BackoffInv, R!BackoffKeepsLaw, R!backoff_exceeded
  <2>2. R!JitterKeepsBand' /\ R!TypeOK'
    BY <1>2, JitterStep DEF DelayInv, R!backoffVars, R!TypeOK
  <2> QED  BY <2>1, <2>2 DEF DelayInv
<1>3. CASE UNCHANGED R!vars
  <2>1. UNCHANGED R!backoffVars /\ UNCHANGED R!jitterVars
    BY <1>3 DEF R!vars
  <2>2. R!TypeOK'
    BY <2>1 DEF DelayInv, R!backoffVars, R!jitterVars, R!TypeOK
  <2>3. BackoffInv'
    BY <2>1 DEF DelayInv, R!backoffVars, BackoffInv, R!BackoffKeepsLaw, R!backoff_exceeded
  <2>4. R!JitterKeepsBand'
    BY <2>1 DEF DelayInv, R!jitterVars, R!JitterKeepsBand, R!Least
  <2> QED  BY <2>2, <2>3, <2>4 DEF DelayInv
<1> QED  BY <1>1, <1>2, <1>3 DEF R!Next

\* For every word width and every configuration: delays keep to the backoff's law
\* or lag behind its cap where a product wraps, and jitter keeps them in its band
\* (backoff_next, jitter_apply).
THEOREM RetryDelaysKeepLaw == R!Spec => [](R!BackoffKeepsLaw /\ R!JitterKeepsBand)
<1>1. DelayInv => R!BackoffKeepsLaw /\ R!JitterKeepsBand
  BY DEF DelayInv, BackoffInv
<1> QED  BY <1>1, DelayInit, DelayStep, PTL DEF R!Spec

-----------------------------------------------------------------------------
(* The gates together.                                                     *)

\* A gate that is not the subject has answered nothing.
Quiet ==
  /\ subject # "throttle" => allowed = "none"
  /\ subject # "cooldown" => triggered = "none"
  /\ subject # "suppress" => verdict = "none"

GatesInv ==
  /\ now \in Nat
  /\ Quiet
  /\ subject = "throttle" => T!TypeOK
  /\ C!TypeOK /\ SuppressInv /\ DebounceInv /\ DelayInv

\* The only step of a gate that changes the time is the clock's.
LEMMA StepsOfTime ==
  ASSUME Next
  PROVE  now' = now \/ TimePasses
<1>1. ASSUME T!Next PROVE now' = now \/ TimePasses
  BY <1>1 DEF T!Next, T!throttle_set_enabled, T!throttle_allow, T!AllowDisabled, T!Allow,
              T!Suppress, T!throttle_reset, T!Tick, T!TimePasses, TimePasses
<1>2. ASSUME C!Next PROVE now' = now \/ TimePasses
  BY <1>2 DEF C!Next, C!cooldown_reset, C!cooldown_trigger, C!Refuse, C!LetThrough,
              C!Tick, C!TimePasses, TimePasses
<1>3. ASSUME S!Next PROVE now' = now \/ TimePasses
  BY <1>3, Zenon DEF S!Next, S!suppress_reset, S!suppress_check, S!suppress_record,
              S!CheckTimed, S!RecordFirst, S!RecordTimed, S!CheckCount, S!RecordPassed,
              S!RecordBlocked, S!Tick, S!TimePasses, TimePasses
<1>4. ASSUME D!Next PROVE now' = now \/ TimePasses
  BY <1>4, Zenon DEF D!Next, D!debounce_update, D!debounce_reset, D!StartWindow,
              D!CountSignal, D!Heard, D!Tick, D!TimePasses, TimePasses
<1> QED
  BY <1>1, <1>2, <1>3, <1>4
  DEF Next, UseThrottle, UseCooldown, UseSuppress, UseDebounce, UseBackoff, UseJitter

\* So a step of one gate is a step of each: the others let the time pass.
LEMMA EachGateSteps ==
  ASSUME Quiet, [Next]_vars
  PROVE  /\ [T!Next]_(T!vars) /\ [C!Next]_(C!vars) /\ [S!Next]_(S!vars)
         /\ [D!Next]_(D!vars) /\ [R!Next]_(R!vars)
         /\ Quiet' /\ subject' = subject /\ (now' = now \/ TimePasses)
<1>1. CASE UNCHANGED vars
  BY <1>1 DEF vars, gateVars, throttleVars, cooldownVars, suppressVars, debounceVars,
              backoffVars, jitterVars, T!vars, C!vars, S!vars, D!vars, R!vars,
              R!backoffVars, R!jitterVars, Quiet
<1>2. CASE Next
  <2>1. now' = now \/ TimePasses
    BY <1>2, StepsOfTime
  <2>2. subject' = subject
    BY <1>2 DEF Next, UseThrottle, UseCooldown, UseSuppress, UseDebounce, UseBackoff,
                UseJitter
  <2>3. subject # "throttle" => allowed = "none" /\ UNCHANGED throttleVars
    BY <1>2, Zenon
    DEF Next, UseThrottle, UseCooldown, UseSuppress, UseDebounce, UseBackoff, UseJitter,
        gateVars, Quiet
  <2>4. subject # "cooldown" => triggered = "none" /\ UNCHANGED cooldownVars
    BY <1>2, Zenon
    DEF Next, UseThrottle, UseCooldown, UseSuppress, UseDebounce, UseBackoff, UseJitter,
        gateVars, Quiet
  <2>5. subject # "suppress" => verdict = "none" /\ UNCHANGED suppressVars
    BY <1>2, Zenon
    DEF Next, UseThrottle, UseCooldown, UseSuppress, UseDebounce, UseBackoff, UseJitter,
        gateVars, Quiet
  <2>6. subject # "debounce" => UNCHANGED debounceVars
    BY <1>2, Zenon
    DEF Next, UseThrottle, UseCooldown, UseSuppress, UseDebounce, UseBackoff, UseJitter,
        gateVars
  <2>7. [T!Next]_(T!vars)
    <3>1. CASE subject = "throttle"
      BY <1>2, <3>1, Zenon
      DEF Next, UseThrottle, UseCooldown, UseSuppress, UseDebounce, UseBackoff, UseJitter
    <3>2. CASE subject # "throttle"
      BY <2>1, <2>3, <3>2
      DEF throttleVars, TimePasses, T!Next, T!Tick, T!TimePasses, T!vars
    <3> QED  BY <3>1, <3>2
  <2>8. [C!Next]_(C!vars)
    <3>1. CASE subject = "cooldown"
      BY <1>2, <3>1, Zenon
      DEF Next, UseThrottle, UseCooldown, UseSuppress, UseDebounce, UseBackoff, UseJitter
    <3>2. CASE subject # "cooldown"
      BY <2>1, <2>4, <3>2
      DEF cooldownVars, TimePasses, C!Next, C!Tick, C!TimePasses, C!vars
    <3> QED  BY <3>1, <3>2
  <2>9. [S!Next]_(S!vars)
    <3>1. CASE subject = "suppress"
      BY <1>2, <3>1, Zenon
      DEF Next, UseThrottle, UseCooldown, UseSuppress, UseDebounce, UseBackoff, UseJitter
    <3>2. CASE subject # "suppress"
      BY <2>1, <2>5, <3>2
      DEF suppressVars, TimePasses, S!Next, S!Tick, S!TimePasses, S!vars, S!cfgVars
    <3> QED  BY <3>1, <3>2
  <2>10. [D!Next]_(D!vars)
    <3>1. CASE subject = "debounce"
      BY <1>2, <3>1, Zenon
      DEF Next, UseThrottle, UseCooldown, UseSuppress, UseDebounce, UseBackoff, UseJitter
    <3>2. CASE subject # "debounce"
      BY <2>1, <2>6, <3>2
      DEF debounceVars, TimePasses, D!Next, D!Tick, D!TimePasses, D!vars
    <3> QED  BY <3>1, <3>2
  <2>11. [R!Next]_(R!vars)
    <3>1. UNCHANGED <<backoffVars, jitterVars>> => UNCHANGED R!vars
      BY DEF backoffVars, jitterVars, R!vars, R!backoffVars, R!jitterVars
    <3>2. CASE UseBackoff
      BY <3>2 DEF UseBackoff, R!Next, jitterVars, R!jitterVars
    <3>3. CASE UseJitter
      BY <3>3 DEF UseJitter, R!Next, backoffVars, R!backoffVars
    <3> QED
      BY <1>2, <3>1, <3>2, <3>3, Zenon
      DEF Next, UseThrottle, UseCooldown, UseSuppress, UseDebounce
  <2>12. Quiet'
    BY <2>2, <2>3, <2>4, <2>5 DEF Quiet, throttleVars, cooldownVars, suppressVars
  <2> QED  BY <2>1, <2>2, <2>7, <2>8, <2>9, <2>10, <2>11, <2>12
<1> QED  BY <1>1, <1>2

\* It holds at first, whatever the subject.
LEMMA GatesInitInv == Init => GatesInv
<1> SUFFICES ASSUME Init PROVE GatesInv
  OBVIOUS
<1>1. now \in Nat /\ (subject = "throttle" => now = 1)
  BY DEF Init
<1>2. /\ T!throttle_init /\ C!cooldown_init /\ S!suppress_init /\ D!debounce_init
      /\ R!Init
  BY Zenon DEF Init
<1>3. Quiet
  BY <1>2 DEF Quiet, T!throttle_init, C!cooldown_init, S!suppress_init
<1>4. subject = "throttle" => T!TypeOK
  BY <1>1, <1>2 DEF T!throttle_init, T!TypeOK
<1>5. C!TypeOK /\ SuppressInv /\ DebounceInv /\ DelayInv
  BY <1>1, <1>2, CooldownInitTypes, SuppressInit, DebounceInit, DelayInit
<1> QED  BY <1>1, <1>3, <1>4, <1>5 DEF GatesInv

\* It is kept by every step, as that is one of each gate.
LEMMA GatesInvStep == GatesInv /\ [Next]_vars => GatesInv'
<1> SUFFICES ASSUME GatesInv, [Next]_vars PROVE GatesInv'
  OBVIOUS
<1>1. /\ [T!Next]_(T!vars) /\ [C!Next]_(C!vars) /\ [S!Next]_(S!vars)
      /\ [D!Next]_(D!vars) /\ [R!Next]_(R!vars)
      /\ Quiet' /\ subject' = subject /\ (now' = now \/ TimePasses)
  BY EachGateSteps DEF GatesInv
<1>2. now' \in Nat
  BY <1>1 DEF GatesInv, TimePasses
<1>3. subject' = "throttle" => T!TypeOK'
  BY <1>1, ThrottleTypes DEF GatesInv
<1>4. C!TypeOK' /\ SuppressInv' /\ DebounceInv' /\ DelayInv'
  BY <1>1, CooldownTypes, SuppressInvStep, DebounceInvStep, DelayStep DEF GatesInv
<1> QED  BY <1>1, <1>2, <1>3, <1>4, Zenon DEF GatesInv

\* The inductive invariant of the gates, from which their properties follow.
THEOREM GatesInvariant == Spec => []GatesInv
BY GatesInitInv, GatesInvStep, PTL DEF Spec

\* For every configuration, every gate keeps its types, used or not.
THEOREM GatesTypeCorrect == Spec => []TypeOK
<1>1. GatesInv => TypeOK
  BY DEF GatesInv, SuppressInv, DebounceInv, DelayInv, TypeOK
<1> QED  BY <1>1, GatesInvariant, PTL

\* At any time and for any period, cooldown_ready and cooldown_remaining_ms tell
\* whether a trigger is let through, and for how long it will not be.
THEOREM GatesForetell == Spec => []ReadyForetells
<1>1. GatesInv => ReadyForetells
  BY QuestionsFollowTypes DEF GatesInv, ReadyForetells
<1> QED  BY <1>1, GatesInvariant, PTL

\* For every window, limit and clock width, a timed suppression lasts exactly its
\* window, no more than twice the limit passes in any window, and events are
\* suppressed only behind the limit of an open one (suppress_record,
\* suppress_check).
THEOREM GatesSuppressJustly == Spec => []SuppressionJust
<1>1. GatesInv => SuppressionJust
  BY SuppressesTimely, SuppressesBursts, SuppressesForCause DEF GatesInv, SuppressionJust
<1> QED  BY <1>1, GatesInvariant, PTL

\* For every window and count, a debouncer accepts bursts only, and misses no
\* long one (debounce_update).
THEOREM GatesAcceptBursts == Spec => []AcceptsBursts
<1>1. GatesInv => AcceptsBursts
  BY DebounceInvSuffices DEF GatesInv, AcceptsBursts
<1> QED  BY <1>1, GatesInvariant, PTL

\* For every word width and configuration, the delays of a backoff follow its law
\* and jitter keeps them in its band (backoff_next, jitter_apply).
THEOREM GatesDelayLawfully == Spec => []DelaysKeepToLaw
<1>1. GatesInv => DelaysKeepToLaw
  BY DEF GatesInv, DelayInv, BackoffInv, DelaysKeepToLaw
<1> QED  BY <1>1, GatesInvariant, PTL

-----------------------------------------------------------------------------
\* A throttle that is not used only sees the time pass, and so does its gate.
LEMMA IdleThrottleRefines ==
  ASSUME GatesInv, [Next]_vars
  PROVE  [T!Gate!Next]_(T!Gate!gateVars)
<1>1. /\ [T!Next]_(T!vars) /\ (now' = now \/ TimePasses) /\ now \in Nat
  BY EachGateSteps DEF GatesInv
<1>2. CASE subject = "throttle"
  BY <1>1, <1>2, ThrottleRefines DEF GatesInv
<1>3. CASE subject # "throttle"
  <2>1. allowed = "none" /\ UNCHANGED throttleVars
    <3>1. CASE Next
      BY <1>3, <3>1, Zenon
      DEF Next, UseThrottle, UseCooldown, UseSuppress, UseDebounce, UseBackoff, UseJitter,
          gateVars, Quiet, GatesInv
    <3>2. CASE UNCHANGED vars
      BY <1>3, <3>2 DEF vars, gateVars, throttleVars, Quiet, GatesInv
    <3> QED  BY <3>1, <3>2
  <2>2. CASE now' = now
    BY <2>1, <2>2 DEF throttleVars, T!Gate!gateVars
  <2>3. CASE TimePasses
    <3>1. now' > now
      BY <1>1, <2>3 DEF TimePasses
    <3>2. T!Gate!Tick
      BY <2>1, <3>1 DEF throttleVars, T!Gate!Tick
    <3> QED  BY <3>2 DEF T!Gate!Next
  <2> QED  BY <1>1, <2>2, <2>3
<1> QED  BY <1>2, <1>3

\* For every interval and period the throttle and the cooldown implement the same
\* abstract rate limiter (throttle_allow, cooldown_trigger).
THEOREM GatesAreRateGates == Spec => GatesLimitRate
<1>1. Init => T!Gate!Init /\ C!Gate!Init
  BY DEF Init, T!throttle_init, C!cooldown_init, T!Gate!Init, C!Gate!Init
<1>2. GatesInv /\ [Next]_vars => [T!Gate!Next]_(T!Gate!gateVars)
  BY IdleThrottleRefines
<1>3. GatesInv /\ [Next]_vars => [C!Gate!Next]_(C!Gate!gateVars)
  BY EachGateSteps, CooldownRefines DEF GatesInv
<1> QED
  BY <1>1, <1>2, <1>3, GatesInvariant, PTL
  DEF Spec, GatesLimitRate, T!ImplementsRateGate, C!ImplementsRateGate,
      T!Gate!Spec, C!Gate!Spec
=============================================================================
