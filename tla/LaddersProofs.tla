--------------------------- MODULE LaddersProofs ---------------------------
(***************************************************************************)
(* Theorems about the components that compare a value with limits, that    *)
(* judge and that measure (MCLadders), for every value of the constants.   *)
(* Each component has an inductive invariant of its own: what the run      *)
(* checks, with what it takes to keep it.  As none of the components       *)
(* disturbs another, what is true of each is true of all side by side.     *)
(***************************************************************************)
EXTENDS MCLadders, SequenceTheorems, FiniteSetTheorems, TLAPS

-----------------------------------------------------------------------------
(* What the components keep between two calls, and remember of the calls.  *)

\* Triggers raise the level at least as far as it is.
EscalateInv == E!TypeOK /\ current_level <= E!LevelAt(trigger_count)

\* The length of the present stay is ticks_at_level, and the level acts at the
\* update that completes what it needs.
Needs == LET n == levels[casLevel].sustain_ticks IN IF n > 0 THEN n ELSE 1

Begin == Len(casSeen) - ticks_at_level

CascadeRecord == [level : Nat, action : {"none", "log", "alert", "throttle", "kill"}]

CascadeInv ==
  /\ levels \in Seq([threshold_kb : Nat, sustain_ticks : Nat,
                     action : {"log", "alert", "throttle", "kill"}])
  /\ C!TypeOK
  /\ casSeen \in Seq(CascadeRecord)
  /\ casSeen = <<>> => casLevel = 0
  /\ casSeen # <<>> => casSeen[Len(casSeen)].level = casLevel
  /\ casLevel > 0 =>
       /\ ticks_at_level > 0 /\ ticks_at_level <= Len(casSeen)
       /\ \A i \in 1..Len(casSeen) : i > Begin =>
            /\ casSeen[i].level = casLevel
            /\ casSeen[i].action # "none" <=> i - Begin = Needs
       /\ Begin > 0 => casSeen[Begin].level # casLevel
       /\ fired <=> ticks_at_level >= Needs

FenceInv == F!TypeOK /\ fenSeen \in Seq(Sizes) /\ F!CountsOnce

QuotaInv == Q!TypeOK /\ Q!StatusIsVerdict

BudgetInv == B!TypeOK /\ budSeen \in Seq(Sizes) /\ B!BudgetTrue

GuardInv == G!TypeOK /\ answers \in Seq(G!Actions) /\ G!RunIsUnbroken

\* There is a last breach, so that it makes sense to speak of it.
CeilingInv ==
  /\ L!TypeOK /\ ceiSeen \in Seq(Longs) /\ L!ActiveHasHysteresis
  /\ L!Breaches # {} => \E i \in L!Breaches : \A j \in L!Breaches : j <= i

\* The numbers given so far are those below made, and a thread that is about
\* to draw one has seen none but these.
ProbeRecord == [kind : P!Kinds, value_kb : Readings \cup {0}, baseline_kb : Int, delta_kb : Int]

NumberedRecord == [kind : P!Kinds, value_kb : Readings \cup {0}, baseline_kb : Int,
                   delta_kb : Int, seq : P!Words]

Busy == {t \in Threads : making[t] # Nobody}

MakingTrue(t) ==
  making[t] # Nobody =>
    /\ probes[t] = Nobody
    /\ making[t].baseline_kb = making[t].value_kb /\ making[t].delta_kb = 0

ProbeTrue(t) ==
  probes[t] # Nobody =>
    /\ made <= SeqMod => probes[t].seq < made /\ \A s \in earlier[t] : s < probes[t].seq
    /\ probes[t].value_kb = spans[t][2]
    /\ probes[t].delta_kb = spans[t][2] - spans[t][1]
    /\ probes[t].kind # "DELTA" => probes[t].baseline_kb = spans[t][1]

ProbeInv ==
  /\ g_seq \in P!Words /\ made \in Nat /\ numbered \subseteq P!Words
  /\ making \in [Threads -> ProbeRecord \cup {Nobody}]
  /\ probes \in [Threads -> NumberedRecord \cup {Nobody}]
  /\ spans \in [Threads -> Int \X Int]
  /\ earlier \in [Threads -> SUBSET numbered]
  /\ made <= SeqMod => numbered = 0..(made - 1)
  /\ g_seq = made % SeqMod
  /\ made + Cardinality(Busy) <= MaxProbes
  /\ \A t \in Threads : MakingTrue(t) /\ ProbeTrue(t)

\* A sink writes just what it accepts, and is not set up again without
\* forgetting what it wrote.
SinkRecord == [type : {"STDERR", "FILE", "CUSTOM"}, usable : BOOLEAN,
               min_severity : V!Severities]

Reports == [current_kb : Sizes, baseline_kb : Sizes]

Severity(report) == V!anomaly_report_severity(report.current_kb, report.baseline_kb)

VerdictsInv ==
  /\ samples \in Seq(Climbs) /\ Len(samples) <= MaxClimb
  /\ vitals \in V!Vitals
  /\ pressureCfg \in [1..4 -> Sizes]
  /\ sample # Nobody =>
       sample.rss_kb \in Sizes /\ sample.level \in 0..4 /\ sample.usage_ratio[2] > 0
  /\ sink \in SinkRecord
  /\ written \subseteq Reports /\ dropped \subseteq Reports
  /\ \A w \in written : V!Accepts(Severity(w))
  /\ \A d \in dropped : ~V!Accepts(Severity(d))

-----------------------------------------------------------------------------
(* Sequences that grow, and what is counted in them.                       *)

\* An element is appended, and the others stay.
LEMMA AppendFacts ==
  ASSUME NEW S1, NEW s \in Seq(S1), NEW e \in S1, NEW t, t = Append(s, e)
  PROVE  /\ t \in Seq(S1) /\ Len(s) \in Nat /\ Len(t) = Len(s) + 1
         /\ DOMAIN s = 1..Len(s) /\ DOMAIN t = 1..(Len(s) + 1)
         /\ t[Len(s) + 1] = e /\ t # <<>>
         /\ \A i \in 1..Len(s) : t[i] = s[i]
BY AppendProperties, LenProperties, EmptySeq

\* The elements of a sequence, by their positions.
LEMMA SeqFacts ==
  ASSUME NEW S1, NEW s \in Seq(S1)
  PROVE  /\ Len(s) \in Nat /\ DOMAIN s = 1..Len(s)
         /\ \A i \in 1..Len(s) : s[i] \in S1
         /\ s = <<>> <=> Len(s) = 0
BY LenProperties, ElementOfSeq, EmptySeq

\* One more position, which counts or does not.
LEMMA CountNext ==
  ASSUME NEW n \in Nat, NEW A \in SUBSET (1..n), NEW D,
         D = A \cup {n + 1} \/ D = A
  PROVE  /\ IsFiniteSet(A) /\ IsFiniteSet(D) /\ Cardinality(A) \in Nat
         /\ D = A \cup {n + 1} => Cardinality(D) = Cardinality(A) + 1
<1>1. IsFiniteSet(1..n)
  BY FS_Interval
<1>2. IsFiniteSet(A) /\ Cardinality(A) \in Nat
  BY <1>1, FS_Subset, FS_CardinalityType
<1>3. n + 1 \notin A
  OBVIOUS
<1>4. IsFiniteSet(A \cup {n + 1}) /\ Cardinality(A \cup {n + 1}) = Cardinality(A) + 1
  BY <1>2, <1>3, FS_AddElement
<1> QED  BY <1>2, <1>4

\* Every instance's Cardinality is the one that these lemmas are about.
LEMMA SameCardinality ==
  ASSUME NEW A
  PROVE  /\ G!Cardinality(A) = Cardinality(A) /\ F!Cardinality(A) = Cardinality(A)
         /\ B!Cardinality(A) = Cardinality(A) /\ L!Cardinality(A) = Cardinality(A)
         /\ C!Cardinality(A) = Cardinality(A) /\ P!Cardinality(A) = Cardinality(A)
BY DEF G!Cardinality, F!Cardinality, B!Cardinality, L!Cardinality, C!Cardinality,
       P!Cardinality, Cardinality

-----------------------------------------------------------------------------
(* The guard.                                                              *)

Kills == {i \in DOMAIN answers : answers[i] = "kill"}

\* An answer is one of the actions, and goes on with the run unless it is none.
LEMMA GuardChecks ==
  ASSUME GuardInv, NEW a \in G!Actions,
         guaBreaches' = G!Run(a), answers' = Append(answers, a),
         hard_breach_count' = hard_breach_count + (IF a = "kill" THEN 1 ELSE 0)
  PROVE  answers' \in Seq(G!Actions) /\ G!RunIsUnbroken'
<1> DEFINE n == Len(answers)
<1>1. /\ answers' \in Seq(G!Actions) /\ n \in Nat /\ Len(answers') = n + 1
      /\ DOMAIN answers = 1..n /\ DOMAIN answers' = 1..(n + 1)
      /\ answers'[n + 1] = a /\ \A i \in 1..n : answers'[i] = answers[i]
  BY AppendFacts DEF GuardInv
<1>2. /\ guaBreaches \in Nat /\ hard_breach_count \in Nat /\ guaBreaches <= n
      /\ \A i \in 1..n : i > n - guaBreaches => answers[i] # "none"
      /\ guaBreaches < n => answers[n - guaBreaches] = "none"
      /\ hard_breach_count = Cardinality(Kills)
  BY <1>1, SameCardinality DEF GuardInv, G!TypeOK, G!RunIsUnbroken, Kills
<1> HIDE DEF n
<1>3. hard_breach_count' = Cardinality(Kills')
  <2>1. Kills \in SUBSET (1..n)
    BY <1>1 DEF Kills
  <2>2. Kills' = IF a = "kill" THEN Kills \cup {n + 1} ELSE Kills
    BY <1>1 DEF Kills
  <2> QED  BY <1>1, <1>2, <2>1, <2>2, CountNext
<1>a. hard_breach_count' = G!Cardinality({i \in DOMAIN answers' : answers'[i] = "kill"})
  BY <1>3, SameCardinality DEF Kills
<1>4. CASE a = "none"
  <2>1. guaBreaches' = 0
    BY <1>4 DEF G!Run
  <2>2. \A i \in 1..(n + 1) : i > (n + 1) - guaBreaches' => answers'[i] # "none"
    BY <1>1, <2>1
  <2>3. guaBreaches' < n + 1 => answers'[n + 1 - guaBreaches'] = "none"
    BY <1>1, <1>4, <2>1
  <2>4. guaBreaches' <= n + 1
    BY <1>1, <2>1
  <2>5. /\ guaBreaches' <= Len(answers')
        /\ \A i \in DOMAIN answers' : i > Len(answers') - guaBreaches' => answers'[i] # "none"
        /\ guaBreaches' < Len(answers') => answers'[Len(answers') - guaBreaches'] = "none"
    <3>1. guaBreaches' <= Len(answers')
      BY <1>1, <2>4
    <3>2. \A i \in DOMAIN answers' : i > Len(answers') - guaBreaches' => answers'[i] # "none"
      BY <1>1, <2>2, Zenon
    <3>3. guaBreaches' < Len(answers') => answers'[Len(answers') - guaBreaches'] = "none"
      BY <1>1, <1>2, <2>1, <2>3
    <3> QED  BY <3>1, <3>2, <3>3
  <2> QED  BY <1>1, <1>a, <2>5, Zenon DEF G!RunIsUnbroken
<1>5. CASE a # "none"
  <2>1. guaBreaches' = guaBreaches + 1
    BY <1>5 DEF G!Run
  <2>2. \A i \in 1..(n + 1) : i > (n + 1) - guaBreaches' => answers'[i] # "none"
    <3> SUFFICES ASSUME NEW i \in 1..(n + 1), i > n - guaBreaches
                 PROVE  answers'[i] # "none"
      BY <1>1, <1>2, <2>1
    <3>1. CASE i = n + 1
      BY <1>1, <1>5, <3>1
    <3>2. CASE i # n + 1
      <4>1. i \in 1..n
        BY <1>1, <3>2
      <4> QED  BY <1>1, <1>2, <4>1
    <3> QED  BY <3>1, <3>2
  <2>3. guaBreaches' < n + 1 => answers'[n + 1 - guaBreaches'] = "none"
    <3> SUFFICES ASSUME guaBreaches < n
                 PROVE  answers'[n + 1 - guaBreaches'] = "none"
      BY <1>1, <1>2, <2>1
    <3>1. n + 1 - guaBreaches' = n - guaBreaches /\ n - guaBreaches \in 1..n
      BY <1>1, <1>2, <2>1
    <3> QED  BY <1>1, <1>2, <3>1
  <2>4. guaBreaches' <= n + 1
    BY <1>1, <1>2, <2>1
  <2>5. /\ guaBreaches' <= Len(answers')
        /\ \A i \in DOMAIN answers' : i > Len(answers') - guaBreaches' => answers'[i] # "none"
        /\ guaBreaches' < Len(answers') => answers'[Len(answers') - guaBreaches'] = "none"
    <3>1. guaBreaches' <= Len(answers')
      BY <1>1, <2>4
    <3>2. \A i \in DOMAIN answers' : i > Len(answers') - guaBreaches' => answers'[i] # "none"
      BY <1>1, <2>2, Zenon
    <3>3. guaBreaches' < Len(answers') => answers'[Len(answers') - guaBreaches'] = "none"
      BY <1>1, <1>2, <2>1, <2>3
    <3> QED  BY <3>1, <3>2, <3>3
  <2> QED  BY <1>1, <1>a, <2>5, Zenon DEF G!RunIsUnbroken
<1> QED  BY <1>4, <1>5

\* Every step of a guard keeps the run it counts unbroken.
LEMMA GuardStep == GuardInv /\ [G!Next]_(G!vars) => GuardInv'
<1> SUFFICES ASSUME GuardInv, [G!Next]_(G!vars) PROVE GuardInv'
  OBVIOUS
<1> USE DEF G!limits, G!counts
<1>0. /\ guaSoft \in Sizes /\ guaHard \in Sizes /\ last_value \in Sizes
      /\ action \in G!Actions /\ armed \in BOOLEAN
      /\ guaBreaches \in Nat /\ hard_breach_count \in Nat
      /\ answers \in Seq(G!Actions) /\ G!RunIsUnbroken
  BY DEF GuardInv, G!TypeOK
<1>1. CASE G!guard_arm \/ G!guard_disarm
  <2>1. armed' \in BOOLEAN
    BY <1>1, Zenon DEF G!guard_arm, G!guard_disarm
  <2> QED
    BY <1>0, <1>1, <2>1 DEF G!guard_arm, G!guard_disarm, GuardInv, G!TypeOK, G!RunIsUnbroken
<1>2. CASE G!guard_reset
  <2>1. /\ guaBreaches' = 0 /\ hard_breach_count' = 0 /\ last_value' = 0 /\ answers' = <<>>
        /\ UNCHANGED <<guaSoft, guaHard, action, armed>>
    BY <1>2 DEF G!guard_reset
  <2>2. answers' \in Seq(G!Actions) /\ Len(answers') = 0 /\ DOMAIN answers' = {}
    BY <2>1, EmptySeq
  <2>3. Cardinality({}) = 0 /\ {i \in DOMAIN answers' : answers'[i] = "kill"} = {}
    BY <2>2, FS_EmptySet
  <2>4. G!RunIsUnbroken'
    BY <2>1, <2>2, <2>3, SameCardinality DEF G!RunIsUnbroken
  <2> QED  BY <1>0, <2>1, <2>2, <2>4, SizesAssumption DEF GuardInv, G!TypeOK
<1>3. CASE G!fence_policy_set_action
  BY <1>0, <1>3 DEF G!fence_policy_set_action, GuardInv, G!TypeOK, G!RunIsUnbroken
<1>4. CASE G!CheckArmed
  <2>1. PICK v \in Sizes :
          /\ last_value' = v /\ guaBreaches' = G!Run(G!fence_policy_evaluate(v))
          /\ hard_breach_count' = hard_breach_count
               + (IF G!fence_policy_evaluate(v) = "kill" THEN 1 ELSE 0)
          /\ answers' = Append(answers, G!fence_policy_evaluate(v))
          /\ UNCHANGED <<guaSoft, guaHard, action, armed>>
    BY <1>4 DEF G!CheckArmed
  <2>2. G!fence_policy_evaluate(v) \in G!Actions
    BY <1>0 DEF G!fence_policy_evaluate, G!Actions
  <2>3. answers' \in Seq(G!Actions) /\ G!RunIsUnbroken'
    BY <2>1, <2>2, GuardChecks
  <2>4. guaBreaches' \in Nat /\ hard_breach_count' \in Nat
    BY <1>0, <2>1 DEF G!Run
  <2> QED  BY <1>0, <2>1, <2>3, <2>4 DEF GuardInv, G!TypeOK
<1>5. CASE UNCHANGED G!vars
  BY <1>5 DEF G!vars, GuardInv, G!TypeOK, G!RunIsUnbroken
<1> QED
  BY <1>1, <1>2, <1>3, <1>4, <1>5 DEF G!Next, G!guard_check, G!CheckDisarmed

\* A fresh guard has counted nothing.
LEMMA GuardInit == G!Init => GuardInv
<1> SUFFICES ASSUME G!Init PROVE GuardInv
  OBVIOUS
<1>1. /\ guaSoft \in Sizes /\ guaHard \in Sizes /\ action = "warn" /\ guaBreaches = 0
      /\ hard_breach_count = 0 /\ last_value = 0 /\ answers = <<>>
  BY DEF G!Init
<1>2. armed \in BOOLEAN
  BY Zenon DEF G!Init
<1>3. answers \in Seq(G!Actions) /\ Len(answers) = 0 /\ DOMAIN answers = {}
  BY <1>1, EmptySeq
<1>4. Cardinality({}) = 0 /\ {i \in DOMAIN answers : answers[i] = "kill"} = {}
  BY <1>3, FS_EmptySet
<1>5. G!RunIsUnbroken
  BY <1>1, <1>3, <1>4, SameCardinality DEF G!RunIsUnbroken
<1> QED
  BY <1>1, <1>2, <1>3, <1>5, SizesAssumption DEF GuardInv, G!TypeOK, G!Actions

\* For all sizes and limits: breach_count is the length of the unbroken run of
\* answers that called for something (guard_check).
THEOREM GuardIsTrue == G!Spec => []G!RunIsUnbroken
<1>1. GuardInv => G!RunIsUnbroken
  BY DEF GuardInv
<1> QED  BY <1>1, GuardInit, GuardStep, PTL DEF G!Spec

-----------------------------------------------------------------------------
(* The quota.                                                              *)

\* A check or a reset keeps the answers of a quota true (quota_check, quota_reset).
LEMMA QuotaStep == QuotaInv /\ [Q!Next]_(Q!vars) => QuotaInv'
<1> SUFFICES ASSUME QuotaInv, [Q!Next]_(Q!vars) PROVE QuotaInv'
  OBVIOUS
<1> USE DEF Q!OK, Q!WARN, Q!EXCEEDED
<1>0. /\ soft_limit_kb \in Nat /\ hard_limit_kb \in Nat /\ quoCurrent \in Nat
      /\ {soft_limit_kb, hard_limit_kb, quoCurrent} \subseteq Sizes
      /\ quoExceeds \in Nat /\ quoWarns \in Nat /\ verdict \in 0..2
  BY SizesAssumption DEF QuotaInv, Q!TypeOK
<1>1. CASE Q!quota_reset
  BY <1>0, <1>1, SizesAssumption DEF Q!quota_reset, QuotaInv, Q!TypeOK, Q!StatusIsVerdict, Q!quota_status
<1>2. CASE Q!quota_check
  <2>1. PICK kb \in Sizes :
          /\ quoCurrent' = kb
          /\ Q!CheckExceeded(kb) \/ Q!CheckWarn(kb) \/ Q!CheckOk(kb)
    BY <1>2 DEF Q!quota_check
  <2>2. UNCHANGED <<soft_limit_kb, hard_limit_kb>>
    BY <1>2 DEF Q!quota_check
  <2>3. CASE Q!CheckExceeded(kb)
    BY <1>0, <2>1, <2>2, <2>3, SizesAssumption
       DEF Q!CheckExceeded, QuotaInv, Q!TypeOK, Q!StatusIsVerdict, Q!quota_status
  <2>4. CASE Q!CheckWarn(kb)
    BY <1>0, <2>1, <2>2, <2>4, SizesAssumption
       DEF Q!CheckWarn, QuotaInv, Q!TypeOK, Q!StatusIsVerdict, Q!quota_status
  <2>5. CASE Q!CheckOk(kb)
    BY <1>0, <2>1, <2>2, <2>5, SizesAssumption
       DEF Q!CheckOk, QuotaInv, Q!TypeOK, Q!StatusIsVerdict, Q!quota_status
  <2> QED  BY <2>1, <2>3, <2>4, <2>5
<1>3. CASE UNCHANGED Q!vars
  BY <1>0, <1>3 DEF Q!vars, QuotaInv, Q!TypeOK, Q!StatusIsVerdict, Q!quota_status
<1> QED  BY <1>1, <1>2, <1>3 DEF Q!Next

\* A fresh quota has answered nothing.
LEMMA QuotaInit == Q!Init => QuotaInv
BY SizesAssumption
   DEF Q!Init, QuotaInv, Q!TypeOK, Q!StatusIsVerdict, Q!quota_status, Q!OK, Q!WARN, Q!EXCEEDED

\* For all sizes and limits: quota_status, worked out again from what is kept,
\* is what the last quota_check since the reset answered.
THEOREM QuotaIsTrue == Q!Spec => []Q!StatusIsVerdict
<1>1. QuotaInv => Q!StatusIsVerdict
  BY DEF QuotaInv
<1> QED  BY <1>1, QuotaInit, QuotaStep, PTL DEF Q!Spec

-----------------------------------------------------------------------------
(* The budget and its policy.                                              *)

Exceeding == {i \in DOMAIN budSeen : limit_kb > 0 /\ budSeen[i] >= limit_kb}

\* An update keeps what a budget counts true (budget_update).
LEMMA BudgetUpdates ==
  ASSUME BudgetInv, B!budget_update PROVE BudgetInv'
<1>1. PICK kb \in Sizes :
        /\ budCurrent' = kb
        /\ budPeak' = (IF kb > budPeak THEN kb ELSE budPeak)
        /\ budExceeds' = budExceeds + (IF B!Exceeds(kb) THEN 1 ELSE 0)
        /\ status' = B!Status(kb) /\ kept' = kept \cup {B!Status(kb)}
        /\ budSeen' = Append(budSeen, kb)
  BY DEF B!budget_update
<1>2. /\ limit_kb' = limit_kb /\ warn_threshold_kb' = warn_threshold_kb
  BY DEF B!budget_update, B!fixed
<1>3. /\ limit_kb \in Nat /\ budPeak \in Nat /\ kb \in Nat /\ budPeak \in Sizes
      /\ {limit_kb, warn_threshold_kb, budCurrent, budPeak} \subseteq Sizes
      /\ budExceeds \in Nat /\ budSeen \in Seq(Sizes)
      /\ budExceeds = Cardinality(Exceeding)
      /\ \A i \in DOMAIN budSeen : budSeen[i] <= budPeak
  BY SizesAssumption, SameCardinality DEF BudgetInv, B!TypeOK, B!BudgetTrue, Exceeding
<1> DEFINE n == Len(budSeen)
<1>4. /\ budSeen' \in Seq(Sizes) /\ n \in Nat /\ Len(budSeen') = n + 1
      /\ DOMAIN budSeen = 1..n /\ DOMAIN budSeen' = 1..(n + 1)
      /\ budSeen'[n + 1] = kb /\ \A i \in 1..n : budSeen'[i] = budSeen[i]
      /\ budSeen' # <<>>
  BY <1>1, <1>3, AppendFacts, SMTT(30)
<1>5. \A i \in 1..n : budSeen[i] \in Nat
  BY <1>3, <1>4, SeqFacts, SizesAssumption
<1> HIDE DEF n
<1>6. budExceeds' = Cardinality(Exceeding') /\ budExceeds' \in Nat
  <2>1. Exceeding \in SUBSET (1..n)
    BY <1>4 DEF Exceeding
  <2>2. Exceeding' = IF B!Exceeds(kb) THEN Exceeding \cup {n + 1} ELSE Exceeding
    BY <1>2, <1>4 DEF Exceeding, B!Exceeds
  <2> QED  BY <1>1, <1>3, <1>4, <2>1, <2>2, CountNext
<1>7. budExceeds' = B!Cardinality({i \in DOMAIN budSeen' :
                                     limit_kb' > 0 /\ budSeen'[i] >= limit_kb'})
  BY <1>6, SameCardinality DEF Exceeding
<1>8. budPeak' \in Sizes /\ budPeak' \in Nat /\ budPeak' >= kb /\ budPeak' >= budPeak
  BY <1>1, <1>3
<1>9. \A i \in DOMAIN budSeen' : budSeen'[i] <= budPeak'
  BY <1>3, <1>4, <1>5, <1>8, SMTT(30)
<1>10. status' = "exceeded" <=> B!Exceeds(kb)
  BY <1>1 DEF B!Status
<1>11. B!budget_is_exceeded' <=> B!Exceeds(kb)
  BY <1>1, <1>2 DEF B!budget_is_exceeded, B!Exceeds
<1>12. B!BudgetTrue'
  BY <1>4, <1>7, <1>9, <1>10, <1>11, Zenon DEF B!BudgetTrue
<1>13. kept' \subseteq {"ok", "warn", "exceeded"} /\ status' \in {"none"} \cup kept'
  BY <1>1 DEF B!Status, BudgetInv, B!TypeOK
<1>14. {limit_kb', warn_threshold_kb', budCurrent', budPeak'} \subseteq Sizes
  BY <1>1, <1>2, <1>3, <1>8
<1> QED  BY <1>4, <1>6, <1>12, <1>13, <1>14, Zenon DEF BudgetInv, B!TypeOK

\* A reset of the budget forgets all it counted (budget_reset).
LEMMA BudgetResets ==
  ASSUME BudgetInv, B!budget_reset PROVE BudgetInv'
<1>1. /\ budCurrent' = 0 /\ budPeak' = 0 /\ budExceeds' = 0 /\ budSeen' = <<>>
      /\ limit_kb' = limit_kb /\ warn_threshold_kb' = warn_threshold_kb
      /\ status' = status /\ kept' = kept
  BY DEF B!budget_reset, B!fixed
<1>2. budSeen' \in Seq(Sizes) /\ DOMAIN budSeen' = {}
  BY <1>1, EmptySeq
<1>3. B!Cardinality({i \in DOMAIN budSeen' : limit_kb' > 0 /\ budSeen'[i] >= limit_kb'}) = 0
  <2>1. {i \in DOMAIN budSeen' : limit_kb' > 0 /\ budSeen'[i] >= limit_kb'} = {}
    BY <1>2
  <2> QED  BY <2>1, FS_EmptySet, SameCardinality
<1>4. limit_kb \in Nat /\ {limit_kb, warn_threshold_kb} \subseteq Sizes
  BY SizesAssumption DEF BudgetInv, B!TypeOK
<1>5. ~B!budget_is_exceeded'
  BY <1>1, <1>4 DEF B!budget_is_exceeded
<1>6. B!BudgetTrue'
  BY <1>1, <1>2, <1>3, <1>5, Zenon DEF B!BudgetTrue
<1>7. /\ {limit_kb', warn_threshold_kb', budCurrent', budPeak'} \subseteq Sizes
      /\ budExceeds' \in Nat
  BY <1>1, <1>4, SizesAssumption
<1>8. kept' \subseteq {"ok", "warn", "exceeded"} /\ status' \in {"none"} \cup kept'
  BY <1>1 DEF BudgetInv, B!TypeOK
<1> QED  BY <1>2, <1>6, <1>7, <1>8, Zenon DEF BudgetInv, B!TypeOK

\* Every step of a budget and its policy keeps what it counts true.
LEMMA BudgetStep == BudgetInv /\ [B!Next]_(B!vars) => BudgetInv'
<1> SUFFICES ASSUME BudgetInv, [B!Next]_(B!vars) PROVE BudgetInv'
  OBVIOUS
<1>1. CASE UNCHANGED B!vars
  <2>1. /\ limit_kb' = limit_kb /\ warn_threshold_kb' = warn_threshold_kb
        /\ budCurrent' = budCurrent /\ budPeak' = budPeak /\ budExceeds' = budExceeds
        /\ status' = status /\ kept' = kept /\ budSeen' = budSeen
    BY <1>1 DEF B!vars
  <2> QED  BY <2>1, Zenon DEF BudgetInv, B!TypeOK, B!BudgetTrue, B!budget_is_exceeded
<1>2. CASE B!budget_policy_evaluate
  <2>1. PICK st \in kept : B!EvaluateWith(st)
    BY <1>2 DEF B!budget_policy_evaluate
  <2>2. B!budget_reset \/ UNCHANGED B!vars
    BY <2>1 DEF B!EvaluateWith, B!EvaluateActs, B!EvaluateOk
  <2> QED  BY <1>1, <2>2, BudgetResets
<1> QED  BY <1>1, <1>2, BudgetUpdates, BudgetResets DEF B!Next

\* A fresh budget has counted nothing.
LEMMA BudgetInit == B!Init => BudgetInv
<1> SUFFICES ASSUME B!Init PROVE BudgetInv
  OBVIOUS
<1>1. /\ budCurrent = 0 /\ budPeak = 0 /\ budExceeds = 0 /\ budSeen = <<>>
      /\ status = "none" /\ kept = {} /\ limit_kb \in Sizes /\ warn_threshold_kb \in Sizes
  BY DEF B!Init
<1>2. budSeen \in Seq(Sizes) /\ DOMAIN budSeen = {}
  BY <1>1, EmptySeq
<1>3. B!Cardinality({i \in DOMAIN budSeen : limit_kb > 0 /\ budSeen[i] >= limit_kb}) = 0
  <2>1. {i \in DOMAIN budSeen : limit_kb > 0 /\ budSeen[i] >= limit_kb} = {}
    BY <1>2
  <2> QED  BY <2>1, FS_EmptySet, SameCardinality
<1>4. ~B!budget_is_exceeded
  BY <1>1, SizesAssumption DEF B!budget_is_exceeded
<1>5. B!BudgetTrue
  BY <1>1, <1>2, <1>3, <1>4, Zenon DEF B!BudgetTrue
<1>6. {limit_kb, warn_threshold_kb, budCurrent, budPeak} \subseteq Sizes /\ budExceeds \in Nat
  BY <1>1, SizesAssumption
<1> QED  BY <1>1, <1>2, <1>5, <1>6 DEF BudgetInv, B!TypeOK

\* The policy resets only on a verdict of ok, which, if it is that of the last
\* update, is not that of a budget that is exceeded: a reset before it has left
\* nothing to be exceeded.
LEMMA BudgetResetsRightly ==
  BudgetInv /\ [B!Next]_(B!vars) =>
    [B!EvaluateWith(status) /\ budExceeds' < budExceeds => ~B!budget_is_exceeded]_(B!vars)
<1> SUFFICES ASSUME BudgetInv, B!EvaluateWith(status), budExceeds' < budExceeds
             PROVE  ~B!budget_is_exceeded
  BY Zenon
<1>1. budExceeds \in Nat
  BY DEF BudgetInv, B!TypeOK
<1>2. CASE B!EvaluateActs(status)
  BY <1>1, <1>2 DEF B!EvaluateActs, B!vars
<1>3. CASE B!EvaluateOk(status)
  BY <1>3, Zenon DEF B!EvaluateOk, BudgetInv, B!BudgetTrue
<1> QED  BY <1>2, <1>3 DEF B!EvaluateWith

\* For all sizes and limits: the verdict, the count and the peak of a budget
\* are those of the updates since its reset.
THEOREM BudgetIsTrue == B!Spec => []B!BudgetTrue
<1>1. BudgetInv => B!BudgetTrue
  BY DEF BudgetInv
<1> QED  BY <1>1, BudgetInit, BudgetStep, PTL DEF B!Spec

\* ... and on the verdict of the last update the policy forgets no breach of a
\* budget that is exceeded.
THEOREM PolicyForgetsNothing == B!Spec => B!ResetsWithinLimit
BY BudgetInit, BudgetStep, BudgetResetsRightly, PTL DEF B!Spec, B!ResetsWithinLimit

-----------------------------------------------------------------------------
(* The fence.                                                              *)

Over(limit) == {i \in DOMAIN fenSeen : limit > 0 /\ fenSeen[i] >= limit}

\* One check more: it is over a limit or not, a breach or not, and both counts
\* keep their meaning.
LEMMA FenceChecks ==
  ASSUME FenceInv, F!fence_check PROVE FenceInv'
<1>1. PICK kb \in Sizes :
        /\ peak_kb' = (IF kb > peak_kb THEN kb ELSE peak_kb)
        /\ fenBreaches' = fenBreaches + (IF F!Breach(kb) THEN 1 ELSE 0)
        /\ fenWarns' = fenWarns + (IF F!Warn(kb) THEN 1 ELSE 0)
        /\ fenSeen' = Append(fenSeen, kb)
  BY DEF F!fence_check
<1>2. soft_kb' = soft_kb /\ hard_kb' = hard_kb
  BY DEF F!fence_check
<1>3. /\ {soft_kb, hard_kb, peak_kb} \subseteq Sizes /\ peak_kb \in Nat /\ kb \in Nat
      /\ soft_kb \in Nat /\ hard_kb \in Nat
      /\ fenWarns \in Nat /\ fenBreaches \in Nat /\ fenSeen \in Seq(Sizes)
      /\ fenBreaches = Cardinality(Over(hard_kb))
      /\ fenWarns + fenBreaches = Cardinality(Over(soft_kb) \cup Over(hard_kb))
      /\ \A i \in DOMAIN fenSeen : fenSeen[i] <= peak_kb
      /\ peak_kb > 0 => \E i \in DOMAIN fenSeen : fenSeen[i] = peak_kb
  BY SizesAssumption, SameCardinality DEF FenceInv, F!TypeOK, F!CountsOnce, F!Over, Over
<1> DEFINE n == Len(fenSeen)
<1>4. /\ fenSeen' \in Seq(Sizes) /\ n \in Nat /\ Len(fenSeen') = n + 1
      /\ DOMAIN fenSeen = 1..n /\ DOMAIN fenSeen' = 1..(n + 1)
      /\ fenSeen'[n + 1] = kb /\ \A i \in 1..n : fenSeen'[i] = fenSeen[i]
  BY <1>1, <1>3, AppendFacts
<1>5. \A i \in 1..n : fenSeen[i] \in Nat
  BY <1>3, <1>4, SeqFacts, SizesAssumption
<1> HIDE DEF n
<1> DEFINE OverNext(limit) == {i \in DOMAIN fenSeen' : limit > 0 /\ fenSeen'[i] >= limit}
<1>6. ASSUME NEW limit \in Nat
      PROVE  /\ Over(limit) \in SUBSET (1..n)
             /\ OverNext(limit) = IF limit > 0 /\ kb >= limit
                                  THEN Over(limit) \cup {n + 1} ELSE Over(limit)
  BY <1>4 DEF Over
<1> HIDE DEF OverNext
<1>7. fenBreaches' = Cardinality(OverNext(hard_kb)) /\ fenBreaches' \in Nat
  <2>1. OverNext(hard_kb) = IF F!Breach(kb) THEN Over(hard_kb) \cup {n + 1} ELSE Over(hard_kb)
    BY <1>3, <1>6 DEF F!Breach
  <2>2. Over(hard_kb) \in SUBSET (1..n)
    BY <1>3, <1>6
  <2>3. CASE F!Breach(kb)
    <3>1. Cardinality(OverNext(hard_kb)) = Cardinality(Over(hard_kb)) + 1
      BY <1>4, <2>1, <2>2, <2>3, CountNext
    <3> QED  BY <1>1, <1>3, <2>3, <3>1
  <2>4. CASE ~F!Breach(kb)
    BY <1>1, <1>3, <2>1, <2>4
  <2> QED  BY <2>3, <2>4
<1>8. /\ fenWarns' + fenBreaches' = Cardinality(OverNext(soft_kb) \cup OverNext(hard_kb))
      /\ fenWarns' \in Nat
  <2> DEFINE A == Over(soft_kb) \cup Over(hard_kb)
  <2> DEFINE N == OverNext(soft_kb) \cup OverNext(hard_kb)
  <2>1. A \in SUBSET (1..n)
    BY <1>3, <1>6
  <2>2. N = IF F!Breach(kb) \/ F!Warn(kb) THEN A \cup {n + 1} ELSE A
    BY <1>3, <1>6 DEF F!Breach, F!Warn
  <2>3. ~(F!Breach(kb) /\ F!Warn(kb))
    BY DEF F!Warn
  <2>4. fenWarns + fenBreaches = Cardinality(A)
    BY <1>3
  <2> HIDE DEF A, N
  <2>5. fenWarns' + fenBreaches' = Cardinality(N) /\ fenWarns' \in Nat
    <3>1. CASE F!Breach(kb) \/ F!Warn(kb)
      <4>1. Cardinality(N) = Cardinality(A) + 1
        BY <1>4, <2>1, <2>2, <3>1, CountNext
      <4> QED  BY <1>1, <1>3, <2>3, <2>4, <3>1, <4>1
    <3>2. CASE ~(F!Breach(kb) \/ F!Warn(kb))
      BY <1>1, <1>3, <2>2, <2>4, <3>2
    <3> QED  BY <3>1, <3>2
  <2> QED  BY <2>5 DEF N
<1>9. /\ fenBreaches' = F!Cardinality(F!Over(hard_kb)')
      /\ fenWarns' + fenBreaches' = F!Cardinality(F!Over(soft_kb)' \cup F!Over(hard_kb)')
  BY <1>2, <1>7, <1>8, SameCardinality DEF F!Over, OverNext
<1>10. /\ peak_kb' \in Sizes /\ peak_kb' \in Nat /\ peak_kb' >= kb /\ peak_kb' >= peak_kb
       /\ peak_kb' = kb \/ peak_kb' = peak_kb
  BY <1>1, <1>3
<1>11. \A i \in DOMAIN fenSeen' : fenSeen'[i] <= peak_kb'
  BY <1>3, <1>4, <1>5, <1>10, SMTT(30)
<1>12. peak_kb' > 0 => \E i \in DOMAIN fenSeen' : fenSeen'[i] = peak_kb'
  <2>1. CASE peak_kb' = kb
    BY <1>4, <2>1
  <2>2. CASE peak_kb' = peak_kb
    <3> SUFFICES ASSUME peak_kb > 0
                 PROVE  \E i \in DOMAIN fenSeen' : fenSeen'[i] = peak_kb'
      BY <1>3, <2>2
    <3>1. PICK i \in 1..n : fenSeen[i] = peak_kb
      BY <1>3, <1>4
    <3>2. i \in DOMAIN fenSeen'
      BY <1>4, <3>1
    <3> QED  BY <1>4, <2>2, <3>1, <3>2
  <2> QED  BY <1>10, <2>1, <2>2
<1>13. F!CountsOnce'
  BY <1>9, <1>11, <1>12, Zenon DEF F!CountsOnce
<1>14. {soft_kb', hard_kb', peak_kb'} \subseteq Sizes
  BY <1>2, <1>3, <1>10
<1> QED  BY <1>4, <1>7, <1>8, <1>13, <1>14, Zenon DEF FenceInv, F!TypeOK

\* A fresh fence has counted nothing.
LEMMA FenceInit == F!Init => FenceInv
<1> SUFFICES ASSUME F!Init PROVE FenceInv
  OBVIOUS
<1>0. /\ fenSeen = <<>> /\ fenWarns = 0 /\ fenBreaches = 0 /\ peak_kb = 0
      /\ soft_kb \in Sizes /\ hard_kb \in Sizes
  BY DEF F!Init
<1>1. fenSeen \in Seq(Sizes) /\ DOMAIN fenSeen = {}
  BY <1>0, EmptySeq
<1>2. F!Over(hard_kb) = {} /\ F!Over(soft_kb) \cup F!Over(hard_kb) = {}
  BY <1>1 DEF F!Over
<1>c. F!Cardinality({}) = 0
  BY FS_EmptySet, SameCardinality
<1>3. /\ fenBreaches = F!Cardinality(F!Over(hard_kb))
      /\ fenWarns + fenBreaches = F!Cardinality(F!Over(soft_kb) \cup F!Over(hard_kb))
  BY <1>0, <1>2, <1>c
<1>4. F!CountsOnce
  BY <1>0, <1>1, <1>3 DEF F!CountsOnce
<1> QED  BY <1>0, <1>1, <1>4, SizesAssumption DEF FenceInv, F!TypeOK

\* Every step of a fence keeps its counts true.
LEMMA FenceStep == FenceInv /\ [F!Next]_(F!vars) => FenceInv'
<1> SUFFICES ASSUME FenceInv, [F!Next]_(F!vars) PROVE FenceInv'
  OBVIOUS
<1>1. CASE UNCHANGED F!vars
  <2>1. /\ soft_kb' = soft_kb /\ hard_kb' = hard_kb /\ fenWarns' = fenWarns
        /\ fenBreaches' = fenBreaches /\ peak_kb' = peak_kb /\ fenSeen' = fenSeen
    BY <1>1 DEF F!vars
  <2> QED  BY <2>1, Zenon DEF FenceInv, F!TypeOK, F!CountsOnce, F!Over
<1>2. CASE F!fence_reset
  <2>1. /\ fenSeen' = <<>> /\ fenWarns' = 0 /\ fenBreaches' = 0 /\ peak_kb' = 0
        /\ soft_kb' \in Sizes /\ hard_kb' \in Sizes
    BY <1>2 DEF F!fence_reset, FenceInv, F!TypeOK
  <2>2. fenSeen' \in Seq(Sizes) /\ DOMAIN fenSeen' = {}
    BY <2>1, EmptySeq
  <2>3. F!Over(hard_kb)' = {} /\ F!Over(soft_kb)' \cup F!Over(hard_kb)' = {}
    BY <2>2 DEF F!Over
  <2>c. F!Cardinality({}) = 0
    BY FS_EmptySet, SameCardinality
  <2>4. /\ fenBreaches' = F!Cardinality(F!Over(hard_kb)')
        /\ fenWarns' + fenBreaches' = F!Cardinality(F!Over(soft_kb)' \cup F!Over(hard_kb)')
    BY <2>1, <2>3, <2>c
  <2>5. F!CountsOnce'
    BY <2>1, <2>2, <2>4 DEF F!CountsOnce
  <2> QED  BY <2>1, <2>2, <2>5, SizesAssumption DEF FenceInv, F!TypeOK
<1> QED  BY <1>1, <1>2, FenceChecks DEF F!Next

\* For all sizes and limits: every check over a limit is counted once, and the
\* peak is one of the values checked.
THEOREM FenceCountsOnce == F!Spec => []F!CountsOnce
<1>1. FenceInv => F!CountsOnce
  BY DEF FenceInv
<1> QED  BY <1>1, FenceInit, FenceStep, PTL DEF F!Spec

-----------------------------------------------------------------------------
(* The sentinel, which has no more to keep than its types.                 *)

\* Every step of a sentinel keeps its types.
LEMMA SentinelStep == S!TypeOK /\ [S!Next]_(S!vars) => S!TypeOK'
<1> SUFFICES ASSUME S!TypeOK, [S!Next]_(S!vars) PROVE S!TypeOK'
  OBVIOUS
<1> USE DEF S!OK, S!WARN, S!CRITICAL
<1>0. /\ warn_kb \in Sizes /\ critical_kb \in Sizes /\ last_value_kb \in Sizes
      /\ callback \in {"none", "quiet", "reset"} /\ state \in 0..2
      /\ trip_count \in 0..(CounterMod - 1) /\ heard \in [value_kb : Sizes, state : 0..2]
  BY DEF S!TypeOK
<1>1. CASE S!sentinel_set_callback
  BY <1>0, <1>1 DEF S!sentinel_set_callback, S!TypeOK
<1>2. CASE S!sentinel_reset \/ S!CheckTripsResets
  BY <1>0, <1>2, SizesAssumption, CounterAssumption
     DEF S!sentinel_reset, S!Forget, S!CheckTripsResets, S!Tells, S!StateOf, S!TypeOK
<1>3. CASE S!CheckTrips
  <2>1. (trip_count + 1) % CounterMod \in 0..(CounterMod - 1)
    BY <1>0, CounterAssumption
  <2> QED  BY <1>0, <1>3, <2>1 DEF S!CheckTrips, S!Tells, S!StateOf, S!TypeOK
<1>4. CASE S!CheckPasses
  BY <1>0, <1>4 DEF S!CheckPasses, S!StateOf, S!TypeOK
<1>5. CASE UNCHANGED S!vars
  BY <1>0, <1>5 DEF S!vars, S!TypeOK
<1> QED  BY <1>1, <1>2, <1>3, <1>4, <1>5 DEF S!Next, S!sentinel_check

\* A fresh sentinel is typed.
LEMMA SentinelInit == S!Init => S!TypeOK
BY SizesAssumption, CounterAssumption
   DEF S!Init, S!sentinel_init, S!TypeOK, S!OK, S!WARN, S!CRITICAL

\* A count that wraps is not the same after one step.
LEMMA CountMoves ==
  ASSUME NEW n \in 0..(CounterMod - 1)
  PROVE  (n + 1) % CounterMod # n /\ (n + 1) % CounterMod \in 0..(CounterMod - 1)
<1>1. CASE n + 1 = CounterMod
  <2>1. (n + 1) % CounterMod = 0
    BY <1>1, CounterAssumption
  <2> QED  BY <1>1, <2>1, CounterAssumption
<1>2. CASE n + 1 # CounterMod
  <2>1. (n + 1) % CounterMod = n + 1
    BY <1>2, CounterAssumption
  <2> QED  BY <1>2, <2>1, CounterAssumption
<1> QED  BY <1>1, <1>2

\* What a callback hears of a check is the level of its value, and it hears it if
\* that level is above the state, whether it resets the sentinel or not.
LEMMA SentinelTells ==
  ASSUME S!TypeOK, S!sentinel_check, callback # "none"
  PROVE  LET level == S!StateOf(heard'.value_kb)
         IN  /\ level > state => heard'.state = level
             /\ heard'.state # S!OK => heard'.state = level /\ level >= state
<1>1. PICK kb \in Sizes :
        \/ S!Trips(kb) /\ S!Tells(kb)
        \/ ~S!Trips(kb) /\ heard' = [value_kb |-> kb, state |-> S!OK]
  BY DEF S!sentinel_check, S!CheckTrips, S!CheckTripsResets, S!CheckPasses
<1>2. S!StateOf(kb) \in 0..2 /\ state \in 0..2
  BY DEF S!TypeOK, S!StateOf, S!OK, S!WARN, S!CRITICAL
<1>3. CASE S!Trips(kb) /\ S!Tells(kb)
  <2>1. heard'.value_kb = kb /\ heard'.state = S!StateOf(kb)
    BY <1>3 DEF S!Tells
  <2>2. S!StateOf(kb) >= state
    BY <1>3 DEF S!Trips
  <2> QED  BY <2>1, <2>2
<1>4. CASE ~S!Trips(kb) /\ heard' = [value_kb |-> kb, state |-> S!OK]
  <2>1. heard'.value_kb = kb /\ heard'.state = S!OK
    BY <1>4
  <2>2. ~(S!StateOf(kb) > state)
    BY <1>2, <1>4 DEF S!Trips, S!OK
  <2> QED  BY <2>1, <2>2
<1> QED  BY <1>1, <1>3, <1>4

\* A step up of a sentinel counts a trip, and a step down none, and its callback
\* is told the truth.
LEMMA SentinelSteps ==
  S!TypeOK /\ [S!Next]_(S!vars) =>
    [/\ state' > state => trip_count' # trip_count
     /\ state' < state => trip_count' \in {trip_count, 0}
     /\ S!sentinel_check /\ callback # "none" =>
          LET level == S!StateOf(heard'.value_kb)
          IN  /\ level > state => heard'.state = level
              /\ heard'.state # S!OK => heard'.state = level /\ level >= state]_(S!vars)
<1> SUFFICES ASSUME S!TypeOK, S!Next
             PROVE  /\ state' > state => trip_count' # trip_count
                    /\ state' < state => trip_count' \in {trip_count, 0}
  BY SentinelTells, Zenon
<1> USE DEF S!OK, S!WARN, S!CRITICAL
<1>0. state \in 0..2 /\ trip_count \in 0..(CounterMod - 1)
  BY DEF S!TypeOK
<1>1. CASE S!sentinel_set_callback
  BY <1>0, <1>1 DEF S!sentinel_set_callback
<1>2. CASE S!sentinel_reset \/ S!CheckTripsResets
  BY <1>0, <1>2 DEF S!sentinel_reset, S!Forget, S!CheckTripsResets
<1>3. CASE S!CheckTrips
  <2>1. state' \in 0..2 /\ state' >= state
    BY <1>0, <1>3 DEF S!CheckTrips, S!Trips, S!StateOf
  <2>2. trip_count' # trip_count
    BY <1>0, <1>3, CountMoves DEF S!CheckTrips
  <2> QED  BY <1>0, <2>1, <2>2
<1>4. CASE S!CheckPasses
  <2>1. state' \in 0..2 /\ state' <= state /\ trip_count' = trip_count
    BY <1>0, <1>4 DEF S!CheckPasses, S!Trips, S!StateOf
  <2> QED  BY <1>0, <2>1
<1> QED  BY <1>1, <1>2, <1>3, <1>4 DEF S!Next, S!sentinel_check

\* For all sizes and thresholds: no step up of a sentinel goes unheard, and no
\* step down is heard.
THEOREM SentinelHears == S!Spec => S!StepsUpTrip
BY SentinelInit, SentinelStep, SentinelSteps, PTL DEF S!Spec, S!StepsUpTrip

-----------------------------------------------------------------------------
(* The escalation.                                                         *)

\* One trigger more never means a lower level.
LEMMA LevelsMount ==
  ASSUME cfg \in EscalateConfigs, NEW m \in Nat, NEW n \in Nat, m <= n
  PROVE  E!LevelAt(m) \in 0..3 /\ E!LevelAt(n) \in 0..3 /\ E!LevelAt(m) <= E!LevelAt(n)
BY EscalateAssumption DEF E!LevelAt, E!NONE, E!NOTICE, E!WARNING, E!CRITICAL

\* Every step of an escalation keeps its level at what its triggers call for.
LEMMA EscalateStep == EscalateInv /\ [E!Next]_(E!vars) => EscalateInv'
<1> SUFFICES ASSUME EscalateInv, [E!Next]_(E!vars) PROVE EscalateInv'
  OBVIOUS
<1>0. /\ now \in Nat /\ cfg \in EscalateConfigs /\ current_level \in 0..3
      /\ trigger_count \in 0..(CounterMod - 1) /\ last_trigger_time \in 0..now
      /\ called \in {"reset", "quiet", "triggered", "tick"}
      /\ current_level <= E!LevelAt(trigger_count)
  BY DEF EscalateInv, E!TypeOK, E!NONE, E!CRITICAL
<1> SUFFICES /\ now' \in Nat /\ cfg' \in EscalateConfigs /\ current_level' \in 0..3
             /\ trigger_count' \in 0..(CounterMod - 1) /\ last_trigger_time' \in 0..now'
             /\ called' \in {"reset", "quiet", "triggered", "tick"}
             /\ current_level' <= E!LevelAt(trigger_count)'
  BY DEF EscalateInv, E!TypeOK, E!NONE, E!CRITICAL
<1>1. ASSUME E!Cleared, called' \in {"reset", "quiet"}
      PROVE  /\ now' \in Nat /\ cfg' \in EscalateConfigs /\ current_level' \in 0..3
             /\ trigger_count' \in 0..(CounterMod - 1) /\ last_trigger_time' \in 0..now'
             /\ called' \in {"reset", "quiet", "triggered", "tick"}
             /\ current_level' <= E!LevelAt(trigger_count)'
  BY <1>0, <1>1, CounterAssumption, EscalateAssumption
     DEF E!Cleared, E!LevelAt, E!NONE, E!NOTICE, E!WARNING, E!CRITICAL
<1>2. CASE E!escalate_reset
  BY <1>1, <1>2 DEF E!escalate_reset
<1>3. CASE E!UpdateQuiet
  <2>1. CASE E!Quiet
    BY <1>1, <1>3, <2>1 DEF E!UpdateQuiet
  <2>2. CASE ~E!Quiet
    BY <1>0, <1>3, <2>2 DEF E!UpdateQuiet, E!LevelAt
  <2> QED  BY <2>1, <2>2
<1>4. CASE E!UpdateTriggered
  <2>1. /\ trigger_count' = (trigger_count + 1) % CounterMod /\ last_trigger_time' = now
        /\ current_level' = E!LevelAt(trigger_count') /\ called' = "triggered"
        /\ now' = now /\ cfg' = cfg
    BY <1>4 DEF E!UpdateTriggered
  <2>2. trigger_count' \in 0..(CounterMod - 1)
    BY <1>0, <2>1, CountMoves
  <2>3. E!LevelAt(trigger_count') \in 0..3
    BY <1>0, <2>2, LevelsMount, CounterAssumption
  <2>4. E!LevelAt(trigger_count)' = E!LevelAt(trigger_count')
    BY <2>1 DEF E!LevelAt
  <2> QED  BY <1>0, <2>1, <2>2, <2>3, <2>4
<1>5. CASE E!Tick
  BY <1>0, <1>5 DEF E!Tick, E!LevelAt
<1>6. CASE UNCHANGED E!vars
  BY <1>0, <1>6 DEF E!vars, E!LevelAt
<1> QED  BY <1>2, <1>3, <1>4, <1>5, <1>6 DEF E!Next, E!escalate_update

\* A fresh escalation has no level and no triggers.
LEMMA EscalateInit == E!Init => EscalateInv
BY CounterAssumption, EscalateAssumption
   DEF E!Init, E!escalate_init, EscalateInv, E!TypeOK, E!LevelAt, E!NONE, E!NOTICE,
       E!WARNING, E!CRITICAL

\* A trigger lowers the level only when the count of triggers wraps.
LEMMA EscalateHolds ==
  EscalateInv /\ [E!Next]_(E!vars) =>
    [current_level' < current_level =>
       trigger_count' = 0 /\ (\/ current_level' = E!NONE
                              \/ trigger_count = CounterMod - 1)]_(E!vars)
<1> SUFFICES ASSUME EscalateInv, E!Next, current_level' < current_level
             PROVE  trigger_count' = 0 /\ (\/ current_level' = E!NONE
                                           \/ trigger_count = CounterMod - 1)
  BY Zenon
<1>0. /\ cfg \in EscalateConfigs /\ current_level \in 0..3
      /\ trigger_count \in 0..(CounterMod - 1) /\ trigger_count \in Nat
      /\ current_level <= E!LevelAt(trigger_count)
  BY CounterAssumption DEF EscalateInv, E!TypeOK, E!NONE, E!CRITICAL
<1>1. CASE E!escalate_reset \/ E!UpdateQuiet
  BY <1>0, <1>1 DEF E!escalate_reset, E!UpdateQuiet, E!Cleared
<1>2. CASE E!UpdateTriggered
  <2>1. /\ trigger_count' = (trigger_count + 1) % CounterMod
        /\ current_level' = E!LevelAt(trigger_count')
    BY <1>2 DEF E!UpdateTriggered
  <2>2. CASE trigger_count = CounterMod - 1
    BY <1>0, <2>1, <2>2, CounterAssumption
  <2>3. CASE trigger_count # CounterMod - 1
    <3>1. trigger_count' = trigger_count + 1
      BY <1>0, <2>1, <2>3, CounterAssumption
    <3>2. /\ E!LevelAt(trigger_count) \in 0..3 /\ E!LevelAt(trigger_count') \in 0..3
          /\ E!LevelAt(trigger_count) <= E!LevelAt(trigger_count')
      BY <1>0, <3>1, LevelsMount
    <3> QED  BY <1>0, <2>1, <3>2
  <2> QED  BY <2>2, <2>3
<1>3. CASE E!Tick
  BY <1>0, <1>3 DEF E!Tick
<1> QED  BY <1>1, <1>2, <1>3 DEF E!Next, E!escalate_update

\* A quiet update resets when the quiet period is over, and else does nothing.
LEMMA EscalateResets ==
  EscalateInv /\ [E!Next]_(E!vars) =>
    [called' = "quiet" /\ current_level > E!NONE =>
       IF /\ cfg.auto_reset_ms > 0
          /\ now >= last_trigger_time + cfg.auto_reset_ms
          /\ last_trigger_time # 0
       THEN current_level' = E!NONE /\ trigger_count' = 0
       ELSE current_level' = current_level]_(E!vars)
<1> SUFFICES ASSUME EscalateInv, E!Next, called' = "quiet"
             PROVE  IF /\ cfg.auto_reset_ms > 0
                       /\ now >= last_trigger_time + cfg.auto_reset_ms
                       /\ last_trigger_time # 0
                    THEN current_level' = E!NONE /\ trigger_count' = 0
                    ELSE current_level' = current_level
  BY Zenon
<1>0. now \in Nat /\ last_trigger_time \in 0..now /\ cfg.auto_reset_ms \in Nat
  BY EscalateAssumption DEF EscalateInv, E!TypeOK
<1>1. E!UpdateQuiet
  BY DEF E!Next, E!escalate_reset, E!escalate_update, E!UpdateTriggered, E!Tick
<1>2. E!Quiet <=> /\ cfg.auto_reset_ms > 0
                  /\ now >= last_trigger_time + cfg.auto_reset_ms
                  /\ last_trigger_time # 0
  BY <1>0 DEF E!Quiet
<1>3. CASE E!Quiet
  BY <1>1, <1>2, <1>3 DEF E!UpdateQuiet, E!Cleared
<1>4. CASE ~E!Quiet
  BY <1>1, <1>2, <1>4 DEF E!UpdateQuiet
<1> QED  BY <1>3, <1>4

\* For all thresholds, in any order: no trigger lowers the level, unless the
\* count of triggers wraps.
THEOREM EscalationHolds == E!Spec => E!NeverDemoted
BY EscalateInit, EscalateStep, EscalateHolds, PTL DEF E!Spec, E!NeverDemoted

\* For all periods: the level is reset by the first update that comes when the
\* period is over, and by none that comes before.
THEOREM EscalationResets == E!Spec => E!QuietResets
BY EscalateInit, EscalateStep, EscalateResets, PTL DEF E!Spec, E!QuietResets

-----------------------------------------------------------------------------
(* The ceiling.                                                            *)

\* There is one greatest number only.
LEMMA TheGreatest ==
  ASSUME NEW A \in SUBSET Int, NEW i \in A, \A j \in A : j <= i
  PROVE  (CHOOSE k \in A : \A j \in A : j <= k) = i
<1> DEFINE c == CHOOSE k \in A : \A j \in A : j <= k
<1>1. \E k \in A : \A j \in A : j <= k
  OBVIOUS
<1>2. c \in A /\ \A j \in A : j <= c
  BY <1>1, Zenon
<1> HIDE DEF c
<1>3. c = i
  BY <1>2
<1> QED  BY <1>3 DEF c

\* A check keeps what a ceiling tells true (ceiling_check).
LEMMA CeilingChecks ==
  ASSUME CeilingInv, L!ceiling_check PROVE CeilingInv'
<1>1. PICK v \in Longs :
        /\ L!CheckHard(v) \/ L!CheckSoft(v) \/ L!CheckOk(v)
        /\ ceiSeen' = Append(ceiSeen, v)
  BY DEF L!ceiling_check
<1>2. ceiHard' = ceiHard /\ ceiSoft' = ceiSoft
  BY DEF L!ceiling_check
<1> DEFINE n == Len(ceiSeen)
<1>3. /\ ceiHard \in Longs /\ ceiSoft \in Longs /\ ceiHard \in Int /\ ceiSoft \in Int
      /\ v \in Int /\ ceiBreaches \in Nat /\ consecutive \in 0..ceiBreaches
      /\ ceiSeen \in Seq(Longs)
      /\ ceiBreaches = Cardinality(L!Breaches)
  BY LongsAssumption, SameCardinality DEF CeilingInv, L!TypeOK, L!ActiveHasHysteresis
<1>4. /\ ceiSeen' \in Seq(Longs) /\ n \in Nat /\ Len(ceiSeen') = n + 1
      /\ DOMAIN ceiSeen = 1..n /\ DOMAIN ceiSeen' = 1..(n + 1)
      /\ ceiSeen'[n + 1] = v /\ \A i \in 1..n : ceiSeen'[i] = ceiSeen[i]
      /\ ceiSeen' # <<>> /\ (ceiSeen # <<>> => n # 0)
  BY <1>1, <1>3, AppendFacts, SeqFacts
<1>5. /\ L!Breaches \in SUBSET (1..n)
      /\ L!Breaches' = IF v >= ceiHard THEN L!Breaches \cup {n + 1} ELSE L!Breaches
  BY <1>2, <1>4 DEF L!Breaches
<1>6. /\ active <=> /\ L!Breaches # {}
                    /\ \A i \in 1..n : i > L!LastBreach => ceiSoft > 0 /\ ceiSeen[i] >= ceiSoft
      /\ L!Breaches # {} => last_breach_value = ceiSeen[L!LastBreach]
      /\ \A i \in 1..n : i > n - consecutive => i \in L!Breaches
  BY <1>4, Zenon DEF CeilingInv, L!ActiveHasHysteresis
<1>7. L!Breaches # {} => \E i \in L!Breaches : \A j \in L!Breaches : j <= i
  BY DEF CeilingInv
<1> HIDE DEF n
<1> SUFFICES /\ active' \in BOOLEAN /\ ceiBreaches' \in Nat /\ consecutive' \in 0..ceiBreaches'
             /\ ceiBreaches' = Cardinality(L!Breaches')
             /\ active' <=> /\ L!Breaches' # {}
                            /\ \A i \in 1..(n + 1) : i > L!LastBreach' =>
                                 ceiSoft > 0 /\ ceiSeen'[i] >= ceiSoft
             /\ L!Breaches' # {} => last_breach_value' = ceiSeen'[L!LastBreach']
             /\ consecutive' > 0 <=> n + 1 \in L!Breaches'
             /\ \A i \in DOMAIN ceiSeen' : i > Len(ceiSeen') - consecutive' => i \in L!Breaches'
             /\ L!Breaches' # {} => \E i \in L!Breaches' : \A j \in L!Breaches' : j <= i
  <2>1. ceiBreaches' = L!Cardinality(L!Breaches')
    BY SameCardinality
  <2>2. {ceiHard', ceiSoft'} \subseteq Longs
    BY <1>2, <1>3
  <2>3. L!ActiveHasHysteresis'
    <3>1. active' <=> /\ L!Breaches' # {}
                      /\ \A i \in DOMAIN ceiSeen' : i > L!LastBreach' =>
                           ceiSoft' > 0 /\ ceiSeen'[i] >= ceiSoft'
      BY <1>2, <1>4, Zenon
    <3>2. consecutive' > 0 <=> ceiSeen' # <<>> /\ Len(ceiSeen') \in L!Breaches'
      BY <1>4, Zenon
    <3> QED  BY <2>1, <3>1, <3>2, Zenon DEF L!ActiveHasHysteresis
  <2>4. L!TypeOK'
    BY <2>2, Zenon DEF L!TypeOK
  <2> QED  BY <1>4, <2>3, <2>4, Zenon DEF CeilingInv
<1>8. CASE L!CheckHard(v)
  <2>1. /\ ceiBreaches' = ceiBreaches + 1 /\ consecutive' = consecutive + 1
        /\ last_breach_value' = v
    BY <1>8 DEF L!CheckHard
  <2>2. active' = TRUE
    BY <1>8, Zenon DEF L!CheckHard
  <2>3. L!Breaches' = L!Breaches \cup {n + 1}
    BY <1>5, <1>8 DEF L!CheckHard
  <2>4. n + 1 \in L!Breaches' /\ \A j \in L!Breaches' : j <= n + 1
    BY <1>4, <1>5, <2>3
  <2>5. L!LastBreach' = n + 1
    <3>1. L!Breaches' \in SUBSET Int
      BY <1>4, <1>5, <2>3
    <3> QED  BY <2>4, <3>1, TheGreatest DEF L!LastBreach
  <2>6. ceiBreaches' = Cardinality(L!Breaches')
    BY <1>3, <1>4, <1>5, <2>1, <2>3, CountNext
  <2>7. active' <=> /\ L!Breaches' # {}
                    /\ \A i \in 1..(n + 1) : i > L!LastBreach' =>
                         ceiSoft > 0 /\ ceiSeen'[i] >= ceiSoft
    <3>1. L!Breaches' # {} /\ \A i \in 1..(n + 1) : ~(i > L!LastBreach')
      BY <1>4, <2>4, <2>5
    <3> QED  BY <2>2, <3>1, Zenon
  <2>8. L!Breaches' # {} => last_breach_value' = ceiSeen'[L!LastBreach']
    BY <1>4, <2>1, <2>5
  <2>9. \A i \in DOMAIN ceiSeen' : i > Len(ceiSeen') - consecutive' => i \in L!Breaches'
    BY <1>3, <1>4, <1>6, <2>1, <2>3
  <2>10. ceiBreaches' \in Nat /\ consecutive' \in 0..ceiBreaches' /\ consecutive' > 0
    BY <1>3, <2>1
  <2> QED  BY <2>2, <2>4, <2>6, <2>7, <2>8, <2>9, <2>10, Zenon
<1>9. CASE L!CheckSoft(v) \/ L!CheckOk(v)
  <2>1. /\ ceiBreaches' = ceiBreaches /\ consecutive' = 0
        /\ last_breach_value' = last_breach_value
    BY <1>9 DEF L!CheckSoft, L!CheckOk
  <2>2. L!Breaches' = L!Breaches
    BY <1>3, <1>5, <1>9 DEF L!CheckSoft, L!CheckOk
  <2>3. L!LastBreach' = L!LastBreach
    BY <2>2, Zenon DEF L!LastBreach
  <2>4. L!Breaches # {} => L!LastBreach \in 1..n
    <3> SUFFICES ASSUME L!Breaches # {} PROVE L!LastBreach \in 1..n
      OBVIOUS
    <3>1. PICK b \in L!Breaches : \A j \in L!Breaches : j <= b
      BY <1>7
    <3>2. L!Breaches \in SUBSET Int
      BY <1>4, <1>5
    <3>3. L!LastBreach = b
      BY <3>1, <3>2, TheGreatest DEF L!LastBreach
    <3> QED  BY <1>5, <3>1, <3>3
  <2>5. L!CheckSoft(v) <=> ceiSoft > 0 /\ v >= ceiSoft
    BY <1>9 DEF L!CheckSoft, L!CheckOk
  <2>6. active' <=> active /\ ceiSoft > 0 /\ v >= ceiSoft
    <3>1. CASE L!CheckSoft(v)
      <4>1. active' = active
        BY <3>1, Zenon DEF L!CheckSoft
      <4> QED  BY <2>5, <3>1, <4>1, Zenon
    <3>2. CASE ~L!CheckSoft(v)
      <4>1. active' = FALSE
        BY <1>9, <3>2, Zenon DEF L!CheckOk
      <4> QED  BY <2>5, <3>2, <4>1, Zenon
    <3> QED  BY <3>1, <3>2
  <2>7. active' <=> /\ L!Breaches' # {}
                    /\ \A i \in 1..(n + 1) : i > L!LastBreach' =>
                         ceiSoft > 0 /\ ceiSeen'[i] >= ceiSoft
    <3>1. CASE L!Breaches = {}
      BY <1>6, <2>2, <2>6, <3>1, Zenon
    <3>2. CASE L!Breaches # {}
      <4> DEFINE b == L!LastBreach
      <4>1. b \in 1..n
        BY <2>4, <3>2
      <4>2. (\A i \in 1..(n + 1) : i > b => ceiSoft > 0 /\ ceiSeen'[i] >= ceiSoft)
              <=> /\ \A i \in 1..n : i > b => ceiSoft > 0 /\ ceiSeen[i] >= ceiSoft
                  /\ ceiSoft > 0 /\ v >= ceiSoft
        <5> HIDE DEF b
        <5>1. ASSUME \A i \in 1..(n + 1) : i > b => ceiSoft > 0 /\ ceiSeen'[i] >= ceiSoft
              PROVE  /\ \A i \in 1..n : i > b => ceiSoft > 0 /\ ceiSeen[i] >= ceiSoft
                     /\ ceiSoft > 0 /\ v >= ceiSoft
          <6>1. n + 1 \in 1..(n + 1) /\ n + 1 > b /\ \A i \in 1..n : i \in 1..(n + 1)
            BY <1>4, <4>1
          <6> QED  BY <1>4, <5>1, <6>1, Zenon
        <5>2. ASSUME \A i \in 1..n : i > b => ceiSoft > 0 /\ ceiSeen[i] >= ceiSoft,
                     ceiSoft > 0, v >= ceiSoft
              PROVE  \A i \in 1..(n + 1) : i > b => ceiSoft > 0 /\ ceiSeen'[i] >= ceiSoft
          <6>1. \A i \in 1..(n + 1) : i \in 1..n \/ i = n + 1
            BY <1>4
          <6> QED  BY <1>4, <5>2, <6>1, Zenon
        <5> QED  BY <5>1, <5>2
      <4> QED  BY <1>6, <2>2, <2>3, <2>6, <3>2, <4>2, Zenon
    <3> QED  BY <3>1, <3>2
  <2>8. L!Breaches' # {} => last_breach_value' = ceiSeen'[L!LastBreach']
    BY <1>4, <1>6, <2>1, <2>2, <2>3, <2>4, Zenon
  <2>9. /\ ~(consecutive' > 0) /\ n + 1 \notin L!Breaches'
        /\ \A i \in DOMAIN ceiSeen' : ~(i > Len(ceiSeen') - consecutive')
        /\ ceiBreaches' \in Nat /\ consecutive' \in 0..ceiBreaches'
    BY <1>3, <1>4, <1>5, <2>1, <2>2
  <2>10. active' \in BOOLEAN
    <3>1. active \in BOOLEAN
      BY Zenon DEF CeilingInv, L!TypeOK
    <3> QED  BY <1>9, <3>1, Zenon DEF L!CheckSoft, L!CheckOk
  <2>11. ceiBreaches' = Cardinality(L!Breaches')
    BY <1>3, <2>1, <2>2
  <2> QED  BY <1>7, <2>2, <2>7, <2>8, <2>9, <2>10, <2>11, Zenon
<1> QED  BY <1>1, <1>8, <1>9

\* Nothing is a breach before the first check.
LEMMA CeilingFresh ==
  ASSUME NEW s, s = <<>>
  PROVE  s \in Seq(Longs) /\ DOMAIN s = {} /\ L!Cardinality({}) = 0
BY EmptySeq, FS_EmptySet, SameCardinality

\* Every step of a ceiling keeps what it tells true.
LEMMA CeilingStep == CeilingInv /\ [L!Next]_(L!vars) => CeilingInv'
<1> SUFFICES ASSUME CeilingInv, [L!Next]_(L!vars) PROVE CeilingInv'
  OBVIOUS
<1>1. CASE L!ceiling_reset
  <2>1. /\ ceiBreaches' = 0 /\ consecutive' = 0 /\ last_breach_value' = 0 /\ ceiSeen' = <<>>
        /\ ceiHard' = ceiHard /\ ceiSoft' = ceiSoft
    BY <1>1 DEF L!ceiling_reset
  <2>2. active' = FALSE
    BY <1>1, Zenon DEF L!ceiling_reset
  <2>3. ceiSeen' \in Seq(Longs) /\ DOMAIN ceiSeen' = {} /\ L!Cardinality({}) = 0
    BY <2>1, CeilingFresh
  <2>4. L!Breaches' = {}
    BY <2>3 DEF L!Breaches
  <2>5. ~(consecutive' > 0)
    BY <2>1
  <2>6. L!ActiveHasHysteresis'
    BY <2>1, <2>2, <2>3, <2>4, <2>5, Zenon DEF L!ActiveHasHysteresis
  <2>7. {ceiHard', ceiSoft'} \subseteq Longs /\ ceiBreaches' \in Nat /\ consecutive' \in 0..ceiBreaches'
    BY <2>1 DEF CeilingInv, L!TypeOK
  <2>8. L!TypeOK'
    BY <2>2, <2>7, Zenon DEF L!TypeOK
  <2> QED  BY <2>3, <2>4, <2>6, <2>8, Zenon DEF CeilingInv
<1>2. CASE UNCHANGED L!vars
  <2>1. /\ ceiBreaches' = ceiBreaches /\ consecutive' = consecutive /\ ceiSeen' = ceiSeen
        /\ last_breach_value' = last_breach_value /\ ceiHard' = ceiHard /\ ceiSoft' = ceiSoft
    BY <1>2 DEF L!vars
  <2>2. active' = active
    BY <1>2, Zenon DEF L!vars
  <2>3. L!Breaches' = L!Breaches /\ L!LastBreach' = L!LastBreach
    BY <2>1, Zenon DEF L!Breaches, L!LastBreach
  <2> QED  BY <2>1, <2>2, <2>3, Zenon DEF CeilingInv, L!TypeOK, L!ActiveHasHysteresis
<1> QED  BY <1>1, <1>2, CeilingChecks DEF L!Next

\* A fresh ceiling has nothing to tell.
LEMMA CeilingInit == L!Init => CeilingInv
<1> SUFFICES ASSUME L!Init PROVE CeilingInv
  OBVIOUS
<1>1. /\ ceiBreaches = 0 /\ consecutive = 0 /\ last_breach_value = 0 /\ ceiSeen = <<>>
      /\ ceiHard \in Longs /\ ceiSoft \in Longs
  BY DEF L!Init
<1>2. active = FALSE
  BY Zenon DEF L!Init
<1>3. ceiSeen \in Seq(Longs) /\ DOMAIN ceiSeen = {} /\ L!Cardinality({}) = 0
  BY <1>1, CeilingFresh
<1>4. L!Breaches = {}
  BY <1>3 DEF L!Breaches
<1>5. ~(consecutive > 0)
  BY <1>1
<1>6. L!ActiveHasHysteresis
  BY <1>1, <1>2, <1>3, <1>4, <1>5, Zenon DEF L!ActiveHasHysteresis
<1>7. {ceiHard, ceiSoft} \subseteq Longs /\ ceiBreaches \in Nat /\ consecutive \in 0..ceiBreaches
  BY <1>1
<1>8. L!TypeOK
  BY <1>2, <1>7, Zenon DEF L!TypeOK
<1> QED  BY <1>3, <1>4, <1>6, <1>8, Zenon DEF CeilingInv

\* For all values and limits: a ceiling is active from a hard breach through
\* the soft band, and remembers and counts its breaches.
THEOREM CeilingIsTrue == L!Spec => []L!ActiveHasHysteresis
<1>1. CeilingInv => L!ActiveHasHysteresis
  BY DEF CeilingInv
<1> QED  BY <1>1, CeilingInit, CeilingStep, PTL DEF L!Spec

-----------------------------------------------------------------------------
(* The cascade.                                                            *)

\* A set of positions that is not empty has a last one.
LEMMA HasGreatest ==
  ASSUME NEW n \in Nat, NEW R \in SUBSET (0..n), R # {}
  PROVE  \E i \in R : \A j \in R : j <= i
<1> DEFINE T == {k \in Nat : \E i \in R : k = n - i}
<1> DEFINE Less == OpToRel(<, Nat)
<1>1. T \subseteq Nat /\ T # {}
  <2>1. PICK i : i \in R
    OBVIOUS
  <2>2. n - i \in Nat
    BY <2>1
  <2> QED  BY <2>1, <2>2
<1>2. IsWellFoundedOn(Less, Nat)
  BY NatLessThanWellFounded
<1>3. \A x, y \in Nat : y < x => <<y, x>> \in Less
  BY DEF OpToRel
<1> HIDE DEF T, Less
<1>4. PICK k \in T : \A y \in T : ~(<<y, k>> \in Less)
  BY <1>1, <1>2, WFMin
<1>5. \A y \in T : y \in Nat /\ k \in Nat /\ ~(y < k)
  BY <1>1, <1>3, <1>4
<1>6. PICK i \in R : k = n - i
  BY <1>4 DEF T
<1>7. ASSUME NEW j \in R PROVE j <= i
  <2>1. n - j \in T
    BY DEF T
  <2> QED  BY <1>5, <1>6, <2>1
<1> QED  BY <1>6, <1>7

CascadeLevel == [threshold_kb : Nat, sustain_ticks : Nat,
                 action : {"log", "alert", "throttle", "kill"}]

\* The levels that there are.
LEMMA LevelFacts ==
  ASSUME CascadeInv
  PROVE  /\ levels \in Seq(CascadeLevel) /\ Len(levels) \in Nat
         /\ DOMAIN levels = 1..Len(levels)
         /\ \A i \in 1..Len(levels) :
              /\ levels[i].threshold_kb \in Nat /\ levels[i].sustain_ticks \in Nat
              /\ levels[i].action \in {"log", "alert", "throttle", "kill"}
<1>1. levels \in Seq(CascadeLevel)
  BY DEF CascadeInv, CascadeLevel
<1>2. Len(levels) \in Nat /\ DOMAIN levels = 1..Len(levels)
      /\ \A i \in 1..Len(levels) : levels[i] \in CascadeLevel
  BY <1>1, SeqFacts
<1> QED  BY <1>1, <1>2 DEF CascadeLevel

\* The level that is found is one of them, or none.
LEMMA FindsALevel ==
  ASSUME CascadeInv, NEW kb \in Sizes
  PROVE  C!find_active_level(kb) \in 0..Len(levels)
<1> DEFINE R == {i \in DOMAIN levels : kb >= levels[i].threshold_kb}
<1>1. R \in SUBSET (1..Len(levels)) /\ Len(levels) \in Nat
  BY LevelFacts
<1>2. C!find_active_level(kb) = IF R = {} THEN 0 ELSE CHOOSE i \in R : \A j \in R : j <= i
  BY DEF C!find_active_level
<1> HIDE DEF R
<1>3. CASE R = {}
  BY <1>1, <1>2, <1>3
<1>4. CASE R # {}
  <2>1. \E i \in R : \A j \in R : j <= i
    <3>1. R \in SUBSET (0..Len(levels))
      BY <1>1
    <3> QED  BY <1>1, <1>4, <3>1, HasGreatest
  <2>2. (CHOOSE i \in R : \A j \in R : j <= i) \in R
    BY <2>1, Zenon
  <2>3. C!find_active_level(kb) \in R
    BY <1>2, <1>4, <2>2, Zenon
  <2>4. \A i \in R : i \in 0..Len(levels)
    BY <1>1
  <2> QED  BY <2>3, <2>4, Zenon
<1> QED  BY <1>3, <1>4

\* What makes CascadeInv, told apart: a step is shown to keep each.
StayTrue ==
  casLevel > 0 =>
    /\ ticks_at_level > 0 /\ ticks_at_level <= Len(casSeen)
    /\ \A i \in 1..Len(casSeen) : i > Begin =>
         /\ casSeen[i].level = casLevel
         /\ casSeen[i].action # "none" <=> i - Begin = Needs
    /\ Begin > 0 => casSeen[Begin].level # casLevel
    /\ fired <=> ticks_at_level >= Needs

\* An update: a new stay begins, or the present one goes on.
LEMMA CascadeUpdates ==
  ASSUME CascadeInv, C!cascade_update PROVE CascadeInv'
<1>1. PICK kb \in Sizes :
        LET found == C!find_active_level(kb) IN
        /\ casLevel' = found
        /\ ticks_at_level' = C!Ticks(found)
        /\ fired' = (C!Fires(found) \/ (found = casLevel /\ fired))
        /\ casSeen' = Append(casSeen, [level |-> found,
                                       action |-> IF C!Fires(found) THEN levels[found].action
                                                                     ELSE "none"])
  BY Zenon DEF C!cascade_update
<1> DEFINE a == C!find_active_level(kb)
<1> DEFINE act == IF C!Fires(a) THEN levels[a].action ELSE "none"
<1> DEFINE e == [level |-> a, action |-> act]
<1> DEFINE n == Len(casSeen)
<1>2. /\ casLevel' = a /\ ticks_at_level' = C!Ticks(a) /\ casSeen' = Append(casSeen, e)
  BY <1>1, Zenon
<1>3. fired' <=> C!Fires(a) \/ (a = casLevel /\ fired)
  BY <1>1, Zenon
<1>b. fired' \in BOOLEAN
  BY <1>1, Zenon
<1>4. levels' = levels
  BY DEF C!cascade_update
<1>5. a \in 0..Len(levels)
  BY <1>1, FindsALevel
<1>6. /\ casLevel \in 0..Len(levels) /\ ticks_at_level \in Nat /\ casSeen \in Seq(CascadeRecord)
      /\ Len(levels) <= MaxLevels
      /\ casSeen = <<>> => casLevel = 0
      /\ casSeen # <<>> => casSeen[n].level = casLevel
  BY DEF CascadeInv, C!TypeOK
<1>7. StayTrue
  BY Zenon DEF CascadeInv, StayTrue
<1>8. e \in CascadeRecord /\ e.level = a
      /\ (C!Fires(a) => e.action = levels[a].action)
      /\ (~C!Fires(a) => e.action = "none")
  <2>1. a \in Nat /\ (C!Fires(a) => a \in 1..Len(levels))
    BY <1>5, LevelFacts DEF C!Fires
  <2>2. (C!Fires(a) => act = levels[a].action) /\ (~C!Fires(a) => act = "none")
    BY Zenon
  <2>3. act \in {"none", "log", "alert", "throttle", "kill"}
    <3>1. CASE C!Fires(a)
      <4>1. levels[a].action \in {"log", "alert", "throttle", "kill"}
        BY <2>1, <3>1, LevelFacts
      <4> QED  BY <2>2, <3>1, <4>1
    <3>2. CASE ~C!Fires(a)
      BY <2>2, <3>2
    <3> QED  BY <3>1, <3>2
  <2> HIDE DEF a, act
  <2> QED  BY <2>1, <2>2, <2>3 DEF CascadeRecord
<1> HIDE DEF a, act, e
<1>9. /\ casSeen' \in Seq(CascadeRecord) /\ n \in Nat /\ Len(casSeen') = n + 1
      /\ DOMAIN casSeen = 1..n /\ DOMAIN casSeen' = 1..(n + 1)
      /\ casSeen'[n + 1] = e /\ \A i \in 1..n : casSeen'[i] = casSeen[i]
      /\ casSeen' # <<>> /\ (casSeen = <<>> <=> n = 0)
  BY <1>2, <1>6, <1>8, AppendFacts, SeqFacts
<1> HIDE DEF n
<1>10. StayTrue'
  <2>1. CASE a = 0
    BY <1>2, <2>1 DEF StayTrue
  <2> DEFINE s == levels[a].sustain_ticks
  <2>f. a > 0 => /\ s \in Nat /\ levels[a].action # "none"
                 /\ Needs' = IF s > 0 THEN s ELSE 1
    BY <1>2, <1>4, <1>5, LevelFacts, SMTT(30) DEF Needs
  <2>g. C!Fires(a) <=> a > 0 /\ (a # casLevel \/ ~fired) /\ ticks_at_level' >= s
    BY <1>2, Zenon DEF C!Fires
  <2> HIDE DEF s
  <2>h. a > 0 => (e.action # "none" <=> C!Fires(a))
    BY <1>8, <2>f, Zenon
  <2>2. CASE a > 0 /\ a # casLevel
    <3>1. ticks_at_level' = 1 /\ Begin' = n
      BY <1>2, <1>9, <2>2 DEF C!Ticks, Begin
    <3>2. Needs' \in Nat /\ (1 >= s <=> Needs' = 1) /\ (1 >= s <=> 1 >= Needs')
      BY <2>2, <2>f
    <3>3. C!Fires(a) <=> Needs' = 1
      BY <2>2, <2>g, <3>1, <3>2, Zenon
    <3>4. \A i \in 1..(n + 1) : i > n =>
            casSeen'[i].level = a /\ (casSeen'[i].action # "none" <=> i - n = Needs')
      <4>1. \A i \in 1..(n + 1) : i > n => i = n + 1 /\ i - n = 1
        BY <1>9
      <4> QED  BY <1>8, <1>9, <2>2, <2>h, <3>3, <4>1, Zenon
    <3>5. n > 0 => casSeen'[n].level # a
      BY <1>6, <1>9, <2>2
    <3>6. fired' <=> ticks_at_level' >= Needs'
      BY <1>3, <2>2, <3>1, <3>2, <3>3, Zenon
    <3>7. ticks_at_level' > 0 /\ ticks_at_level' <= Len(casSeen')
      BY <1>9, <3>1
    <3> QED  BY <1>2, <1>9, <3>1, <3>4, <3>5, <3>6, <3>7, Zenon DEF StayTrue
  <2>3. CASE a > 0 /\ a = casLevel
    <3>1. /\ ticks_at_level > 0 /\ ticks_at_level <= n
          /\ \A i \in 1..n : i > Begin =>
               /\ casSeen[i].level = casLevel
               /\ casSeen[i].action # "none" <=> i - Begin = Needs
          /\ Begin > 0 => casSeen[Begin].level # casLevel
          /\ fired <=> ticks_at_level >= Needs
      BY <1>7, <2>3, Zenon DEF StayTrue, n
    <3>2. /\ ticks_at_level' = ticks_at_level + 1 /\ Begin' = Begin
          /\ Begin = n - ticks_at_level /\ Begin \in 0..n
      BY <1>2, <1>6, <1>9, <2>3, <3>1 DEF C!Ticks, Begin, n
    <3>3. Needs' = Needs /\ Needs \in Nat
      BY <2>3, <2>f DEF Needs, s
    <3>4. C!Fires(a) <=> ticks_at_level + 1 = Needs
      <4>1. (~(ticks_at_level >= Needs) /\ ticks_at_level + 1 >= s)
              <=> ticks_at_level + 1 = Needs
        BY <1>6, <2>3, <2>f, <3>1, <3>3
      <4> QED  BY <2>3, <2>g, <3>1, <3>2, <4>1, Zenon
    <3>5. \A i \in 1..(n + 1) : i > Begin =>
            casSeen'[i].level = a /\ (casSeen'[i].action # "none" <=> i - Begin = Needs)
      <4>1. \A i \in 1..(n + 1) : i \in 1..n \/ i = n + 1
        BY <1>9
      <4>2. ASSUME NEW i \in 1..n, i > Begin
            PROVE  casSeen'[i].level = a /\ (casSeen'[i].action # "none" <=> i - Begin = Needs)
        BY <1>9, <2>3, <3>1, <4>2, Zenon
      <4>3. ASSUME NEW i \in 1..(n + 1), i > Begin
            PROVE  casSeen'[i].level = a /\ (casSeen'[i].action # "none" <=> i - Begin = Needs)
        <5>1. CASE i \in 1..n
          BY <4>2, <4>3, <5>1, Zenon
        <5>2. CASE i = n + 1
          <6>1. casSeen'[i] = e /\ i - Begin = ticks_at_level + 1
            BY <1>6, <1>9, <3>2, <5>2
          <6>2. i - Begin = Needs <=> C!Fires(a)
            BY <3>4, <6>1
          <6>3. casSeen'[i].level = a /\ (casSeen'[i].action # "none" <=> C!Fires(a))
            BY <1>8, <2>3, <2>h, <6>1
          <6> QED  BY <6>2, <6>3, Zenon
        <5> QED  BY <4>1, <5>1, <5>2, Zenon
      <4> QED  BY <4>3, Zenon
    <3>6. Begin > 0 => casSeen'[Begin].level # a
      <4>1. Begin > 0 => Begin \in 1..n
        BY <1>9, <3>2
      <4> QED  BY <1>9, <2>3, <3>1, <4>1, Zenon
    <3>7. fired' <=> ticks_at_level' >= Needs
      <4>1. ticks_at_level' >= Needs <=> ticks_at_level + 1 = Needs \/ ticks_at_level >= Needs
        BY <1>6, <3>2, <3>3
      <4> QED  BY <1>3, <2>3, <3>1, <3>4, <4>1, Zenon
    <3>8. ticks_at_level' > 0 /\ ticks_at_level' <= Len(casSeen')
      BY <1>6, <1>9, <3>1, <3>2
    <3> QED  BY <1>2, <1>9, <3>2, <3>3, <3>5, <3>6, <3>7, <3>8, Zenon DEF StayTrue
  <2> QED  BY <1>5, <2>1, <2>2, <2>3
<1>11. ticks_at_level' \in Nat
  BY <1>2, <1>6 DEF C!Ticks
<1>12. C!TypeOK'
  <2>1. Len(levels') <= MaxLevels /\ casLevel' \in 0..Len(levels')
    BY <1>2, <1>4, <1>5, <1>6
  <2> QED  BY <1>11, <1>b, <2>1, Zenon DEF C!TypeOK
<1>13. levels' \in Seq([threshold_kb : Nat, sustain_ticks : Nat,
                        action : {"log", "alert", "throttle", "kill"}])
  BY <1>4, LevelFacts DEF CascadeLevel
<1>14. casSeen'[Len(casSeen')].level = casLevel'
  BY <1>2, <1>8, <1>9
<1> QED  BY <1>9, <1>10, <1>12, <1>13, <1>14, Zenon DEF CascadeInv, StayTrue

\* Without a present stay there is nothing to keep.
LEMMA CascadeIdles ==
  ASSUME CascadeInv, C!Idles,
         levels' \in Seq([threshold_kb : Nat, sustain_ticks : Nat,
                          action : {"log", "alert", "throttle", "kill"}]),
         Len(levels') \in Nat, Len(levels') <= MaxLevels
  PROVE  CascadeInv'
<1>1. casLevel' = 0 /\ ticks_at_level' = 0 /\ casSeen' = <<>>
  BY DEF C!Idles
<1>2. fired' = FALSE
  BY Zenon DEF C!Idles
<1>3. casSeen' \in Seq(CascadeRecord) /\ casLevel' \in 0..Len(levels') /\ ticks_at_level' \in Nat
      /\ ~(casLevel' > 0)
  BY <1>1, EmptySeq
<1>4. C!TypeOK'
  BY <1>2, <1>3, Zenon DEF C!TypeOK
<1> QED  BY <1>1, <1>3, <1>4, Zenon DEF CascadeInv

\* The levels of a policy, and one level more, are levels.
LEMMA PolicyLevels ==
  ASSUME NEW p \in {"conservative", "aggressive", "monitor_only"}
  PROVE  C!Preset(p) \in Seq(CascadeLevel) /\ Len(C!Preset(p)) = 3
<1>1. BaseKb \in Nat /\ BaseKb * 2 \in Nat /\ BaseKb * 3 \in Nat /\ BaseKb * 4 \in Nat
  BY CascadeAssumption
<1>2. ASSUME NEW t \in Nat, NEW n \in Nat, NEW a \in {"log", "alert", "throttle", "kill"}
      PROVE  C!Level(t, n, a) \in CascadeLevel
  BY DEF C!Level, CascadeLevel
<1>3. ASSUME NEW x \in CascadeLevel, NEW y \in CascadeLevel, NEW z \in CascadeLevel
      PROVE  <<x, y, z>> \in Seq(CascadeLevel) /\ Len(<<x, y, z>>) = 3
  OBVIOUS
<1>4. CASE p = "conservative"
  <2>1. C!Preset(p) = <<C!Level(BaseKb, 5, "log"), C!Level(BaseKb * 2, 3, "alert"),
                        C!Level(BaseKb * 4, 2, "throttle")>>
    BY <1>4 DEF C!Preset
  <2>2. /\ C!Level(BaseKb, 5, "log") \in CascadeLevel
        /\ C!Level(BaseKb * 2, 3, "alert") \in CascadeLevel
        /\ C!Level(BaseKb * 4, 2, "throttle") \in CascadeLevel
    BY <1>1, <1>2
  <2> QED  BY <1>3, <2>1, <2>2
<1>5. CASE p = "aggressive"
  <2>1. C!Preset(p) = <<C!Level(BaseKb, 2, "alert"), C!Level(BaseKb * 2, 1, "throttle"),
                        C!Level(BaseKb * 3, 1, "kill")>>
    BY <1>5 DEF C!Preset
  <2>2. /\ C!Level(BaseKb, 2, "alert") \in CascadeLevel
        /\ C!Level(BaseKb * 2, 1, "throttle") \in CascadeLevel
        /\ C!Level(BaseKb * 3, 1, "kill") \in CascadeLevel
    BY <1>1, <1>2
  <2> QED  BY <1>3, <2>1, <2>2
<1>6. CASE p = "monitor_only"
  <2>1. C!Preset(p) = <<C!Level(BaseKb, 10, "log"), C!Level(BaseKb * 2, 5, "log"),
                        C!Level(BaseKb * 4, 3, "alert")>>
    BY <1>6 DEF C!Preset
  <2>2. /\ C!Level(BaseKb, 10, "log") \in CascadeLevel
        /\ C!Level(BaseKb * 2, 5, "log") \in CascadeLevel
        /\ C!Level(BaseKb * 4, 3, "alert") \in CascadeLevel
    BY <1>1, <1>2
  <2> QED  BY <1>3, <2>1, <2>2
<1> QED  BY <1>4, <1>5, <1>6

\* Every step of a cascade keeps what is known of its present stay.
LEMMA CascadeStep == CascadeInv /\ [C!Next]_(C!vars) => CascadeInv'
<1> SUFFICES ASSUME CascadeInv, [C!Next]_(C!vars) PROVE CascadeInv'
  OBVIOUS
<1>0. /\ levels \in Seq(CascadeLevel) /\ Len(levels) \in Nat /\ Len(levels) <= MaxLevels
      /\ casLevel \in 0..Len(levels) /\ MaxLevels \in Nat /\ MaxLevels >= 3
  BY LevelFacts, CascadeAssumption DEF CascadeInv, C!TypeOK
<1>1. CASE C!cascade_reset
  <2>1. levels' = levels /\ C!Idles
    BY <1>1 DEF C!cascade_reset
  <2> QED  BY <1>0, <2>1, CascadeIdles DEF CascadeLevel
<1>2. CASE C!cascade_policy_apply
  <2>1. C!Idles /\ \E p \in {"conservative", "aggressive", "monitor_only"} :
                     levels' = C!Preset(p)
    BY <1>2 DEF C!cascade_policy_apply
  <2>2. levels' \in Seq(CascadeLevel) /\ Len(levels') = 3
    BY <2>1, PolicyLevels
  <2> QED  BY <1>0, <2>1, <2>2, CascadeIdles DEF CascadeLevel
<1>3. CASE C!cascade_add_level
  <2>1. /\ casLevel' = casLevel /\ ticks_at_level' = ticks_at_level /\ casSeen' = casSeen
    BY <1>3 DEF C!cascade_add_level
  <2>2. fired' = fired
    BY <1>3, Zenon DEF C!cascade_add_level
  <2>3. /\ levels' \in Seq(CascadeLevel) /\ Len(levels') <= MaxLevels
        /\ Len(levels) <= Len(levels') /\ \A i \in 1..Len(levels) : levels'[i] = levels[i]
    <3>1. CASE Len(levels) < MaxLevels
      <4>1. PICK l \in CascadeLevels : levels' = Append(levels, l)
        BY <1>3, <3>1 DEF C!cascade_add_level
      <4>2. l \in CascadeLevel
        BY CascadeAssumption DEF CascadeLevel
      <4>3. /\ levels' \in Seq(CascadeLevel) /\ Len(levels') = Len(levels) + 1
            /\ \A i \in 1..Len(levels) : levels'[i] = levels[i]
        BY <1>0, <4>1, <4>2, AppendFacts
      <4> QED  BY <1>0, <3>1, <4>3
    <3>2. CASE ~(Len(levels) < MaxLevels)
      BY <1>0, <1>3, <3>2 DEF C!cascade_add_level
    <3> QED  BY <3>1, <3>2
  <2>4. casLevel \in 0..Len(levels')
    <3>1. Len(levels') \in Nat
      BY <2>3, SeqFacts
    <3> QED  BY <1>0, <2>3, <3>1
  <2>5. Begin' = Begin /\ (casLevel > 0 => Needs' = Needs)
    <3>1. casLevel > 0 => levels'[casLevel] = levels[casLevel]
      BY <1>0, <2>3
    <3> QED  BY <2>1, <3>1 DEF Begin, Needs
  <2>6. C!TypeOK'
    BY <2>1, <2>2, <2>3, <2>4, Zenon DEF CascadeInv, C!TypeOK
  <2> QED  BY <2>1, <2>2, <2>3, <2>5, <2>6, Zenon DEF CascadeInv, CascadeLevel
<1>4. CASE UNCHANGED C!vars
  <2>1. /\ casLevel' = casLevel /\ ticks_at_level' = ticks_at_level /\ casSeen' = casSeen
        /\ levels' = levels
    BY <1>4 DEF C!vars
  <2>2. fired' = fired
    BY <1>4, Zenon DEF C!vars
  <2>3. Begin' = Begin /\ Needs' = Needs
    BY <2>1 DEF Begin, Needs
  <2> QED  BY <2>1, <2>2, <2>3, Zenon DEF CascadeInv, C!TypeOK
<1> QED  BY <1>1, <1>2, <1>3, <1>4, CascadeUpdates DEF C!Next

\* A fresh cascade is idle.
LEMMA CascadeInit == C!Init => CascadeInv
<1> SUFFICES ASSUME C!Init PROVE CascadeInv
  OBVIOUS
<1>1. /\ levels = <<>> /\ casLevel = 0 /\ ticks_at_level = 0 /\ casSeen = <<>>
  BY DEF C!Init, C!Idle
<1>2. fired = FALSE
  BY Zenon DEF C!Init, C!Idle
<1>3. /\ levels \in Seq([threshold_kb : Nat, sustain_ticks : Nat,
                         action : {"log", "alert", "throttle", "kill"}])
      /\ casSeen \in Seq(CascadeRecord)
      /\ Len(levels) <= MaxLevels /\ casLevel \in 0..Len(levels) /\ ticks_at_level \in Nat
      /\ ~(casLevel > 0)
  BY <1>1, EmptySeq, CascadeAssumption
<1>4. C!TypeOK
  BY <1>2, <1>3, Zenon DEF C!TypeOK
<1> QED  BY <1>1, <1>3, <1>4, Zenon DEF CascadeInv

\* The stay of the property is the one that began after Begin.
LEMMA StayFires == CascadeInv => C!FiresOncePerStay
<1> SUFFICES ASSUME CascadeInv, casLevel > 0
             PROVE  \A i \in C!Stay :
                      casSeen[i].action # "none" <=>
                        i - (Len(casSeen) - C!Cardinality(C!Stay)) = Needs
  BY Zenon DEF C!FiresOncePerStay, Needs
<1> DEFINE n == Len(casSeen)
<1>1. n \in Nat /\ DOMAIN casSeen = 1..n /\ ticks_at_level \in Nat
  BY SeqFacts DEF CascadeInv, C!TypeOK
<1>2. /\ ticks_at_level > 0 /\ ticks_at_level <= n
      /\ \A i \in 1..n : i > Begin =>
           /\ casSeen[i].level = casLevel
           /\ casSeen[i].action # "none" <=> i - Begin = Needs
      /\ Begin > 0 => casSeen[Begin].level # casLevel
  BY Zenon DEF CascadeInv
<1>3. Begin = n - ticks_at_level /\ Begin \in 0..n
  BY <1>1, <1>2 DEF Begin
<1>4. C!Stay = (Begin + 1)..n
  <2>1. C!Stay = {i \in 1..n : \A j \in i..n : casSeen[j].level = casLevel}
    BY <1>1 DEF C!Stay
  <2> HIDE DEF n
  <2>2. ASSUME NEW i \in 1..n, i > Begin
        PROVE  \A j \in i..n : casSeen[j].level = casLevel
    <3>1. \A j \in i..n : j \in 1..n /\ j > Begin
      BY <1>1, <1>3, <2>2
    <3> QED  BY <1>2, <3>1, Zenon
  <2>3. ASSUME NEW i \in 1..n, ~(i > Begin)
        PROVE  ~(\A j \in i..n : casSeen[j].level = casLevel)
    <3>1. Begin > 0 /\ Begin \in i..n
      BY <1>1, <1>3, <2>3
    <3> QED  BY <1>2, <3>1, Zenon
  <2>4. (Begin + 1)..n = {i \in 1..n : i > Begin}
    BY <1>1, <1>3
  <2> QED  BY <2>1, <2>2, <2>3, <2>4, Zenon
<1>5. C!Cardinality(C!Stay) = ticks_at_level
  <2>1. Cardinality((Begin + 1)..n) = ticks_at_level
    BY <1>1, <1>2, <1>3, FS_Interval
  <2> QED  BY <1>4, <2>1, SameCardinality
<1>6. n - C!Cardinality(C!Stay) = Begin
  BY <1>1, <1>3, <1>5
<1>7. \A i \in C!Stay : i \in 1..n /\ i > Begin
  BY <1>1, <1>3, <1>4
<1> QED  BY <1>2, <1>6, <1>7, Zenon

\* For all levels, policies and sizes: a level acts once in a stay at it.
THEOREM CascadeIsTrue == C!Spec => []C!FiresOncePerStay
BY CascadeInit, CascadeStep, StayFires, PTL DEF C!Spec

-----------------------------------------------------------------------------
(* The probes.                                                             *)

\* One thread's entry changes, and the others stay.
LEMMA EntryChanged ==
  ASSUME NEW S1, NEW f \in [Threads -> S1], NEW t \in Threads, NEW x \in S1,
         NEW g, g = [f EXCEPT ![t] = x]
  PROVE  g \in [Threads -> S1] /\ g[t] = x /\ \A u \in Threads : u # t => g[u] = f[u]
OBVIOUS

\* Division with a remainder.
LEMMA DivMod ==
  ASSUME NEW a \in Int, NEW m \in Nat \ {0}
  PROVE  a % m \in 0..(m - 1) /\ a \div m \in Int /\ a = m * (a \div m) + (a % m)
OBVIOUS

\* There is only one.
LEMMA ModUnique ==
  ASSUME NEW m \in Nat \ {0}, NEW q \in Int, NEW r \in 0..(m - 1)
  PROVE  (m * q + r) % m = r /\ (m * q + r) \div m = q
OBVIOUS

\* A number below the modulus stays.
LEMMA ModSmall ==
  ASSUME NEW m \in Nat \ {0}, NEW a \in 0..(m - 1)
  PROVE  a % m = a
OBVIOUS

\* A number that went round once loses the modulus.
LEMMA ModOnce ==
  ASSUME NEW m \in Nat \ {0}, NEW a \in m..(2 * m - 1)
  PROVE  a % m = a - m
OBVIOUS

\* The counter wraps where the count of probes does.
LEMMA CounterFollows ==
  ASSUME NEW n \in Nat, NEW m \in Nat \ {0}
  PROVE  ((n % m) + 1) % m = (n + 1) % m
<1> DEFINE q == n \div m
           r == n % m
<1>1. r \in 0..(m - 1) /\ q \in Int /\ n = m * q + r
  BY DivMod
<1> HIDE DEF q, r
<1>2. CASE r + 1 < m
  <2>1. r + 1 \in 0..(m - 1) /\ n + 1 = m * q + (r + 1)
    BY <1>1, <1>2
  <2>2. (r + 1) % m = r + 1
    BY <2>1, ModSmall
  <2>3. (m * q + (r + 1)) % m = r + 1
    BY <1>1, <2>1, ModUnique
  <2> QED  BY <2>1, <2>2, <2>3 DEF r
<1>3. CASE r + 1 = m
  <2> DEFINE w == q + 1
             z == 0
  <2>1. n + 1 = m * w + z /\ z \in 0..(m - 1) /\ w \in Int
    BY <1>1, <1>3
  <2>2. r + 1 \in m..(2 * m - 1)
    BY <1>1, <1>3
  <2>3. (r + 1) % m = (r + 1) - m
    BY <2>2, ModOnce
  <2> HIDE DEF w, z
  <2>4. (m * w + z) % m = z
    BY <2>1, ModUnique
  <2>5. z = (r + 1) - m
    BY <1>1, <1>3 DEF z
  <2> QED  BY <2>1, <2>3, <2>4, <2>5 DEF r
<1> QED  BY <1>1, <1>2, <1>3

\* What holds of every thread's probe and of the counter.
LEMMA ProbeFacts ==
  ASSUME ProbeInv
  PROVE  /\ g_seq \in P!Words /\ g_seq \in Nat /\ g_seq < SeqMod /\ SeqMod \in Nat
         /\ made \in Nat /\ numbered \subseteq P!Words
         /\ making \in [Threads -> ProbeRecord \cup {Nobody}]
         /\ probes \in [Threads -> NumberedRecord \cup {Nobody}]
         /\ spans \in [Threads -> Int \X Int] /\ earlier \in [Threads -> SUBSET numbered]
         /\ made <= SeqMod => numbered = 0..(made - 1)
         /\ g_seq = made % SeqMod
         /\ \A t \in Threads : MakingTrue(t) /\ ProbeTrue(t)
         /\ IsFiniteSet(Busy) /\ Cardinality(Busy) \in Nat /\ made + Cardinality(Busy) <= MaxProbes
         /\ MaxProbes \in Nat
<1>1. g_seq \in Nat /\ g_seq < SeqMod /\ SeqMod \in Nat /\ MaxProbes \in Nat
  BY ProbeAssumption DEF ProbeInv, P!Words
<1>2. Busy \subseteq Threads
  BY DEF Busy
<1>3. IsFiniteSet(Busy) /\ Cardinality(Busy) \in Nat
  BY <1>2, ProbeAssumption, FS_Subset, FS_CardinalityType
<1> QED  BY <1>1, <1>3, Zenon DEF ProbeInv

\* probe_init has read: the thread is about to draw a number.
LEMMA Measures ==
  ASSUME ProbeInv, NEW t \in Threads, P!Measure(t) PROVE ProbeInv'
<1>1. PICK kind \in P!Kinds, info \in P!Infos :
        making' = [making EXCEPT ![t] =
          [kind |-> kind, value_kb |-> P!read_kind(info, kind),
           baseline_kb |-> P!read_kind(info, kind), delta_kb |-> 0]]
  BY DEF P!Measure
<1>2. /\ making[t] = Nobody /\ probes' = [probes EXCEPT ![t] = Nobody]
      /\ earlier' = [earlier EXCEPT ![t] = numbered]
      /\ g_seq' = g_seq /\ numbered' = numbered /\ made' = made /\ spans' = spans
      /\ made + Cardinality(Busy) < MaxProbes
  BY SameCardinality DEF P!Measure, Busy
<1> DEFINE kb == P!read_kind(info, kind)
<1> DEFINE p == [kind |-> kind, value_kb |-> kb, baseline_kb |-> kb, delta_kb |-> 0]
<1>3. kb \in Readings \cup {0} /\ kb \in Int
  BY ProbeAssumption DEF P!read_kind, P!Infos, P!Field, P!Kinds, P!Fields
<1> HIDE DEF kb
<1>4. p \in ProbeRecord /\ p.baseline_kb = p.value_kb /\ p.delta_kb = 0
  BY <1>3 DEF ProbeRecord
<1> HIDE DEF p
<1>5. /\ making' \in [Threads -> ProbeRecord \cup {Nobody}] /\ making'[t] = p
      /\ \A u \in Threads : u # t => making'[u] = making[u]
  <2>1. making' = [making EXCEPT ![t] = p]
    BY <1>1 DEF p, kb
  <2> QED  BY <1>4, <2>1, ProbeFacts, EntryChanged
<1>6. /\ probes' \in [Threads -> NumberedRecord \cup {Nobody}] /\ probes'[t] = Nobody
      /\ \A u \in Threads : u # t => probes'[u] = probes[u]
  BY <1>2, ProbeFacts, EntryChanged
<1>7. /\ earlier' \in [Threads -> SUBSET numbered]
      /\ \A u \in Threads : u # t => earlier'[u] = earlier[u]
  BY <1>2, ProbeFacts, EntryChanged
<1>8. made + Cardinality(Busy') <= MaxProbes
  <2>1. t \notin Busy /\ IsFiniteSet(Busy)
    BY <1>2, ProbeFacts DEF Busy
  <2>2. Busy' = IF p = Nobody THEN Busy ELSE Busy \cup {t}
    BY <1>2, <1>5 DEF Busy
  <2>3. Cardinality(Busy \cup {t}) = Cardinality(Busy) + 1
    BY <2>1, FS_AddElement
  <2>4. Cardinality(Busy') \in {Cardinality(Busy), Cardinality(Busy) + 1}
    BY <2>2, <2>3
  <2>5. made \in Nat /\ Cardinality(Busy) \in Nat /\ MaxProbes \in Nat
    BY ProbeFacts
  <2> QED  BY <1>2, <2>4, <2>5
<1>9. ASSUME NEW u \in Threads PROVE MakingTrue(u)' /\ ProbeTrue(u)'
  <2>1. MakingTrue(u) /\ ProbeTrue(u)
    BY ProbeFacts
  <2>2. CASE u = t
    BY <1>4, <1>5, <1>6, <2>2 DEF MakingTrue, ProbeTrue
  <2>3. CASE u # t
    BY <1>2, <1>5, <1>6, <1>7, <2>1, <2>3, Zenon DEF MakingTrue, ProbeTrue
  <2> QED  BY <2>2, <2>3
<1> QED  BY <1>2, <1>5, <1>6, <1>7, <1>8, <1>9, ProbeFacts, Zenon DEF ProbeInv

\* The number is drawn: it is the count of those drawn before.
LEMMA Numbers ==
  ASSUME ProbeInv, NEW t \in Threads, P!Number(t) PROVE ProbeInv'
<1> DEFINE m == making[t]
<1> DEFINE p == [kind |-> m.kind, value_kb |-> m.value_kb, baseline_kb |-> m.baseline_kb,
                 delta_kb |-> m.delta_kb, seq |-> g_seq]
<1>1. /\ m # Nobody /\ probes' = [probes EXCEPT ![t] = p]
      /\ spans' = [spans EXCEPT ![t] = <<m.value_kb, m.value_kb>>]
      /\ g_seq' = (g_seq + 1) % SeqMod /\ making' = [making EXCEPT ![t] = Nobody]
      /\ numbered' = numbered \cup {g_seq} /\ made' = made + 1 /\ earlier' = earlier
  BY DEF P!Number, P!Drawn
<1>2. /\ m \in ProbeRecord /\ m.value_kb \in Int /\ m.baseline_kb = m.value_kb /\ m.delta_kb = 0
  <2>1. m \in ProbeRecord
    BY <1>1, ProbeFacts
  <2>2. MakingTrue(t)
    BY ProbeFacts
  <2> QED  BY <1>1, <2>1, <2>2, ProbeAssumption DEF MakingTrue, ProbeRecord
<1>3. /\ p \in NumberedRecord /\ p.seq = g_seq /\ p.value_kb = m.value_kb
      /\ p.baseline_kb = m.value_kb /\ p.delta_kb = 0
  BY <1>2, ProbeFacts DEF ProbeRecord, NumberedRecord
<1> HIDE DEF m, p
<1>4. /\ making' \in [Threads -> ProbeRecord \cup {Nobody}] /\ making'[t] = Nobody
      /\ \A u \in Threads : u # t => making'[u] = making[u]
  BY <1>1, ProbeFacts, EntryChanged
<1>5. /\ probes' \in [Threads -> NumberedRecord \cup {Nobody}] /\ probes'[t] = p
      /\ \A u \in Threads : u # t => probes'[u] = probes[u]
  BY <1>1, <1>3, ProbeFacts, EntryChanged
<1>6. /\ spans' \in [Threads -> Int \X Int] /\ spans'[t][1] = m.value_kb /\ spans'[t][2] = m.value_kb
      /\ \A u \in Threads : u # t => spans'[u] = spans[u]
  <2>1. <<m.value_kb, m.value_kb>> \in Int \X Int
    BY <1>2
  <2>2. /\ spans' \in [Threads -> Int \X Int] /\ spans'[t] = <<m.value_kb, m.value_kb>>
        /\ \A u \in Threads : u # t => spans'[u] = spans[u]
    BY <1>1, <2>1, ProbeFacts, EntryChanged
  <2> QED  BY <2>2
<1>7. earlier' \in [Threads -> SUBSET numbered']
  BY <1>1, ProbeFacts
<1>8. g_seq' = made' % SeqMod /\ g_seq' \in P!Words
  <2>1. g_seq' = made' % SeqMod
    BY <1>1, ProbeFacts, ProbeAssumption, CounterFollows
  <2>2. (g_seq + 1) % SeqMod \in 0..(SeqMod - 1)
    <3>1. g_seq + 1 \in Int /\ SeqMod \in Nat \ {0}
      BY ProbeFacts, ProbeAssumption
    <3> QED  BY <3>1, DivMod
  <2> QED  BY <1>1, <2>1, <2>2 DEF P!Words
<1>9. made' <= SeqMod => g_seq = made /\ numbered = 0..(made - 1) /\ numbered' = 0..(made' - 1)
  <2> SUFFICES ASSUME made' <= SeqMod
               PROVE  g_seq = made /\ numbered = 0..(made - 1) /\ numbered' = 0..(made' - 1)
    OBVIOUS
  <2>1. made < SeqMod /\ made \in Nat /\ numbered = 0..(made - 1)
    BY <1>1, ProbeFacts, SMTT(30)
  <2>2. g_seq = made
    <3>1. made \in 0..(SeqMod - 1) /\ SeqMod \in Nat \ {0} /\ g_seq = made % SeqMod
      BY <2>1, ProbeFacts, ProbeAssumption
    <3> QED  BY <3>1, ModSmall
  <2> QED  BY <1>1, <2>1, <2>2
<1>10. made' + Cardinality(Busy') <= MaxProbes
  <2>1. Busy' = Busy \ {t} /\ t \in Busy
    BY <1>1, <1>4 DEF Busy, m
  <2>2. Cardinality(Busy \ {t}) = Cardinality(Busy) - 1
    BY <2>1, ProbeFacts, FS_RemoveElement
  <2> QED  BY <1>1, <2>1, <2>2, ProbeFacts
<1>11. ASSUME NEW u \in Threads PROVE MakingTrue(u)' /\ ProbeTrue(u)'
  <2>1. MakingTrue(u) /\ ProbeTrue(u) /\ earlier[u] \subseteq numbered
    BY ProbeFacts
  <2>2. CASE u = t
    <3>1. made' <= SeqMod => p.seq < made' /\ \A s \in earlier[u] : s < p.seq
      <4> SUFFICES ASSUME made' <= SeqMod
                   PROVE  p.seq < made' /\ \A s \in earlier[u] : s < p.seq
        OBVIOUS
      <4>1. p.seq = made /\ made' = made + 1 /\ made \in Nat /\ numbered = 0..(made - 1)
        BY <1>1, <1>3, <1>9, ProbeFacts
      <4> QED  BY <2>1, <4>1
    <3>2. m.value_kb = m.value_kb /\ 0 = m.value_kb - m.value_kb
      BY <1>2
    <3>3. ProbeTrue(u)'
      BY <1>1, <1>3, <1>5, <1>6, <2>2, <3>1, <3>2, Zenon DEF ProbeTrue
    <3> QED  BY <1>4, <2>2, <3>3, Zenon DEF MakingTrue
  <2>3. CASE u # t
    <3>1. probes[u] # Nobody => probes[u].seq \in Nat
      BY ProbeFacts DEF NumberedRecord, P!Words
    <3>2. probes[u] # Nobody /\ made' <= SeqMod =>
            probes[u].seq < made' /\ \A s \in earlier[u] : s < probes[u].seq
      <4>1. made' = made + 1 /\ made \in Nat /\ SeqMod \in Nat
        BY <1>1, ProbeFacts
      <4>2. made' <= SeqMod => made <= SeqMod
        BY <4>1
      <4>3. probes[u] # Nobody /\ made <= SeqMod =>
              probes[u].seq < made /\ \A s \in earlier[u] : s < probes[u].seq
        BY <2>1, Zenon DEF ProbeTrue
      <4>4. probes[u].seq \in Nat /\ probes[u].seq < made => probes[u].seq < made'
        BY <4>1
      <4> QED  BY <3>1, <4>2, <4>3, <4>4, Zenon
    <3> QED
      BY <1>1, <1>4, <1>5, <1>6, <2>1, <2>3, <3>2, Zenon DEF MakingTrue, ProbeTrue
  <2> QED  BY <2>2, <2>3
<1>12. numbered' \subseteq P!Words /\ made' \in Nat
  BY <1>1, ProbeFacts, SMTT(30)
<1> QED
  BY <1>4, <1>5, <1>6, <1>7, <1>8, <1>9, <1>10, <1>11, <1>12, Zenon DEF ProbeInv

\* A reading is compared with the one before it, or with the baseline.
LEMMA Samples ==
  ASSUME ProbeInv, NEW t \in Threads, P!probe_sample(t) PROVE ProbeInv'
<1> DEFINE p == probes[t]
<1>1. /\ p # Nobody
      /\ g_seq' = g_seq /\ making' = making /\ numbered' = numbered /\ earlier' = earlier
      /\ made' = made
  BY DEF P!probe_sample
<1>2. p \in NumberedRecord /\ ProbeTrue(t) /\ spans[t] \in Int \X Int
  BY <1>1, ProbeFacts
<1>3. PICK info \in P!Infos :
        /\ probes' = [probes EXCEPT ![t].value_kb = P!read_kind(info, p.kind),
                                    ![t].delta_kb = P!Delta(p, P!read_kind(info, p.kind))]
        /\ spans' = [spans EXCEPT ![t] = <<IF p.kind = "DELTA" THEN @[2] ELSE @[1],
                                           P!read_kind(info, p.kind)>>]
  BY DEF P!probe_sample
<1> DEFINE kb == P!read_kind(info, p.kind)
<1>4. kb \in Readings \cup {0} /\ kb \in Int
  BY <1>2, ProbeAssumption DEF P!read_kind, P!Infos, P!Field, P!Kinds, P!Fields, NumberedRecord
<1> DEFINE from == IF p.kind = "DELTA" THEN spans[t][2] ELSE spans[t][1]
<1> DEFINE d == P!Delta(p, kb)
<1>5. from \in Int /\ d = kb - from /\ d \in Int
  <2> HIDE DEF kb
  <2>1. /\ p.value_kb = spans[t][2] /\ (p.kind # "DELTA" => p.baseline_kb = spans[t][1])
    BY <1>1, <1>2, Zenon DEF ProbeTrue
  <2>2. spans[t][1] \in Int /\ spans[t][2] \in Int
    BY <1>2
  <2>3. CASE p.kind = "DELTA"
    BY <1>4, <2>1, <2>2, <2>3 DEF P!Delta
  <2>4. CASE p.kind # "DELTA"
    BY <1>4, <2>1, <2>2, <2>4 DEF P!Delta
  <2> QED  BY <2>3, <2>4
<1> DEFINE o == [[p EXCEPT !.value_kb = kb] EXCEPT !.delta_kb = d]
<1>6. probes' = [probes EXCEPT ![t] = o] /\ spans' = [spans EXCEPT ![t] = <<from, kb>>]
  BY <1>3, ProbeFacts
<1>o. o = [[p EXCEPT !.value_kb = kb] EXCEPT !.delta_kb = d]
  OBVIOUS
<1> HIDE DEF p, kb, d, from, o
<1>7. /\ o \in NumberedRecord /\ o.kind = p.kind /\ o.value_kb = kb
      /\ o.baseline_kb = p.baseline_kb /\ o.delta_kb = d /\ o.seq = p.seq
  BY <1>2, <1>4, <1>5, <1>o DEF NumberedRecord
<1>8. /\ probes' \in [Threads -> NumberedRecord \cup {Nobody}] /\ probes'[t] = o
      /\ \A u \in Threads : u # t => probes'[u] = probes[u]
  BY <1>6, <1>7, ProbeFacts, EntryChanged
<1>9. /\ spans' \in [Threads -> Int \X Int] /\ spans'[t] = <<from, kb>>
      /\ \A u \in Threads : u # t => spans'[u] = spans[u]
  <2>1. <<from, kb>> \in Int \X Int
    BY <1>4, <1>5
  <2> QED  BY <1>6, <2>1, ProbeFacts, EntryChanged
<1>10. ASSUME NEW u \in Threads PROVE MakingTrue(u)' /\ ProbeTrue(u)'
  <2>1. MakingTrue(u) /\ ProbeTrue(u)
    BY ProbeFacts
  <2>2. CASE u = t
    <3>1. making[t] = Nobody
      BY <1>1, <2>1, <2>2, Zenon DEF MakingTrue, p
    <3>2. spans'[t][1] = from /\ spans'[t][2] = kb
      BY <1>9
    <3>3. o.kind # "DELTA" => o.baseline_kb = from
      BY <1>1, <1>2, <1>7, Zenon DEF ProbeTrue, from, p
    <3>4. made <= SeqMod => o.seq < made /\ \A s \in earlier[t] : s < o.seq
      BY <1>1, <1>2, <1>7, Zenon DEF ProbeTrue, p
    <3> QED
      BY <1>1, <1>5, <1>7, <1>8, <2>2, <3>1, <3>2, <3>3, <3>4, Zenon DEF MakingTrue, ProbeTrue
  <2>3. CASE u # t
    BY <1>1, <1>8, <1>9, <2>1, <2>3, Zenon DEF MakingTrue, ProbeTrue
  <2> QED  BY <2>2, <2>3
<1>11. Busy' = Busy
  BY <1>1 DEF Busy
<1> QED  BY <1>1, <1>8, <1>9, <1>10, <1>11, ProbeFacts, Zenon DEF ProbeInv

\* The next deltas are about the reading of now.
LEMMA Rebases ==
  ASSUME ProbeInv, NEW t \in Threads, P!probe_reset_baseline(t) PROVE ProbeInv'
<1> DEFINE p == probes[t]
<1> DEFINE v == spans[t][2]
<1> DEFINE w == p.value_kb
<1> DEFINE z == 0
<1> DEFINE o == [[p EXCEPT !.baseline_kb = w] EXCEPT !.delta_kb = z]
<1>1. /\ p # Nobody
      /\ probes' = [probes EXCEPT ![t] = o] /\ spans' = [spans EXCEPT ![t] = <<v, v>>]
      /\ g_seq' = g_seq /\ making' = making /\ numbered' = numbered /\ earlier' = earlier
      /\ made' = made
  BY ProbeFacts DEF P!probe_reset_baseline
<1>2. p \in NumberedRecord /\ ProbeTrue(t) /\ v \in Int
  BY <1>1, ProbeFacts
<1>w. w = p.value_kb
  OBVIOUS
<1>z. z = 0
  OBVIOUS
<1>o. o = [[p EXCEPT !.baseline_kb = w] EXCEPT !.delta_kb = z]
  OBVIOUS
<1> HIDE DEF p, o, v, w, z
<1>i. w \in Int /\ z \in Int
  BY <1>2, <1>w, <1>z, ProbeAssumption DEF NumberedRecord
<1>7. /\ o \in NumberedRecord /\ o.kind = p.kind /\ o.value_kb = p.value_kb
      /\ o.baseline_kb = w /\ o.delta_kb = z /\ o.seq = p.seq
  BY <1>2, <1>i, <1>o DEF NumberedRecord
<1>8. /\ probes' \in [Threads -> NumberedRecord \cup {Nobody}] /\ probes'[t] = o
      /\ \A u \in Threads : u # t => probes'[u] = probes[u]
  BY <1>1, <1>7, ProbeFacts, EntryChanged
<1>9. /\ spans' \in [Threads -> Int \X Int] /\ spans'[t] = <<v, v>>
      /\ \A u \in Threads : u # t => spans'[u] = spans[u]
  <2>1. <<v, v>> \in Int \X Int
    BY <1>2
  <2> QED  BY <1>1, <2>1, ProbeFacts, EntryChanged
<1>10. ASSUME NEW u \in Threads PROVE MakingTrue(u)' /\ ProbeTrue(u)'
  <2>1. MakingTrue(u) /\ ProbeTrue(u)
    BY ProbeFacts
  <2>2. CASE u = t
    <3>1. making[t] = Nobody
      BY <1>1, <2>1, <2>2, Zenon DEF MakingTrue, p
    <3>2. spans'[t][1] = v /\ spans'[t][2] = v /\ z = v - v
      BY <1>2, <1>9, <1>z
    <3>3. p.value_kb = v /\ w = v
      BY <1>1, <1>2, <1>w, Zenon DEF ProbeTrue, v, p
    <3>4. made <= SeqMod => o.seq < made /\ \A s \in earlier[t] : s < o.seq
      BY <1>1, <1>2, <1>7, Zenon DEF ProbeTrue, p
    <3> QED
      BY <1>1, <1>7, <1>8, <2>2, <3>1, <3>2, <3>3, <3>4, Zenon DEF MakingTrue, ProbeTrue
  <2>3. CASE u # t
    BY <1>1, <1>8, <1>9, <2>1, <2>3, Zenon DEF MakingTrue, ProbeTrue
  <2> QED  BY <2>2, <2>3
<1>11. Busy' = Busy
  BY <1>1 DEF Busy
<1> QED  BY <1>1, <1>8, <1>9, <1>10, <1>11, ProbeFacts, Zenon DEF ProbeInv

\* Every step of a probe keeps what is known of all probes.
LEMMA ProbeStep == ProbeInv /\ [P!Next]_(P!vars) => ProbeInv'
<1> SUFFICES ASSUME ProbeInv, [P!Next]_(P!vars) PROVE ProbeInv'
  OBVIOUS
<1>1. CASE UNCHANGED P!vars
  <2>1. /\ g_seq' = g_seq /\ making' = making /\ numbered' = numbered /\ earlier' = earlier
        /\ made' = made /\ probes' = probes /\ spans' = spans
    BY <1>1 DEF P!vars
  <2>2. Busy' = Busy /\ \A t \in Threads : MakingTrue(t)' /\ ProbeTrue(t)'
    <3>1. \A t \in Threads : MakingTrue(t) /\ ProbeTrue(t)
      BY ProbeFacts
    <3> QED  BY <2>1, <3>1, Zenon DEF Busy, MakingTrue, ProbeTrue
  <2> QED  BY <2>1, <2>2, ProbeFacts, Zenon DEF ProbeInv
<1> QED  BY <1>1, Measures, Numbers, Samples, Rebases DEF P!Next

\* Before any probe has been made there is nothing to know.
LEMMA ProbeInit == P!Init => ProbeInv
<1> SUFFICES ASSUME P!Init PROVE ProbeInv
  OBVIOUS
<1>1. /\ g_seq = 0 /\ numbered = {} /\ made = 0
      /\ probes = [t \in Threads |-> Nobody] /\ making = [t \in Threads |-> Nobody]
      /\ earlier = [t \in Threads |-> {}] /\ spans = [t \in Threads |-> <<0, 0>>]
  BY DEF P!Init
<1>2. 0 % SeqMod = 0 /\ 0 \in P!Words
  <2>1. 0 \in 0..(SeqMod - 1) /\ SeqMod \in Nat \ {0}
    BY ProbeAssumption
  <2> QED  BY <2>1, ModSmall DEF P!Words
<1>3. Cardinality(Busy) = 0
  <2>1. Busy = {}
    BY <1>1 DEF Busy
  <2> QED  BY <2>1, FS_EmptySet
<1>4. /\ making \in [Threads -> ProbeRecord \cup {Nobody}]
      /\ probes \in [Threads -> NumberedRecord \cup {Nobody}]
      /\ spans \in [Threads -> Int \X Int] /\ earlier \in [Threads -> SUBSET numbered]
  BY <1>1
<1>5. \A t \in Threads : MakingTrue(t) /\ ProbeTrue(t)
  BY <1>1 DEF MakingTrue, ProbeTrue
<1>6. made + Cardinality(Busy) <= MaxProbes /\ made \in Nat
      /\ (made <= SeqMod => numbered = 0..(made - 1)) /\ numbered \subseteq P!Words
  BY <1>1, <1>3, ProbeAssumption
<1> QED  BY <1>1, <1>2, <1>4, <1>5, <1>6, Zenon DEF ProbeInv

\* What the invariant says of the numbers and of the deltas.
LEMMA ProbesOrdered == ProbeInv => P!TypeOK /\ P!SeqOrdersProbes /\ P!DeltaSpansReadings
<1> SUFFICES ASSUME ProbeInv PROVE P!TypeOK /\ P!SeqOrdersProbes /\ P!DeltaSpansReadings
  OBVIOUS
<1>1. P!TypeOK
  <2>1. made \in 0..MaxProbes
    BY ProbeFacts
  <2>2. ASSUME NEW t \in Threads
        PROVE  /\ probes[t] # Nobody =>
                    /\ probes[t].kind \in P!Kinds /\ probes[t].seq \in P!Words
                    /\ probes[t].value_kb \in Readings \cup {0}
                    /\ probes[t].delta_kb \in Int
               /\ making[t] # Nobody => making[t].kind \in P!Kinds
               /\ earlier[t] \subseteq numbered
    <3>1. /\ probes[t] \in NumberedRecord \cup {Nobody} /\ making[t] \in ProbeRecord \cup {Nobody}
          /\ earlier[t] \subseteq numbered
      BY ProbeFacts
    <3> QED  BY <3>1 DEF NumberedRecord, ProbeRecord
  <2> QED  BY <2>1, <2>2, ProbeFacts, Zenon DEF P!TypeOK
<1>2. P!SeqOrdersProbes
  <2> SUFFICES ASSUME made <= SeqMod
               PROVE  /\ P!Cardinality(numbered) = made
                      /\ \A t \in Threads : probes[t] # Nobody =>
                           \A s \in earlier[t] : s < probes[t].seq
    BY Zenon DEF P!SeqOrdersProbes
  <2>1. made \in Nat /\ numbered = 0..(made - 1)
    BY ProbeFacts
  <2>2. Cardinality(numbered) = made
    BY <2>1, FS_Interval
  <2>3. \A t \in Threads : ProbeTrue(t)
    BY ProbeFacts
  <2> QED  BY <2>2, <2>3, SameCardinality, Zenon DEF ProbeTrue
<1>3. P!DeltaSpansReadings
  <2>1. \A t \in Threads : ProbeTrue(t)
    BY ProbeFacts
  <2> QED  BY <2>1, Zenon DEF ProbeTrue, P!DeltaSpansReadings
<1> QED  BY <1>1, <1>2, <1>3

\* For all threads, readings and widths of the counter: until it wraps, no two
\* probes have one number and a probe has a greater one than all before it.
THEOREM SeqIsInOrder == P!Spec => []P!SeqOrdersProbes
BY ProbeInit, ProbeStep, ProbesOrdered, PTL DEF P!Spec

\* For all threads and readings: a delta spans the two readings it is about.
THEOREM DeltaIsTrue == P!Spec => []P!DeltaSpansReadings
BY ProbeInit, ProbeStep, ProbesOrdered, PTL DEF P!Spec

\* Halves, rounded towards 0, of the differences that there are.
LEMMA Halves ==
  ASSUME NEW k \in -3..3
  PROVE  P!Quotient(k, 2) = IF k <= -2 THEN -1 ELSE IF k >= 2 THEN 1 ELSE 0
<1>1. 0 \div 2 = 0 /\ 1 \div 2 = 0 /\ 2 \div 2 = 1 /\ 3 \div 2 = 1
  OBVIOUS
<1>2. k \in {-3, -2, -1, 0, 1, 2, 3}
  OBVIOUS
<1> QED  BY <1>1, <1>2 DEF P!Quotient

\* The age, in terms of the seconds and of what is left of them.
LEMMA AgeInParts ==
  ASSUME NEW a \in Int, NEW x \in 0..3, NEW b \in Int, NEW y \in 0..3,
         NEW m \in Int, NEW n \in Int, m = 4 * a + x, n = 4 * b + y
  PROVE  P!probe_age_ms(m, n) =
           (b - a) * 2 + (IF y - x <= -2 THEN -1 ELSE IF y - x >= 2 THEN 1 ELSE 0)
<1>1. m % 4 = x /\ m \div 4 = a /\ n % 4 = y /\ n \div 4 = b
  BY ModUnique
<1>2. y - x \in -3..3
  OBVIOUS
<1>3. P!TicksPerSec = 4 /\ P!TicksPerMs = 2 /\ P!MsPerSec = 2
  BY DEF P!TicksPerSec, P!TicksPerMs, P!MsPerSec
<1>4. P!probe_age_ms(m, n) = (b - a) * 2 + P!Quotient(y - x, 2)
  BY <1>1, <1>3 DEF P!probe_age_ms
<1> QED  BY <1>2, <1>4, Halves

\* For any times: the age is not negative, is within a millisecond of the true
\* one and does not shrink from one tick to the next.
LEMMA AgeOfAnyTimes ==
  ASSUME NEW m \in Nat, NEW n \in Nat, m <= n
  PROVE  /\ P!probe_age_ms(m, n) \in Int /\ P!probe_age_ms(m, n) >= 0
         /\ P!probe_age_ms(m, n) * 2 > n - m - 2
         /\ P!probe_age_ms(m, n) * 2 < n - m + 2
         /\ n > m => P!probe_age_ms(m, n) >= P!probe_age_ms(m, n - 1)
<1> DEFINE a == m \div 4
           x == m % 4
           b == n \div 4
           y == n % 4
           age == P!probe_age_ms(m, n)
<1>1. /\ a \in Int /\ x \in 0..3 /\ m = 4 * a + x
      /\ b \in Int /\ y \in 0..3 /\ n = 4 * b + y
  BY DivMod
<1> HIDE DEF a, x, b, y
<1>2. age = (b - a) * 2 + (IF y - x <= -2 THEN -1 ELSE IF y - x >= 2 THEN 1 ELSE 0)
  BY <1>1, AgeInParts
<1>3. n > m => age >= P!probe_age_ms(m, n - 1)
  <2>1. CASE y > 0
    <3> DEFINE u == y - 1
    <3>1. u \in 0..3 /\ n - 1 = 4 * b + u /\ n - 1 \in Int
      BY <1>1, <2>1
    <3> HIDE DEF u
    <3>2. P!probe_age_ms(m, n - 1) =
            (b - a) * 2 + (IF u - x <= -2 THEN -1 ELSE IF u - x >= 2 THEN 1 ELSE 0)
      BY <1>1, <3>1, AgeInParts
    <3> HIDE DEF age
    <3> QED  BY <1>1, <1>2, <2>1, <3>2 DEF u
  <2>2. CASE y = 0
    <3> DEFINE c == b - 1
    <3>1. 3 \in 0..3 /\ n - 1 = 4 * c + 3 /\ n - 1 \in Int /\ c \in Int
      BY <1>1, <2>2
    <3> HIDE DEF c
    <3>2. P!probe_age_ms(m, n - 1) =
            (c - a) * 2 + (IF 3 - x <= -2 THEN -1 ELSE IF 3 - x >= 2 THEN 1 ELSE 0)
      BY <1>1, <3>1, AgeInParts
    <3> HIDE DEF age
    <3> QED  BY <1>1, <1>2, <2>2, <3>1, <3>2 DEF c
  <2> QED  BY <1>1, <2>1, <2>2
<1> HIDE DEF age
<1>4. age \in Int /\ age >= 0 /\ age * 2 > n - m - 2 /\ age * 2 < n - m + 2
  BY <1>1, <1>2
<1> QED  BY <1>3, <1>4 DEF age

\* The age of a probe is close to the true one, however long the clock runs.
LEMMA AgesAreClose == P!AgeIsClose
<1>1. P!TicksPerMs = 2
  BY DEF P!TicksPerMs
<1>2. ASSUME NEW m \in 0..12, NEW n \in m..12
      PROVE  /\ P!probe_age_ms(m, n) >= 0
             /\ P!probe_age_ms(m, n) * P!TicksPerMs > n - m - P!TicksPerMs
             /\ P!probe_age_ms(m, n) * P!TicksPerMs < n - m + P!TicksPerMs
             /\ n > m => P!probe_age_ms(m, n) >= P!probe_age_ms(m, n - 1)
  <2>1. m \in Nat /\ n \in Nat /\ m <= n
    OBVIOUS
  <2> QED  BY <1>1, <2>1, AgeOfAnyTimes
<1> QED  BY <1>2, Zenon DEF P!AgeIsClose

-----------------------------------------------------------------------------
(* The verdicts: scores, levels, anomalies and the sink.                   *)

\* The greatest of some levels is one of them.
LEMMA MaxFacts ==
  ASSUME NEW R \in SUBSET (0..4), R # {}
  PROVE  V!Max(R) \in R /\ \A j \in R : j <= V!Max(R)
<1>1. PICK i \in R : \A j \in R : j <= i
  BY HasGreatest
<1>2. \E x \in R : \A y \in R : x >= y
  BY <1>1
<1>3. V!Max(R) \in R /\ \A y \in R : V!Max(R) >= y
  BY <1>2, Zenon DEF V!Max
<1> QED  BY <1>3

\* A greater size reaches all the thresholds that a smaller one reaches.
LEMMA PressureRises ==
  ASSUME pressureCfg \in [1..4 -> Sizes], NEW a \in Sizes, NEW b \in Sizes, a <= b
  PROVE  /\ V!pressure_evaluate(a) \in 0..4 /\ V!pressure_evaluate(b) \in 0..4
         /\ V!pressure_evaluate(a) <= V!pressure_evaluate(b)
<1> DEFINE R(s) == {0} \cup {level \in 1..4 : s >= pressureCfg[level]}
<1>1. /\ V!pressure_evaluate(a) = V!Max(R(a)) /\ V!pressure_evaluate(b) = V!Max(R(b))
  BY DEF V!pressure_evaluate
<1>2. \A s : R(s) \in SUBSET (0..4) /\ R(s) # {}
  OBVIOUS
<1>3. R(a) \subseteq R(b)
  <2>1. a \in Int /\ b \in Int /\ \A level \in 1..4 : pressureCfg[level] \in Int
    <3>1. \A s \in Sizes : s \in Int
      BY SizesAssumption
    <3>2. \A level \in 1..4 : pressureCfg[level] \in Sizes
      OBVIOUS
    <3> QED  BY <3>1, <3>2
  <2>2. ASSUME NEW j \in 1..4, a >= pressureCfg[j] PROVE b >= pressureCfg[j]
    BY <2>1, <2>2
  <2> QED  BY <2>2
<1> HIDE DEF R
<1>4. V!Max(R(a)) \in R(a) /\ V!Max(R(b)) \in R(b) /\ \A j \in R(b) : j <= V!Max(R(b))
  BY <1>2, MaxFacts
<1> QED  BY <1>1, <1>2, <1>3, <1>4

\* A share of the score stays within its bounds, and falls no more than what it
\* is of.
LEMMA ClampFacts ==
  ASSUME NEW v \in Int, NEW one \in Nat
  PROVE  /\ V!clampf(v, one) \in 0..one
         /\ \A w \in Int : w <= v => V!clampf(w, one) <= V!clampf(v, one)
         /\ v >= one => V!clampf(v, one) = one
BY DEF V!clampf

\* The measures, and what changing one does.
LEMMA VitalFacts ==
  ASSUME NEW v \in V!Vitals
  PROVE  /\ v.rss_kb \in Nat /\ v.peak_rss_kb \in {0, 2, 4} /\ v.quota_kb \in {0, 2, 4}
         /\ v.growth_rate \in {-512, 0, 512, 2048} /\ v.pressure \in {-50, 0, 50, 100, 150}
         /\ v.rss_kb \in Sizes
<1>1. DOMAIN V!Measures = {"rss_kb", "peak_rss_kb", "quota_kb", "growth_rate", "pressure"}
  BY DEF V!Measures
<1>2. /\ V!Measures["rss_kb"] = Sizes /\ V!Measures["peak_rss_kb"] = {0, 2, 4}
      /\ V!Measures["quota_kb"] = {0, 2, 4} /\ V!Measures["growth_rate"] = {-512, 0, 512, 2048}
      /\ V!Measures["pressure"] = {-50, 0, 50, 100, 150}
  BY DEF V!Measures
<1>3. \A m \in DOMAIN V!Measures : v[m] \in V!Measures[m]
  BY DEF V!Vitals
<1>4. /\ v.rss_kb \in Sizes /\ v.peak_rss_kb \in {0, 2, 4} /\ v.quota_kb \in {0, 2, 4}
      /\ v.growth_rate \in {-512, 0, 512, 2048} /\ v.pressure \in {-50, 0, 50, 100, 150}
  BY <1>1, <1>2, <1>3
<1>5. \A s \in Sizes : s \in Nat
  BY SizesAssumption
<1> QED  BY <1>4, <1>5

\* The shares of the score, from the best to the worst.
LEMMA ShareFacts ==
  ASSUME NEW v \in V!Vitals
  PROVE  /\ V!QuotaScore(v) \in 0..160 /\ V!PeakScore(v) \in 0..100
         /\ V!GrowthScore(v) \in 0..80 /\ V!PressureScore(v) \in 0..60
         /\ V!score_compute(v) = V!QuotaScore(v) + V!PeakScore(v) + V!GrowthScore(v)
                                   + V!PressureScore(v)
<1>1. /\ v.rss_kb \in Nat /\ v.peak_rss_kb \in {0, 2, 4} /\ v.quota_kb \in {0, 2, 4}
      /\ v.growth_rate \in Int /\ v.pressure \in Int
  BY VitalFacts
<1>2. V!QuotaScore(v) \in 0..160
  <2>1. v.quota_kb # 0 => (160 * (v.quota_kb - v.rss_kb)) \div v.quota_kb \in Int
    BY <1>1
  <2> QED  BY <2>1 DEF V!QuotaScore, V!clampf
<1>3. V!PeakScore(v) \in 0..100
  <2>1. v.peak_rss_kb # 0 => (200 * (v.peak_rss_kb - v.rss_kb)) \div v.peak_rss_kb \in Int
    BY <1>1
  <2> QED  BY <2>1 DEF V!PeakScore, V!clampf
<1>4. V!GrowthScore(v) \in 0..80
  <2>1. 80 - (80 * v.growth_rate) \div 1024 \in Int
    BY <1>1
  <2> QED  BY <2>1 DEF V!GrowthScore, V!clampf
<1>5. V!PressureScore(v) \in 0..60
  <2>1. 60 - (60 * v.pressure) \div 100 \in Int
    BY <1>1
  <2> QED  BY <2>1 DEF V!PressureScore, V!clampf
<1>6. V!score_compute(v) = V!QuotaScore(v) + V!PeakScore(v) + V!GrowthScore(v)
                           + V!PressureScore(v)
  <2> DEFINE q == V!QuotaScore(v)
             p == V!PeakScore(v)
             g == V!GrowthScore(v)
             r == V!PressureScore(v)
  <2>1. V!score_compute(v) = V!clampf(q + p + g + r, V!Full)
    BY Zenon DEF V!score_compute
  <2>2. V!Full = 400
    BY DEF V!Full
  <2>3. q \in 0..160 /\ p \in 0..100 /\ g \in 0..80 /\ r \in 0..60
    BY <1>2, <1>3, <1>4, <1>5
  <2> HIDE DEF q, p, g, r
  <2>4. q + p + g + r \in Int /\ q + p + g + r >= 0 /\ q + p + g + r <= 400
    BY <2>3
  <2>5. V!clampf(q + p + g + r, V!Full) = q + p + g + r
    BY <2>2, <2>4 DEF V!clampf
  <2>6. V!score_compute(v) = q + p + g + r
    BY <2>1, <2>5
  <2> QED  BY <2>6 DEF q, p, g, r
<1> QED  BY <1>2, <1>3, <1>4, <1>5, <1>6

\* Changing one measure changes no other.
LEMMA VitalsChange ==
  ASSUME NEW v \in V!Vitals, NEW m \in DOMAIN V!Measures, NEW x \in V!Measures[m]
  PROVE  [v EXCEPT ![m] = x] \in V!Vitals
<1> DEFINE All == UNION {V!Measures[k] : k \in DOMAIN V!Measures}
<1>1. v \in [DOMAIN V!Measures -> All] /\ \A k \in DOMAIN V!Measures : v[k] \in V!Measures[k]
  BY DEF V!Vitals
<1>2. x \in All
  OBVIOUS
<1> HIDE DEF All
<1> DEFINE w == [v EXCEPT ![m] = x]
<1>3. w \in [DOMAIN V!Measures -> All]
  BY <1>1, <1>2
<1>4. \A k \in DOMAIN V!Measures : w[k] \in V!Measures[k]
  BY <1>1
<1> QED  BY <1>3, <1>4 DEF V!Vitals, All

\* Whoever uses more has no greater a share for its quota and for its peak.
LEMMA UseLowersShares ==
  ASSUME NEW v \in V!Vitals, NEW w \in V!Vitals, v.rss_kb <= w.rss_kb,
         v.quota_kb = w.quota_kb, v.peak_rss_kb = w.peak_rss_kb
  PROVE  V!QuotaScore(w) <= V!QuotaScore(v) /\ V!PeakScore(w) <= V!PeakScore(v)
<1>1. /\ v.rss_kb \in Nat /\ w.rss_kb \in Nat
      /\ v.peak_rss_kb \in {0, 2, 4} /\ v.quota_kb \in {0, 2, 4}
  BY VitalFacts
<1>2. V!QuotaScore(w) <= V!QuotaScore(v)
  <2>1. CASE v.quota_kb = 0
    BY <2>1 DEF V!QuotaScore
  <2>2. CASE v.quota_kb = 2
    BY <1>1, <2>2 DEF V!QuotaScore, V!clampf
  <2>3. CASE v.quota_kb = 4
    BY <1>1, <2>3 DEF V!QuotaScore, V!clampf
  <2> QED  BY <1>1, <2>1, <2>2, <2>3
<1>3. V!PeakScore(w) <= V!PeakScore(v)
  <2>1. CASE v.peak_rss_kb = 0
    BY <2>1 DEF V!PeakScore
  <2>2. CASE v.peak_rss_kb = 2
    BY <1>1, <2>2 DEF V!PeakScore, V!clampf
  <2>3. CASE v.peak_rss_kb = 4
    BY <1>1, <2>3 DEF V!PeakScore, V!clampf
  <2> QED  BY <1>1, <2>1, <2>2, <2>3
<1> QED  BY <1>2, <1>3

\* So has whoever grows faster, and whoever is under more pressure.
LEMMA OthersLowerShares ==
  ASSUME NEW v \in V!Vitals, NEW w \in V!Vitals
  PROVE  /\ v.growth_rate <= w.growth_rate => V!GrowthScore(w) <= V!GrowthScore(v)
         /\ v.pressure <= w.pressure => V!PressureScore(w) <= V!PressureScore(v)
<1>1. /\ v.growth_rate \in Int /\ w.growth_rate \in Int
      /\ v.pressure \in Int /\ w.pressure \in Int
  BY VitalFacts
<1>2. v.growth_rate <= w.growth_rate => V!GrowthScore(w) <= V!GrowthScore(v)
  BY <1>1 DEF V!GrowthScore, V!clampf
<1>3. v.pressure <= w.pressure => V!PressureScore(w) <= V!PressureScore(v)
  BY <1>1 DEF V!PressureScore, V!clampf
<1> QED  BY <1>2, <1>3

\* Shares that are no greater make a score that is no greater.
LEMMA ScoresAdd ==
  ASSUME NEW v \in V!Vitals, NEW w \in V!Vitals,
         V!QuotaScore(w) <= V!QuotaScore(v), V!PeakScore(w) <= V!PeakScore(v),
         V!GrowthScore(w) <= V!GrowthScore(v), V!PressureScore(w) <= V!PressureScore(v)
  PROVE  V!score_compute(w) <= V!score_compute(v)
<1> DEFINE q(u) == V!QuotaScore(u)
           p(u) == V!PeakScore(u)
           g(u) == V!GrowthScore(u)
           r(u) == V!PressureScore(u)
<1>1. \A u \in V!Vitals : /\ q(u) \in Int /\ p(u) \in Int /\ g(u) \in Int /\ r(u) \in Int
                          /\ V!score_compute(u) = q(u) + p(u) + g(u) + r(u)
  BY ShareFacts
<1>2. q(w) <= q(v) /\ p(w) <= p(v) /\ g(w) <= g(v) /\ r(w) <= r(v)
  OBVIOUS
<1> HIDE DEF q, p, g, r
<1> QED  BY <1>1, <1>2

\* The score falls with what the process uses, its growth and the pressure, is
\* never critical without a quota, and healthy at the best
\* (score_compute, score_tier).
LEMMA ScoresFall ==
  ASSUME vitals \in V!Vitals
  PROVE  V!ScoreFalls
<1>1. ASSUME NEW m \in {"rss_kb", "growth_rate", "pressure"}, NEW x \in V!Measures[m],
             x >= vitals[m]
      PROVE  V!score_compute([vitals EXCEPT ![m] = x]) <= V!score_compute(vitals)
  <2> DEFINE w == [vitals EXCEPT ![m] = x]
  <2>1. DOMAIN V!Measures = {"rss_kb", "peak_rss_kb", "quota_kb", "growth_rate", "pressure"}
    BY DEF V!Measures
  <2>2. w \in V!Vitals
    BY <2>1, VitalsChange
  <2>3. DOMAIN vitals = DOMAIN V!Measures
    BY DEF V!Vitals
  <2>4. /\ w.quota_kb = vitals.quota_kb /\ w.peak_rss_kb = vitals.peak_rss_kb
        /\ m # "rss_kb" => w.rss_kb = vitals.rss_kb
        /\ m # "growth_rate" => w.growth_rate = vitals.growth_rate
        /\ m # "pressure" => w.pressure = vitals.pressure
        /\ w[m] = x
    BY <2>1, <2>3
  <2> HIDE DEF w
  <2>5. /\ vitals.rss_kb \in Int /\ vitals.growth_rate \in Int /\ vitals.pressure \in Int
        /\ w.rss_kb \in Int /\ w.growth_rate \in Int /\ w.pressure \in Int
    BY <2>2, VitalFacts
  <2>6. /\ vitals.rss_kb <= w.rss_kb /\ vitals.growth_rate <= w.growth_rate
        /\ vitals.pressure <= w.pressure
    <3>1. CASE m = "rss_kb"
      BY <1>1, <2>4, <2>5, <3>1
    <3>2. CASE m = "growth_rate"
      BY <1>1, <2>4, <2>5, <3>2
    <3>3. CASE m = "pressure"
      BY <1>1, <2>4, <2>5, <3>3
    <3> QED  BY <3>1, <3>2, <3>3
  <2>7. V!QuotaScore(w) <= V!QuotaScore(vitals) /\ V!PeakScore(w) <= V!PeakScore(vitals)
    BY <2>2, <2>4, <2>6, UseLowersShares
  <2>8. V!GrowthScore(w) <= V!GrowthScore(vitals) /\ V!PressureScore(w) <= V!PressureScore(vitals)
    BY <2>2, <2>6, OthersLowerShares
  <2>9. V!score_compute(w) <= V!score_compute(vitals)
    BY <2>2, <2>7, <2>8, ScoresAdd
  <2> QED  BY <2>9 DEF w
<1> DEFINE q == V!QuotaScore(vitals)
           p == V!PeakScore(vitals)
           g == V!GrowthScore(vitals)
           r == V!PressureScore(vitals)
<1>2. /\ q \in 0..160 /\ p \in 0..100 /\ g \in 0..80 /\ r \in 0..60
      /\ V!score_compute(vitals) = q + p + g + r
  BY ShareFacts
<1>3. vitals.quota_kb = 0 => V!score_tier(V!score_compute(vitals)) # "critical"
  <2> SUFFICES ASSUME vitals.quota_kb = 0
               PROVE  V!score_tier(V!score_compute(vitals)) # "critical"
    OBVIOUS
  <2>1. q = 160
    BY DEF V!QuotaScore
  <2> HIDE DEF q, p, g, r
  <2>2. q + p + g + r >= 140
    BY <1>2, <2>1
  <2>3. V!score_compute(vitals) >= 140
    BY <1>2, <2>2
  <2> QED  BY <2>3 DEF V!score_tier
<1>4. vitals.rss_kb = 0 /\ vitals.growth_rate <= 0 =>
        V!score_tier(V!score_compute(vitals)) = "healthy"
  <2> SUFFICES ASSUME vitals.rss_kb = 0, vitals.growth_rate <= 0
               PROVE  V!score_tier(V!score_compute(vitals)) = "healthy"
    OBVIOUS
  <2>1. vitals.quota_kb \in {0, 2, 4} /\ vitals.peak_rss_kb \in {0, 2, 4}
        /\ vitals.growth_rate \in Int
    BY VitalFacts
  <2>2. q = 160
    BY <2>1 DEF V!QuotaScore, V!clampf
  <2>3. p = 100
    BY <2>1 DEF V!PeakScore, V!clampf
  <2> HIDE DEF q, p, g, r
  <2>4. q + p + g + r >= 260
    BY <1>2, <2>2, <2>3
  <2>5. V!score_compute(vitals) >= 260
    BY <1>2, <2>4
  <2> QED  BY <2>5 DEF V!score_tier
<1> QED  BY <1>1, <1>3, <1>4 DEF V!ScoreFalls

\* Sizes are numbers.
LEMMA SizesCount == \A s \in Sizes : s \in Int /\ s >= 0
BY SizesAssumption

\* Greater sizes get no lower levels, in whatever order the thresholds are
\* (alert_evaluate, alert_build, pressure_evaluate, pressure_sample_fill).
LEMMA LevelsRising ==
  ASSUME pressureCfg \in [1..4 -> Sizes], sample # Nobody => sample.usage_ratio[2] > 0
  PROVE  V!LevelsRise
<1>1. \A s \in Sizes : s \in Int
  BY SizesCount
<1>2. \A a \in Sizes : \A b \in {s \in Sizes : s >= a} :
        V!pressure_evaluate(a) <= V!pressure_evaluate(b)
  BY <1>1, PressureRises
<1>3. ASSUME NEW c \in [warning_kb : Sizes, critical_kb : Sizes], NEW a \in Sizes
      PROVE  /\ \A b \in {s \in Sizes : s >= a} :
                  V!alert_evaluate(c, a) <= V!alert_evaluate(c, b)
             /\ V!alert_threshold(c, a) <= a
             /\ V!alert_evaluate(c, a) = 0 <=> a < c.warning_kb /\ a < c.critical_kb
  <2>1. a \in Int /\ c.warning_kb \in Int /\ c.critical_kb \in Int /\ a >= 0
    BY SizesCount
  <2>2. \A b \in {s \in Sizes : s >= a} : V!alert_evaluate(c, a) <= V!alert_evaluate(c, b)
    BY <1>1, <2>1 DEF V!alert_evaluate
  <2>3. V!alert_evaluate(c, a) = 0 <=> a < c.warning_kb /\ a < c.critical_kb
    BY <2>1 DEF V!alert_evaluate
  <2>4. V!alert_threshold(c, a) <= a
    <3>1. CASE a >= c.critical_kb
      <4>1. V!alert_evaluate(c, a) = 2
        BY <3>1 DEF V!alert_evaluate
      <4> QED  BY <2>1, <3>1, <4>1 DEF V!alert_threshold
    <3>2. CASE ~(a >= c.critical_kb) /\ a >= c.warning_kb
      <4>1. V!alert_evaluate(c, a) = 1
        BY <3>2 DEF V!alert_evaluate
      <4> QED  BY <2>1, <3>2, <4>1 DEF V!alert_threshold
    <3>3. CASE ~(a >= c.critical_kb) /\ ~(a >= c.warning_kb)
      <4>1. V!alert_evaluate(c, a) = 0
        BY <3>3 DEF V!alert_evaluate
      <4> QED  BY <2>1, <4>1 DEF V!alert_threshold
    <3> QED  BY <3>1, <3>2, <3>3
  <2> QED  BY <2>2, <2>3, <2>4
<1> QED  BY <1>2, <1>3 DEF V!LevelsRise

\* Spikes above the mean are drops below it, and slopes count alike up and down
\* (anomaly_feed).
LEMMA AnomaliesAreMirrored == V!AnomaliesMirror
<1> SUFFICES ASSUME NEW c \in V!AnomalyConfigs, NEW mean \in Sizes, NEW sd \in Sizes,
                    NEW slope \in Sizes, NEW value \in {v \in Sizes : v <= 2 * mean}
             PROVE  LET type   == V!anomaly_feed(c, value, mean, sd, slope)
                        mirror == V!anomaly_feed(c, 2 * mean - value, mean, sd, -slope)
                    IN  /\ type = "SPIKE" <=> mirror = "DROP"
                        /\ type = "TREND" <=> mirror = "TREND"
                        /\ sd = 0 => type \in {"TREND", "NONE"}
  BY Zenon DEF V!AnomaliesMirror
<1> DEFINE type   == V!anomaly_feed(c, value, mean, sd, slope)
           mirror == V!anomaly_feed(c, 2 * mean - value, mean, sd, -slope)
<1>1. mean \in Nat /\ sd \in Nat /\ slope \in Nat /\ value \in Nat
  BY SizesAssumption
<1>2. \/ c.spike = 3 /\ c.drop = 3 /\ c.trend = 2
      \/ c.spike = 1 /\ c.drop = 1 /\ c.trend = 0
  BY DEF V!AnomalyConfigs
<1>3. CASE c.spike = 3 /\ c.drop = 3 /\ c.trend = 2
  <2>1. type = "SPIKE" <=> mirror = "DROP"
    BY <1>1, <1>3 DEF V!anomaly_feed
  <2>2. type = "TREND" <=> mirror = "TREND"
    BY <1>1, <1>3 DEF V!anomaly_feed
  <2>3. sd = 0 => type \in {"TREND", "NONE"}
    BY <1>1, <1>3 DEF V!anomaly_feed
  <2> QED  BY <2>1, <2>2, <2>3
<1>4. CASE c.spike = 1 /\ c.drop = 1 /\ c.trend = 0
  <2>1. type = "SPIKE" <=> mirror = "DROP"
    BY <1>1, <1>4 DEF V!anomaly_feed
  <2>2. type = "TREND" <=> mirror = "TREND"
    BY <1>1, <1>4 DEF V!anomaly_feed
  <2>3. sd = 0 => type \in {"TREND", "NONE"}
    BY <1>1, <1>4 DEF V!anomaly_feed
  <2> QED  BY <2>1, <2>2, <2>3
<1> QED  BY <1>2, <1>3, <1>4

\* From the same baseline, whatever is no nearer is no less severe; from a
\* baseline of 0, nothing is severe (anomaly_report_build).
LEMMA SeverityRises ==
  ASSUME NEW w \in Reports, NEW d \in Reports, w.baseline_kb = d.baseline_kb
  PROVE  /\ Severity(w) \in 0..2 /\ Severity(d) \in 0..2
         /\ w.baseline_kb = 0 => Severity(w) = 0
         /\ V!Distance(w.current_kb, w.baseline_kb) <= V!Distance(d.current_kb, d.baseline_kb)
              => Severity(w) <= Severity(d)
<1> DEFINE x == V!Distance(w.current_kb, w.baseline_kb)
           y == V!Distance(d.current_kb, d.baseline_kb)
           b == w.baseline_kb
           Graded(r, z) == Severity(r) = IF b > 0 /\ 100 * z >= 50 * b THEN 2
                                         ELSE IF b > 0 /\ 100 * z >= 20 * b THEN 1 ELSE 0
<1>1. w.current_kb \in Int /\ d.current_kb \in Int /\ b \in Nat
  <2>1. \A s \in Sizes : s \in Nat
    BY SizesAssumption
  <2> QED  BY <2>1 DEF Reports
<1>2. x \in Nat /\ y \in Nat
  BY <1>1 DEF V!Distance
<1>3. Graded(w, x) /\ Graded(d, y)
  <2> DEFINE Far(p, z) == b > 0 /\ 100 * z >= p * b
  <2>1. Severity(w) = CASE Far(50, x) -> 2 [] Far(20, x) /\ ~Far(50, x) -> 1 [] OTHER -> 0
    BY Zenon DEF Severity, V!anomaly_report_severity
  <2>2. Severity(d) = CASE Far(50, y) -> 2 [] Far(20, y) /\ ~Far(50, y) -> 1 [] OTHER -> 0
    BY Zenon DEF Severity, V!anomaly_report_severity
  <2> HIDE DEF x, y, b
  <2> QED  BY <1>2, <2>1, <2>2
<1> HIDE DEF x, y
<1>4. x <= y => Severity(w) <= Severity(d)
  BY <1>1, <1>2, <1>3
<1>5. Severity(w) \in 0..2 /\ Severity(d) \in 0..2 /\ (b = 0 => Severity(w) = 0)
  BY <1>1, <1>2, <1>3
<1> QED  BY <1>4, <1>5 DEF x, y

\* What was written is further away than what was dropped
\* (anomaly_report_build, anomaly_sink_dispatch).
LEMMA GraverWritten ==
  ASSUME VerdictsInv
  PROVE  V!GraverIsWritten
<1>1. /\ sink.min_severity \in 0..2 /\ written \subseteq Reports /\ dropped \subseteq Reports
      /\ \A w \in written : Severity(w) >= sink.min_severity /\ sink.usable
      /\ \A d \in dropped : ~(Severity(d) >= sink.min_severity /\ sink.usable)
  BY DEF VerdictsInv, SinkRecord, V!Accepts, V!Severities
<1>2. ASSUME NEW w \in written, NEW d \in dropped,
             w.baseline_kb = d.baseline_kb /\ w.baseline_kb > 0
      PROVE  V!Distance(w.current_kb, w.baseline_kb) > V!Distance(d.current_kb, d.baseline_kb)
  <2> DEFINE x == V!Distance(w.current_kb, w.baseline_kb)
             y == V!Distance(d.current_kb, d.baseline_kb)
  <2>1. w \in Reports /\ d \in Reports
    BY <1>1
  <2>2. /\ Severity(w) \in 0..2 /\ Severity(d) \in 0..2
        /\ x <= y => Severity(w) <= Severity(d)
    BY <1>2, <2>1, SeverityRises
  <2>3. Severity(w) >= sink.min_severity /\ ~(Severity(d) >= sink.min_severity)
    BY <1>1
  <2>4. x \in Int /\ y \in Int
    <3>1. \A s \in Sizes : s \in Int
      BY SizesAssumption
    <3>2. /\ w.current_kb \in Int /\ w.baseline_kb \in Int
          /\ d.current_kb \in Int /\ d.baseline_kb \in Int
      BY <2>1, <3>1 DEF Reports
    <3> QED  BY <3>2 DEF V!Distance
  <2> HIDE DEF x, y
  <2>5. x > y
    BY <1>1, <2>2, <2>3, <2>4
  <2> QED  BY <2>5 DEF x, y
<1>3. ASSUME NEW w \in written, w.baseline_kb = 0
      PROVE  sink.min_severity = 0
  <2>1. w \in Reports
    BY <1>1
  <2>2. Severity(w) = 0
    BY <1>3, <2>1, SeverityRises
  <2> QED  BY <1>1, <2>2
<1> QED  BY <1>2, <1>3 DEF V!GraverIsWritten

\* Samples are appended up to a bound, or forgotten together.
LEMMA TrendSteps ==
  ASSUME samples \in Seq(Climbs), Len(samples) <= MaxClimb, V!TrendNext
  PROVE  samples' \in Seq(Climbs) /\ Len(samples') <= MaxClimb
<1>1. MaxClimb \in Nat
  BY VerdictAssumption
<1>2. CASE samples' = <<>>
  BY <1>1, <1>2
<1>3. CASE \E kb \in Climbs : Len(samples) < MaxClimb /\ samples' = Append(samples, kb)
  <2>1. PICK kb \in Climbs : Len(samples) < MaxClimb /\ samples' = Append(samples, kb)
    BY <1>3
  <2>2. Len(samples') = Len(samples) + 1 /\ samples' \in Seq(Climbs)
    BY <2>1, SeqFacts
  <2>3. Len(samples) \in Nat
    OBVIOUS
  <2> QED  BY <1>1, <2>1, <2>2, <2>3
<1> QED  BY <1>2, <1>3 DEF V!TrendNext

\* A sink accepts and drops, and is set up anew.
LEMMA SinkSteps ==
  ASSUME VerdictsInv, V!SinkNext
  PROVE  /\ sink' \in SinkRecord /\ written' \subseteq Reports /\ dropped' \subseteq Reports
         /\ \A w \in written' : V!Accepts(Severity(w))'
         /\ \A d \in dropped' : ~V!Accepts(Severity(d))'
<1>1. CASE V!anomaly_sink_init
  <2>1. written' = {} /\ dropped' = {}
    BY <1>1 DEF V!anomaly_sink_init
  <2>2. sink' \in SinkRecord
    <3>1. PICK type \in {"STDERR", "FILE", "CUSTOM"}, usable \in BOOLEAN,
               min_sev \in V!Severities :
            sink' = [type |-> type, usable |-> usable, min_severity |-> min_sev]
      BY <1>1, Zenon DEF V!anomaly_sink_init
    <3>2. [type |-> type, usable |-> usable, min_severity |-> min_sev] \in SinkRecord
      BY Zenon DEF SinkRecord
    <3> QED  BY <3>1, <3>2, Zenon
  <2> QED  BY <2>1, <2>2
<1>2. CASE V!anomaly_sink_dispatch
  <2>1. PICK c \in Sizes, b \in Sizes :
          LET report   == [current_kb |-> c, baseline_kb |-> b]
              severity == V!anomaly_report_severity(c, b)
          IN  /\ written' = IF V!Accepts(severity) THEN written \cup {report} ELSE written
              /\ dropped' = IF V!Accepts(severity) THEN dropped ELSE dropped \cup {report}
              /\ UNCHANGED sink
    BY <1>2 DEF V!anomaly_sink_dispatch
  <2> DEFINE r == [current_kb |-> c, baseline_kb |-> b]
  <2>2. r \in Reports /\ Severity(r) = V!anomaly_report_severity(c, b)
    BY DEF Reports, Severity
  <2>3. /\ written' = IF V!Accepts(Severity(r)) THEN written \cup {r} ELSE written
        /\ dropped' = IF V!Accepts(Severity(r)) THEN dropped ELSE dropped \cup {r}
        /\ sink' = sink
    BY <2>1, <2>2
  <2> HIDE DEF r
  <2>4. \A s : V!Accepts(s)' <=> V!Accepts(s)
    BY <2>3 DEF V!Accepts
  <2>5. /\ sink \in SinkRecord /\ written \subseteq Reports /\ dropped \subseteq Reports
        /\ \A w \in written : V!Accepts(Severity(w))
        /\ \A d \in dropped : ~V!Accepts(Severity(d))
    BY DEF VerdictsInv
  <2>6. CASE V!Accepts(Severity(r))
    <3>1. written' = written \cup {r} /\ dropped' = dropped
      BY <2>3, <2>6
    <3>2. \A w \in written' : V!Accepts(Severity(w))
      BY <2>5, <2>6, <3>1, Zenon
    <3> QED  BY <2>2, <2>3, <2>4, <2>5, <3>1, <3>2, Zenon
  <2>7. CASE ~V!Accepts(Severity(r))
    <3>1. written' = written /\ dropped' = dropped \cup {r}
      BY <2>3, <2>7
    <3>2. \A d \in dropped' : ~V!Accepts(Severity(d))
      BY <2>5, <2>7, <3>1, Zenon
    <3> QED  BY <2>2, <2>3, <2>4, <2>5, <3>1, <3>2, Zenon
  <2> QED  BY <2>6, <2>7
<1> QED  BY <1>1, <1>2 DEF V!SinkNext

\* A sample is filled from thresholds and sizes.
LEMMA LevelsSteps ==
  ASSUME VerdictsInv, V!LevelsNext
  PROVE  /\ pressureCfg' \in [1..4 -> Sizes]
         /\ sample'.rss_kb \in Sizes /\ sample'.level \in 0..4 /\ sample'.usage_ratio[2] > 0
<1>1. PICK kb \in Sizes, mem \in Sizes \cup {Nobody} :
        sample' = [rss_kb |-> kb, usage_ratio |-> <<kb, V!available_kb(mem)>>,
                   level |-> V!pressure_evaluate(kb)]
  BY DEF V!LevelsNext, V!pressure_sample_fill
<1>2. pressureCfg' = pressureCfg /\ pressureCfg \in [1..4 -> Sizes]
  BY DEF VerdictsInv, V!LevelsNext, V!pressure_sample_fill
<1>3. V!available_kb(mem) > 0
  <2>1. mem = Nobody \/ mem = 0 \/ (mem \in Int /\ mem >= 0)
    BY SizesCount
  <2> QED  BY <2>1 DEF V!available_kb
<1>4. V!pressure_evaluate(kb) \in 0..4
  <2>1. kb \in Int
    BY SizesCount
  <2>2. kb <= kb
    BY <2>1
  <2> QED  BY <1>2, <2>2, PressureRises
<1>5. /\ sample'.rss_kb = kb /\ sample'.level = V!pressure_evaluate(kb)
      /\ sample'.usage_ratio[2] = V!available_kb(mem)
  BY <1>1
<1> QED  BY <1>2, <1>3, <1>4, <1>5

\* A step of a verdict keeps what is known of all of them.
LEMMA VerdictsStep ==
  ASSUME VerdictsInv, [V!Next]_(V!vars)
  PROVE  VerdictsInv'
<1> DEFINE STrue == samples \in Seq(Climbs) /\ Len(samples) <= MaxClimb
           VTrue == vitals \in V!Vitals
           LTrue == /\ pressureCfg \in [1..4 -> Sizes]
                    /\ sample # Nobody => /\ sample.rss_kb \in Sizes /\ sample.level \in 0..4
                                          /\ sample.usage_ratio[2] > 0
           KTrue == /\ sink \in SinkRecord
                    /\ written \subseteq Reports /\ dropped \subseteq Reports
                    /\ \A w \in written : V!Accepts(Severity(w))
                    /\ \A d \in dropped : ~V!Accepts(Severity(d))
<1>1. STrue /\ VTrue /\ LTrue /\ KTrue
  BY DEF VerdictsInv
<1>2. samples' = samples => STrue'
  BY <1>1
<1>3. vitals' = vitals => VTrue'
  <2>1. VTrue <=> vitals \in V!Vitals
    OBVIOUS
  <2> QED  BY <1>1 DEF V!Vitals, V!Measures
<1>4. pressureCfg' = pressureCfg /\ sample' = sample => LTrue'
  BY <1>1
<1>5. sink' = sink /\ written' = written /\ dropped' = dropped => KTrue'
  BY <1>1 DEF V!Accepts
<1>6. CASE V!TrendNext /\ UNCHANGED <<vitals, V!levelVars, V!sinkVars>>
  <2>1. STrue'
    BY <1>1, <1>6, TrendSteps
  <2>2. VTrue' /\ LTrue' /\ KTrue'
    BY <1>3, <1>4, <1>5, <1>6 DEF V!levelVars, V!sinkVars
  <2> HIDE DEF STrue, VTrue, LTrue, KTrue
  <2> QED  BY <2>1, <2>2, Zenon DEF STrue, VTrue, LTrue, KTrue, VerdictsInv
<1>7. CASE V!ScoreNext /\ UNCHANGED <<samples, V!levelVars, V!sinkVars>>
  <2>1. PICK m \in DOMAIN V!Measures : \E v \in V!Measures[m] : vitals' = [vitals EXCEPT ![m] = v]
    BY <1>7 DEF V!ScoreNext
  <2>2. VTrue'
    <3>1. PICK v \in V!Measures[m] : vitals' = [vitals EXCEPT ![m] = v]
      BY <2>1
    <3>2. [vitals EXCEPT ![m] = v] \in V!Vitals
      BY <1>1, VitalsChange
    <3>3. vitals' \in V!Vitals
      BY <3>1, <3>2, Zenon
    <3> QED  BY <3>3
  <2>3. STrue' /\ LTrue' /\ KTrue'
    BY <1>2, <1>4, <1>5, <1>7 DEF V!levelVars, V!sinkVars
  <2> HIDE DEF STrue, VTrue, LTrue, KTrue
  <2> QED  BY <2>2, <2>3, Zenon DEF STrue, VTrue, LTrue, KTrue, VerdictsInv
<1>8. CASE V!LevelsNext /\ UNCHANGED <<samples, vitals, V!sinkVars>>
  <2>1. LTrue'
    BY <1>8, LevelsSteps
  <2>2. STrue' /\ VTrue' /\ KTrue'
    BY <1>2, <1>3, <1>5, <1>8 DEF V!sinkVars
  <2> HIDE DEF STrue, VTrue, LTrue, KTrue
  <2> QED  BY <2>1, <2>2, Zenon DEF STrue, VTrue, LTrue, KTrue, VerdictsInv
<1>9. CASE V!SinkNext /\ UNCHANGED <<samples, vitals, V!levelVars>>
  <2>1. KTrue'
    BY <1>9, SinkSteps
  <2>2. STrue' /\ VTrue' /\ LTrue'
    BY <1>2, <1>3, <1>4, <1>9 DEF V!levelVars
  <2> HIDE DEF STrue, VTrue, LTrue, KTrue
  <2> QED  BY <2>1, <2>2, Zenon DEF STrue, VTrue, LTrue, KTrue, VerdictsInv
<1>10. CASE UNCHANGED V!vars
  <2>1. STrue' /\ VTrue' /\ LTrue' /\ KTrue'
    BY <1>2, <1>3, <1>4, <1>5, <1>10 DEF V!vars, V!levelVars, V!sinkVars
  <2> HIDE DEF STrue, VTrue, LTrue, KTrue
  <2> QED  BY <2>1, Zenon DEF STrue, VTrue, LTrue, KTrue, VerdictsInv
<1> QED  BY <1>6, <1>7, <1>8, <1>9, <1>10 DEF V!Next

\* It holds when everything has been set up.
LEMMA VerdictsInit == V!Init => VerdictsInv
<1> SUFFICES ASSUME V!Init PROVE VerdictsInv
  OBVIOUS
<1>1. samples \in Seq(Climbs) /\ Len(samples) <= MaxClimb
  BY VerdictAssumption, SMTT(30) DEF V!Init, V!TrendInit
<1>2. vitals \in V!Vitals
  BY Zenon DEF V!Init, V!ScoreInit
<1>3. pressureCfg \in [1..4 -> Sizes] /\ sample = Nobody
  BY Zenon DEF V!Init, V!LevelsInit
<1>4. written = {} /\ dropped = {} /\ sink \in SinkRecord
  BY Zenon DEF V!Init, V!SinkInit, SinkRecord
<1> QED  BY <1>1, <1>2, <1>3, <1>4 DEF VerdictsInv

\* What is known of the verdicts gives them their types.
LEMMA VerdictsTyped == VerdictsInv => V!TypeOK
<1> SUFFICES ASSUME VerdictsInv PROVE V!TypeOK
  OBVIOUS
<1>1. V!score_compute(vitals) \in 0..V!Full
  <2> DEFINE q == V!QuotaScore(vitals)
             p == V!PeakScore(vitals)
             g == V!GrowthScore(vitals)
             r == V!PressureScore(vitals)
  <2>1. vitals \in V!Vitals
    BY DEF VerdictsInv
  <2>2. /\ q \in 0..160 /\ p \in 0..100 /\ g \in 0..80 /\ r \in 0..60
        /\ V!score_compute(vitals) = q + p + g + r
    BY <2>1, ShareFacts
  <2> HIDE DEF q, p, g, r
  <2> QED  BY <2>2 DEF V!Full
<1>2. sink.min_severity \in V!Severities
  BY DEF VerdictsInv, SinkRecord
<1>3. written \cup dropped \subseteq [current_kb : Sizes, baseline_kb : Sizes]
  BY Zenon DEF VerdictsInv, Reports
<1>4. sample # Nobody => sample.rss_kb \in Sizes /\ sample.level \in 0..4
  BY DEF VerdictsInv
<1>5. samples \in Seq(Climbs) /\ Len(samples) <= MaxClimb /\ vitals \in V!Vitals
  BY DEF VerdictsInv
<1> QED  BY <1>1, <1>2, <1>3, <1>4, <1>5, Zenon DEF V!TypeOK

\* The verdicts in a state of which this is known are monotone.
LEMMA VerdictsAre == VerdictsInv => V!ScoreFalls /\ V!LevelsRise /\ V!GraverIsWritten
<1> SUFFICES ASSUME VerdictsInv
             PROVE  V!ScoreFalls /\ V!LevelsRise /\ V!GraverIsWritten
  OBVIOUS
<1>1. /\ vitals \in V!Vitals /\ pressureCfg \in [1..4 -> Sizes]
      /\ sample # Nobody => sample.usage_ratio[2] > 0
  BY DEF VerdictsInv
<1> QED  BY <1>1, ScoresFall, LevelsRising, GraverWritten

-----------------------------------------------------------------------------
(* The components side by side: each of them behaves as it does alone.     *)

\* All are set up.
LEMMA AllInit ==
  Init => /\ E!Init /\ C!Init /\ S!Init /\ F!Init /\ Q!Init
          /\ B!Init /\ G!Init /\ L!Init /\ P!Init /\ V!Init
BY Zenon DEF Init

\* While one of the limits is in use, the other components stay as they are.
LEMMA LimitUse ==
  ASSUME UseLimit
  PROVE  /\ S!Next \/ UNCHANGED S!vars
         /\ F!Next \/ UNCHANGED F!vars
         /\ Q!Next \/ UNCHANGED Q!vars
         /\ B!Next \/ UNCHANGED B!vars
         /\ G!Next \/ UNCHANGED G!vars
         /\ L!Next \/ UNCHANGED L!vars
         /\ UNCHANGED E!vars /\ UNCHANGED C!vars /\ UNCHANGED P!vars /\ UNCHANGED V!vars
<1>1. /\ S!vars = senVars /\ F!vars = fenVars /\ Q!vars = quoVars
      /\ B!vars = budVars /\ G!vars = guaVars /\ L!vars = ceiVars
  BY DEF senVars, fenVars, quoVars, budVars, guaVars, ceiVars,
         S!vars, F!vars, Q!vars, B!vars, G!vars, L!vars
<1>2. UNCHANGED S!vars <=> UNCHANGED senVars
  BY Zenon DEF S!vars, senVars
<1>3. UNCHANGED F!vars <=> UNCHANGED fenVars
  BY Zenon DEF F!vars, fenVars
<1>4. UNCHANGED Q!vars <=> UNCHANGED quoVars
  BY Zenon DEF Q!vars, quoVars
<1>5. UNCHANGED B!vars <=> UNCHANGED budVars
  BY Zenon DEF B!vars, budVars
<1>6. UNCHANGED G!vars <=> UNCHANGED guaVars
  BY Zenon DEF G!vars, guaVars
<1>7. UNCHANGED L!vars <=> UNCHANGED ceiVars
  BY Zenon DEF L!vars, ceiVars
<1>8. UNCHANGED <<escVars, casVars, proVars, verVars>>
  BY Zenon DEF UseLimit, otherVars
<1>9. UNCHANGED E!vars /\ UNCHANGED C!vars /\ UNCHANGED P!vars /\ UNCHANGED V!vars
  BY <1>8, Zenon DEF E!vars, C!vars, P!vars, V!vars, V!levelVars, V!sinkVars,
                     escVars, casVars, proVars, verVars, levVars, sinVars
<1>10. /\ S!Next \/ UNCHANGED senVars
       /\ F!Next \/ UNCHANGED fenVars
       /\ Q!Next \/ UNCHANGED quoVars
       /\ B!Next \/ UNCHANGED budVars
       /\ G!Next \/ UNCHANGED guaVars
       /\ L!Next \/ UNCHANGED ceiVars
  BY Zenon DEF UseLimit
<1> QED  BY <1>2, <1>3, <1>4, <1>5, <1>6, <1>7, <1>9, <1>10, Zenon

\* While one of the others is in use, so do the limits and the rest.
LEMMA OtherUse ==
  ASSUME UseOther
  PROVE  /\ E!Next \/ UNCHANGED E!vars
         /\ C!Next \/ UNCHANGED C!vars
         /\ P!Next \/ UNCHANGED P!vars
         /\ V!Next \/ UNCHANGED V!vars
         /\ UNCHANGED S!vars /\ UNCHANGED F!vars /\ UNCHANGED Q!vars
         /\ UNCHANGED B!vars /\ UNCHANGED G!vars /\ UNCHANGED L!vars
<1>1. UNCHANGED <<senVars, fenVars, quoVars, budVars, guaVars, ceiVars>>
  BY Zenon DEF UseOther, limitVars
<1>2. /\ UNCHANGED S!vars /\ UNCHANGED F!vars /\ UNCHANGED Q!vars
      /\ UNCHANGED B!vars /\ UNCHANGED G!vars /\ UNCHANGED L!vars
  BY <1>1, Zenon DEF S!vars, F!vars, Q!vars, B!vars, G!vars, L!vars,
                     senVars, fenVars, quoVars, budVars, guaVars, ceiVars
<1>3. UNCHANGED E!vars <=> UNCHANGED escVars
  BY Zenon DEF E!vars, escVars
<1>4. UNCHANGED C!vars <=> UNCHANGED casVars
  BY Zenon DEF C!vars, casVars
<1>5. UNCHANGED P!vars <=> UNCHANGED proVars
  BY Zenon DEF P!vars, proVars
<1>6. /\ E!Next \/ UNCHANGED escVars
      /\ C!Next \/ UNCHANGED casVars
      /\ P!Next \/ UNCHANGED proVars
  BY Zenon DEF UseOther
<1>7. V!Next \/ UNCHANGED V!vars
  <2>1. /\ UNCHANGED levVars <=> UNCHANGED V!levelVars
        /\ UNCHANGED sinVars <=> UNCHANGED V!sinkVars
    BY Zenon DEF levVars, sinVars, V!levelVars, V!sinkVars
  <2>2. CASE UNCHANGED verVars
    BY <2>1, <2>2, Zenon DEF verVars, V!vars
  <2>3. CASE V!TrendNext /\ UNCHANGED <<vitals, levVars, sinVars>>
    BY <2>1, <2>3, Zenon DEF V!Next
  <2>4. CASE V!ScoreNext /\ UNCHANGED <<samples, levVars, sinVars>>
    BY <2>1, <2>4, Zenon DEF V!Next
  <2>5. CASE V!LevelsNext /\ UNCHANGED <<samples, vitals, sinVars>>
    BY <2>1, <2>5, Zenon DEF V!Next
  <2>6. CASE V!SinkNext /\ UNCHANGED <<samples, vitals, levVars>>
    BY <2>1, <2>6, Zenon DEF V!Next
  <2> QED  BY <2>2, <2>3, <2>4, <2>5, <2>6, Zenon DEF UseOther
<1> QED  BY <1>2, <1>3, <1>4, <1>5, <1>6, <1>7, Zenon

\* In a step of them all, each takes a step of its own or none.
LEMMA AllSteps ==
  [Next]_<<subject, limitVars, otherVars>> =>
    /\ [E!Next]_(E!vars) /\ [C!Next]_(C!vars) /\ [S!Next]_(S!vars) /\ [F!Next]_(F!vars)
    /\ [Q!Next]_(Q!vars) /\ [B!Next]_(B!vars) /\ [G!Next]_(G!vars) /\ [L!Next]_(L!vars)
    /\ [P!Next]_(P!vars) /\ [V!Next]_(V!vars)
<1>1. CASE UseLimit
  BY <1>1, LimitUse, Zenon
<1>2. CASE UseOther
  BY <1>2, OtherUse, Zenon
<1>3. CASE UNCHANGED <<subject, limitVars, otherVars>>
  <2>1. /\ UNCHANGED <<senVars, fenVars, quoVars, budVars, guaVars, ceiVars>>
        /\ UNCHANGED <<escVars, casVars, proVars, verVars>>
    BY <1>3, Zenon DEF limitVars, otherVars
  <2>2. /\ UNCHANGED S!vars /\ UNCHANGED F!vars /\ UNCHANGED Q!vars
        /\ UNCHANGED B!vars /\ UNCHANGED G!vars /\ UNCHANGED L!vars
    BY <2>1, Zenon DEF S!vars, F!vars, Q!vars, B!vars, G!vars, L!vars,
                       senVars, fenVars, quoVars, budVars, guaVars, ceiVars
  <2>3. UNCHANGED E!vars /\ UNCHANGED C!vars /\ UNCHANGED P!vars /\ UNCHANGED V!vars
    BY <2>1, Zenon DEF E!vars, C!vars, P!vars, V!vars, V!levelVars, V!sinkVars,
                       escVars, casVars, proVars, verVars, levVars, sinVars
  <2> QED  BY <2>2, <2>3, Zenon
<1> QED  BY <1>1, <1>2, <1>3, Zenon DEF Next

\* A behaviour of all of them is one of each: none disturbs another.
THEOREM LaddersAreIndependent ==
  Spec => /\ E!Spec /\ C!Spec /\ S!Spec /\ F!Spec /\ Q!Spec
          /\ B!Spec /\ G!Spec /\ L!Spec /\ P!Spec /\ V!Spec
BY AllInit, AllSteps, PTL DEF Spec, E!Spec, C!Spec, S!Spec, F!Spec, Q!Spec, B!Spec,
                              G!Spec, L!Spec, P!Spec, V!Spec

\* What holds throughout of each.
LaddersInv == /\ EscalateInv /\ CascadeInv /\ S!TypeOK /\ FenceInv /\ QuotaInv
              /\ BudgetInv /\ GuardInv /\ CeilingInv /\ ProbeInv /\ VerdictsInv

\* The inductive invariant of the components together.
THEOREM LaddersInvariant == Spec => []LaddersInv
<1>1. Init => LaddersInv
  BY AllInit, EscalateInit, CascadeInit, SentinelInit, FenceInit, QuotaInit, BudgetInit,
     GuardInit, CeilingInit, ProbeInit, VerdictsInit, Zenon DEF LaddersInv
<1>2. LaddersInv /\ [Next]_<<subject, limitVars, otherVars>> => LaddersInv'
  <2> SUFFICES ASSUME LaddersInv, [Next]_<<subject, limitVars, otherVars>>
               PROVE  LaddersInv'
    OBVIOUS
  <2>1. EscalateInv'
    BY AllSteps, EscalateStep, Zenon DEF LaddersInv
  <2>2. CascadeInv'
    BY AllSteps, CascadeStep, Zenon DEF LaddersInv
  <2>3. S!TypeOK'
    BY AllSteps, SentinelStep, Zenon DEF LaddersInv
  <2>4. FenceInv'
    BY AllSteps, FenceStep, Zenon DEF LaddersInv
  <2>5. QuotaInv'
    BY AllSteps, QuotaStep, Zenon DEF LaddersInv
  <2>6. BudgetInv'
    BY AllSteps, BudgetStep, Zenon DEF LaddersInv
  <2>7. GuardInv'
    BY AllSteps, GuardStep, Zenon DEF LaddersInv
  <2>8. CeilingInv'
    BY AllSteps, CeilingStep, Zenon DEF LaddersInv
  <2>9. ProbeInv'
    BY AllSteps, ProbeStep, Zenon DEF LaddersInv
  <2>10. VerdictsInv'
    BY AllSteps, VerdictsStep, Zenon DEF LaddersInv
  <2> QED  BY <2>1, <2>2, <2>3, <2>4, <2>5, <2>6, <2>7, <2>8, <2>9, <2>10, Zenon DEF LaddersInv
<1> QED  BY <1>1, <1>2, PTL DEF Spec

\* Every variable has its type.
THEOREM LaddersTypeCorrect == Spec => []TypeOK
<1>1. LaddersInv => TypeOK
  <2> SUFFICES ASSUME LaddersInv PROVE TypeOK
    OBVIOUS
  <2>1. E!TypeOK /\ C!TypeOK /\ S!TypeOK
    BY DEF LaddersInv, EscalateInv, CascadeInv
  <2>2. F!TypeOK /\ Q!TypeOK /\ B!TypeOK
    BY DEF LaddersInv, FenceInv, QuotaInv, BudgetInv
  <2>3. G!TypeOK /\ L!TypeOK
    BY DEF LaddersInv, GuardInv, CeilingInv
  <2>4. P!TypeOK
    BY ProbesOrdered, Zenon DEF LaddersInv
  <2>5. V!TypeOK
    BY VerdictsTyped, Zenon DEF LaddersInv
  <2> QED  BY <2>1, <2>2, <2>3, <2>4, <2>5, Zenon DEF TypeOK
<1> QED  BY <1>1, LaddersInvariant, PTL

\* A level of a cascade acts once per stay (cascade_update).
THEOREM LaddersFireOnce == Spec => []CascadeFiresOnce
<1>1. LaddersInv => CascadeFiresOnce
  BY StayFires, Zenon DEF LaddersInv, CascadeFiresOnce
<1> QED  BY <1>1, LaddersInvariant, PTL

\* What the limits count and answer is true of the values checked (fence_check,
\* quota_status, budget_update, budget_policy_evaluate, guard_check).
THEOREM LaddersCountTruly == Spec => []LimitsCountTruly
<1>1. LaddersInv => LimitsCountTruly
  BY Zenon DEF LaddersInv, FenceInv, QuotaInv, BudgetInv, GuardInv, LimitsCountTruly
<1> QED  BY <1>1, LaddersInvariant, PTL

\* A ceiling stays active through the soft band (ceiling_check).
THEOREM LaddersHaveHysteresis == Spec => []CeilingHasHysteresis
<1>1. LaddersInv => CeilingHasHysteresis
  BY Zenon DEF LaddersInv, CeilingInv, CeilingHasHysteresis
<1> QED  BY <1>1, LaddersInvariant, PTL

\* Probes are numbered in order, their deltas span the right readings, and their
\* age is nearly true (probe_init, probe_sample, probe_age_ms).
THEOREM LaddersProbesTell == Spec => []ProbesTell
<1>1. LaddersInv => ProbesTell
  BY ProbesOrdered, AgesAreClose, Zenon DEF LaddersInv, ProbesTell
<1> QED  BY <1>1, LaddersInvariant, PTL

\* Scores, levels, anomalies and the sink never judge more mildly what is worse
\* (score_compute, alert_evaluate, pressure_evaluate, anomaly_feed,
\* anomaly_sink_dispatch).
THEOREM LaddersJudgeMonotonely == Spec => []VerdictsMonotone
<1>1. LaddersInv => VerdictsMonotone
  BY VerdictsAre, AnomaliesAreMirrored, Zenon DEF LaddersInv, VerdictsMonotone
<1> QED  BY <1>1, LaddersInvariant, PTL

\* An escalation, a sentinel and the policy of a budget lose nothing
\* (escalate_update, sentinel_check, budget_policy_evaluate).
THEOREM LaddersLoseNothing == Spec => NothingLost
BY LaddersAreIndependent, EscalationHolds, EscalationResets, SentinelHears,
   PolicyForgetsNothing, PTL DEF NothingLost
=============================================================================
