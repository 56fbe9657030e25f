----------------------------- MODULE MCLadders -----------------------------
(***************************************************************************)
(* The components that compare a value with limits, side by side: those of *)
(* several levels (escalate, cascade, sentinel), those of a soft and a     *)
(* hard limit (fence, quota, budget, guard, ceiling), those that judge     *)
(* (trend, score, levels, sink), and the probes, which compare a           *)
(* reading with an earlier one.  A behaviour uses one of them, the         *)
(* subject; the others are set up and left alone, as they share nothing    *)
(* with it.                                                                *)
(***************************************************************************)
EXTENDS Integers, Sequences, FiniteSets

CONSTANTS Sizes, MaxTime, CounterMod, BaseKb, MaxLevels, MaxTicks, MaxChecks,
          Threads, Readings, SeqMod, Nobody, MaxProbes,
          Climbs, MaxClimb, MaxReports,
          EscalateConfigs, CascadeLevels, Longs     \* given values at the end

ASSUME SizesAssumption   == Sizes \subseteq Nat /\ 0 \in Sizes
ASSUME LongsAssumption   == Longs \subseteq Int /\ 0 \in Longs
ASSUME CounterAssumption == CounterMod \in Nat /\ CounterMod > 1
ASSUME CascadeAssumption ==
  /\ MaxLevels \in Nat /\ MaxLevels > 2 /\ BaseKb \in Nat
  /\ CascadeLevels \subseteq [threshold_kb : Nat, sustain_ticks : Nat,
                              action : {"log", "alert", "throttle", "kill"}]

ASSUME ProbeAssumption ==
  /\ IsFiniteSet(Threads) /\ Readings \subseteq Nat
  /\ SeqMod \in Nat \ {0} /\ MaxProbes \in Nat

ASSUME VerdictAssumption == MaxClimb \in Nat

Thresholds(n, w, c, ms) == [notice_threshold |-> n, warning_threshold |-> w,
                            critical_threshold |-> c, auto_reset_ms |-> ms]

ASSUME EscalateAssumption ==
  EscalateConfigs \subseteq [notice_threshold : Nat, warning_threshold : Nat,
                            critical_threshold : Nat, auto_reset_ms : Nat]

VARIABLES subject,
          now, cfg, current_level, trigger_count, last_trigger_time, called,
          levels, casLevel, ticks_at_level, fired, casSeen,
          warn_kb, critical_kb, callback, state, last_value_kb, trip_count, heard,
          soft_kb, hard_kb, fenWarns, fenBreaches, peak_kb, fenSeen,
          soft_limit_kb, hard_limit_kb, quoCurrent, quoExceeds, quoWarns, verdict,
          limit_kb, warn_threshold_kb, budCurrent, budPeak, budExceeds,
          auto_reset_on_ok, status, kept, budSeen,
          guaSoft, guaHard, action, armed, guaBreaches, hard_breach_count,
          last_value, answers,
          ceiHard, ceiSoft, active, ceiBreaches, consecutive, last_breach_value, ceiSeen,
          g_seq, probes, making, numbered, earlier, made, spans,
          samples, vitals, pressureCfg, sample, sink, written, dropped

E == INSTANCE Escalate WITH Configs <- EscalateConfigs
C == INSTANCE Cascade WITH Levels <- CascadeLevels, current_level <- casLevel, seen <- casSeen
S == INSTANCE Sentinel
F == INSTANCE Fence WITH warn_count <- fenWarns, breach_count <- fenBreaches, seen <- fenSeen
Q == INSTANCE Quota WITH current_kb <- quoCurrent, exceed_count <- quoExceeds,
       warn_count <- quoWarns
B == INSTANCE Budget WITH MaxUpdates <- MaxChecks, current_kb <- budCurrent,
       peak_kb <- budPeak, exceed_count <- budExceeds, seen <- budSeen
G == INSTANCE Guard WITH soft_limit <- guaSoft, hard_limit <- guaHard,
       breach_count <- guaBreaches
L == INSTANCE Ceiling WITH Values <- Longs, hard_limit <- ceiHard, soft_limit <- ceiSoft,
       breach_count <- ceiBreaches, seen <- ceiSeen
P == INSTANCE Probe WITH MaxTicks <- 12
V == INSTANCE Verdicts WITH Unread <- Nobody, cfg <- pressureCfg

escVars == <<now, cfg, current_level, trigger_count, last_trigger_time, called>>
casVars == <<levels, casLevel, ticks_at_level, fired, casSeen>>
senVars == <<warn_kb, critical_kb, callback, state, last_value_kb, trip_count, heard>>
fenVars == <<soft_kb, hard_kb, fenWarns, fenBreaches, peak_kb, fenSeen>>
quoVars == <<soft_limit_kb, hard_limit_kb, quoCurrent, quoExceeds, quoWarns, verdict>>
budVars == <<limit_kb, warn_threshold_kb, budCurrent, budPeak, budExceeds,
             auto_reset_on_ok, status, kept, budSeen>>
guaVars == <<guaSoft, guaHard, action, armed, guaBreaches, hard_breach_count,
             last_value, answers>>
ceiVars == <<ceiHard, ceiSoft, active, ceiBreaches, consecutive, last_breach_value, ceiSeen>>

proVars == <<g_seq, probes, making, numbered, earlier, made, spans>>
levVars == <<pressureCfg, sample>>
sinVars == <<sink, written, dropped>>
verVars == <<samples, vitals, levVars, sinVars>>

limitVars == <<senVars, fenVars, quoVars, budVars, guaVars, ceiVars>>
otherVars == <<escVars, casVars, proVars, verVars>>

-----------------------------------------------------------------------------
Calm == [rss_kb |-> 0, peak_rss_kb |-> 0, quota_kb |-> 0, growth_rate |-> 0, pressure |-> 0]

Stderr == [type |-> "STDERR", usable |-> TRUE, min_severity |-> 0]

Init ==
  /\ subject \in {"escalate", "cascade", "sentinel", "fence", "quota", "budget",
                  "guard", "ceiling", "probe", "trend", "score", "levels", "sink"}
  /\ subject # "escalate" => cfg = CHOOSE c \in EscalateConfigs : TRUE
  /\ subject # "sentinel" => warn_kb = 0 /\ critical_kb = 0
  /\ subject # "fence"    => soft_kb = 0 /\ hard_kb = 0
  /\ subject # "quota"    => soft_limit_kb = 0 /\ hard_limit_kb = 0
  /\ subject # "budget"   => limit_kb = 0 /\ warn_threshold_kb = 0 /\ auto_reset_on_ok = FALSE
  /\ subject # "guard"    => guaSoft = 0 /\ guaHard = 0
  /\ subject # "ceiling"  => ceiSoft = 0 /\ ceiHard = 0
  /\ subject # "score"    => vitals = Calm
  /\ subject # "levels"   => pressureCfg = [level \in 1..4 |-> 0]
  /\ subject # "sink"     => sink = Stderr
  /\ E!Init /\ C!Init /\ S!Init /\ F!Init /\ Q!Init /\ B!Init /\ G!Init /\ L!Init
  /\ P!Init /\ V!Init

UseLimit ==
  /\ \/ /\ subject = "sentinel" /\ S!Next
        /\ UNCHANGED <<fenVars, quoVars, budVars, guaVars, ceiVars>>
     \/ /\ subject = "fence"    /\ F!Next
        /\ UNCHANGED <<senVars, quoVars, budVars, guaVars, ceiVars>>
     \/ /\ subject = "quota"    /\ Q!Next
        /\ UNCHANGED <<senVars, fenVars, budVars, guaVars, ceiVars>>
     \/ /\ subject = "budget"   /\ B!Next
        /\ UNCHANGED <<senVars, fenVars, quoVars, guaVars, ceiVars>>
     \/ /\ subject = "guard"    /\ G!Next
        /\ UNCHANGED <<senVars, fenVars, quoVars, budVars, ceiVars>>
     \/ /\ subject = "ceiling"  /\ L!Next
        /\ UNCHANGED <<senVars, fenVars, quoVars, budVars, guaVars>>
  /\ UNCHANGED <<subject, otherVars>>

UseOther ==
  /\ \/ /\ subject = "escalate" /\ E!Next
        /\ UNCHANGED <<casVars, proVars, verVars>>
     \/ /\ subject = "cascade"  /\ C!Next
        /\ UNCHANGED <<escVars, proVars, verVars>>
     \/ /\ subject = "probe"    /\ P!Next
        /\ UNCHANGED <<escVars, casVars, verVars>>
     \/ /\ subject = "trend"    /\ V!TrendNext
        /\ UNCHANGED <<escVars, casVars, proVars, vitals, levVars, sinVars>>
     \/ /\ subject = "score"    /\ V!ScoreNext
        /\ UNCHANGED <<escVars, casVars, proVars, samples, levVars, sinVars>>
     \/ /\ subject = "levels"   /\ V!LevelsNext
        /\ UNCHANGED <<escVars, casVars, proVars, samples, vitals, sinVars>>
     \/ /\ subject = "sink"     /\ V!SinkNext
        /\ UNCHANGED <<escVars, casVars, proVars, samples, vitals, levVars>>
  /\ UNCHANGED <<subject, limitVars>>

Next == UseLimit \/ UseOther

Spec == Init /\ [][Next]_<<subject, limitVars, otherVars>>

-----------------------------------------------------------------------------
\* Every component keeps its types.
TypeOK ==
  /\ E!TypeOK /\ C!TypeOK /\ S!TypeOK /\ F!TypeOK
  /\ Q!TypeOK /\ B!TypeOK /\ G!TypeOK /\ L!TypeOK
  /\ subject = "probe" => P!TypeOK
  /\ subject \in {"trend", "score", "levels", "sink"} => V!TypeOK

\* An escalation loses its level only as a whole, and after the quiet period,
\* no step up of a sentinel goes unheard, be it that the callback resets the
\* sentinel, and the policy forgets no breach of a budget that is exceeded, if
\* it is handed the verdict of the last update (escalate_update, sentinel_check,
\* budget_policy_evaluate).
NothingLost ==
  E!NeverDemoted /\ E!QuietResets /\ S!StepsUpTrip /\ B!ResetsWithinLimit

\* A level of a cascade acts once per stay (cascade_update).
CascadeFiresOnce == C!FiresOncePerStay

\* What a fence, a quota, a budget and its policy, and a guard count and answer
\* is true of the values checked since the reset (fence_check, quota_status,
\* budget_update, budget_policy_evaluate, guard_check).
LimitsCountTruly ==
  F!CountsOnce /\ Q!StatusIsVerdict /\ B!BudgetTrue /\ G!RunIsUnbroken

\* A ceiling stays active through the soft band (ceiling_check).
CeilingHasHysteresis == L!ActiveHasHysteresis

\* Probes are numbered in the order in which they were made, their deltas are
\* about the readings they should be, and their age is nearly true
\* (probe_init, probe_sample, probe_age_ms).
ProbesTell ==
  subject = "probe" => P!SeqOrdersProbes /\ P!DeltaSpansReadings /\ P!AgeIsClose

\* The verdicts on the health of a process, on its size and on anomalies never
\* get milder as what they judge gets worse (score_compute, alert_evaluate,
\* pressure_evaluate, anomaly_feed, anomaly_sink_dispatch).
VerdictsMonotone ==
  /\ subject = "score"  => V!ScoreFalls
  /\ subject = "levels" => V!LevelsRise /\ V!AnomaliesMirror
  /\ subject = "sink"   => V!GraverIsWritten

\* The verdict on a trend is that of all pairs of its samples (trend_analyze).
TrendsTell == subject = "trend" => V!TrendTrue

\* test_trend.c:15-17 asserts that a steady climb is growing.
SteadyClimbGrows == V!SteadyClimbGrows

\* A trip of the sentinel changes its state: sentinel.h:5 and
\* test_sentinel.c:85-87 say so.
SentinelTripsOnTransitions == S!TripsOnTransitions

-----------------------------------------------------------------------------
(* Values of the constants.                                                *)

\* In order, without a warning of its own, in reverse order; 0 never resets.
FourConfigs == {Thresholds(1, 2, 4, 2), Thresholds(2, 2, 3, 1),
                Thresholds(4, 3, 1, 2), Thresholds(1, 3, 5, 0)}

\* A level that waits, one that fires at once and one above both.
ThreeLevels == {[threshold_kb |-> 1, sustain_ticks |-> 2, action |-> "log"],
                [threshold_kb |-> 3, sustain_ticks |-> 0, action |-> "kill"],
                [threshold_kb |-> 3, sustain_ticks |-> 3, action |-> "alert"]}

\* Below 0, too.
FourLongs == -1..2
=============================================================================
