------------------------------- MODULE Verdicts ----------------------------
(***************************************************************************)
(* The parts of memtrace-lite that judge numbers: the direction of a trend *)
(* (src/src/trend.c), the health score (score.c), the levels of alerts and *)
(* of memory pressure (alert.c, pressure.c), anomalies (anomaly.c) and the *)
(* reports of anomalies that a sink writes or drops (anomaly_report.c,     *)
(* anomaly_sink.c).  None calls another but the sink the report.           *)
(* Comparisons of quotients are multiplied out.                            *)
(***************************************************************************)
EXTENDS Integers, Sequences, FiniteSetsExt, SequencesExt

CONSTANTS Climbs, MaxClimb,     \* samples of a trend; bound: their number
          Sizes,                \* everything else in kB
          MaxReports,           \* bound: different reports to a sink
          Unread

-----------------------------------------------------------------------------
(* trend.c                                                                 *)

VARIABLES samples                    \* the argument of trend_analyze

VOLATILE_VARIANCE_THRESHOLD == 4000
GROWING_SLOPE_THRESHOLD == 10

Total(s) == FoldSeq(+, 0, s)
Squares(s) == FoldSeq(LAMBDA y, sum : y * y + sum, 0, s)

\* The slope of the regression line over x = 0, 1, ... is SlopeTop / Denom.
Denom(n) == n * Squares([i \in 1..n |-> i - 1]) - Total([i \in 1..n |-> i - 1]) ^ 2

\* Mutant: the first sample is at x = 1 in one of the sums.
SlopeTop_FromOne(s) ==
  Len(s) * Total([i \in DOMAIN s |-> i * s[i]])
    - Total([i \in DOMAIN s |-> i - 1]) * Total(s)

SlopeTop(s) ==
  Len(s) * Total([i \in DOMAIN s |-> (i - 1) * s[i]])
    - Total([i \in DOMAIN s |-> i - 1]) * Total(s)

\* The squares of the distances to the mean, n * n times their mean.
VarianceTop(s) == Len(s) * Squares([i \in DOMAIN s |-> s[i]]) - Total(s) ^ 2

\* The variance is looked at before the slope.
trend_analyze(s) ==
  LET n == Len(s) IN
  IF n < 2 THEN "STABLE"
  ELSE IF VarianceTop(s) > VOLATILE_VARIANCE_THRESHOLD * n * n THEN "VOLATILE"
  ELSE IF SlopeTop(s) > GROWING_SLOPE_THRESHOLD * Denom(n) THEN "GROWING"
  ELSE IF SlopeTop(s) < -GROWING_SLOPE_THRESHOLD * Denom(n) THEN "SHRINKING"
  ELSE "STABLE"

TrendInit == samples = <<>>

TrendNext == \/ /\ Len(samples) < MaxClimb
                /\ \E kb \in Climbs : samples' = Append(samples, kb)
             \/ samples' = <<>>

-----------------------------------------------------------------------------
(* score.c                                                                 *)

VARIABLES vitals                     \* the arguments of score_compute

Full == 400                          \* a score of 1

\* growth_rate in kB/s, pressure in hundredths; both may be out of range.
Measures == [rss_kb |-> Sizes, peak_rss_kb |-> {0, 2, 4}, quota_kb |-> {0, 2, 4},
             growth_rate |-> {-512, 0, 512, 2048}, pressure |-> {-50, 0, 50, 100, 150}]

Vitals == {v \in [DOMAIN Measures -> UNION {Measures[m] : m \in DOMAIN Measures}] :
             \A m \in DOMAIN Measures : v[m] \in Measures[m]}

clampf(v, one) == IF v < 0 THEN 0 ELSE IF v > one THEN one ELSE v

\* Mutant: no quota counts as one that is used up.
QuotaScore_Unlimited(v) ==
  IF v.quota_kb = 0 THEN 0
  ELSE clampf((160 * (v.quota_kb - v.rss_kb)) \div v.quota_kb, 160)

\* The shares of 0.40, 0.25, 0.20 and 0.15 that make the score.
QuotaScore(v) ==
  IF v.quota_kb = 0 THEN 160
  ELSE clampf((160 * (v.quota_kb - v.rss_kb)) \div v.quota_kb, 160)

PeakScore(v) ==
  IF v.peak_rss_kb = 0 THEN 100
  ELSE clampf((200 * (v.peak_rss_kb - v.rss_kb)) \div v.peak_rss_kb, 100)

\* Mutant: a share may become negative.
GrowthScore_Unclamped(v) == 80 - (80 * v.growth_rate) \div 1024

GrowthScore(v) ==
  IF v.growth_rate > 0 THEN clampf(80 - (80 * v.growth_rate) \div 1024, 80) ELSE 80

PressureScore(v) == clampf(60 - (60 * v.pressure) \div 100, 60)

score_compute(v) ==
  clampf(QuotaScore(v) + PeakScore(v) + GrowthScore(v) + PressureScore(v), Full)

\* 0.65 and 0.35
score_tier(score) ==
  IF score >= 260 THEN "healthy" ELSE IF score >= 140 THEN "warning" ELSE "critical"

ScoreInit == vitals \in Vitals

ScoreNext == \E m \in DOMAIN Measures : \E v \in Measures[m] : vitals' = [vitals EXCEPT ![m] = v]

-----------------------------------------------------------------------------
(* alert.c, pressure.c                                                     *)

VARIABLES cfg,                       \* the pressure thresholds, in any order
          sample                     \* what pressure_sample_fill fills, or Unread

levelVars == <<cfg, sample>>

\* Levels INFO, WARNING and CRITICAL.
alert_evaluate(alert_cfg, rss_kb) ==
  IF rss_kb >= alert_cfg.critical_kb THEN 2
  ELSE IF rss_kb >= alert_cfg.warning_kb THEN 1 ELSE 0

\* Mutant: the warning threshold is named for both levels.
alert_threshold_Warning(alert_cfg, rss_kb) ==
  IF alert_evaluate(alert_cfg, rss_kb) = 0 THEN 0 ELSE alert_cfg.warning_kb

\* threshold_kb of alert_build
alert_threshold(alert_cfg, rss_kb) ==
  CASE alert_evaluate(alert_cfg, rss_kb) = 2 -> alert_cfg.critical_kb
    [] alert_evaluate(alert_cfg, rss_kb) = 1 -> alert_cfg.warning_kb
    [] OTHER                                 -> 0

\* Mutant: the levels are tried from the lowest up.
pressure_evaluate_Upwards(rss_kb) ==
  LET reached == {level \in 1..4 : rss_kb >= cfg[level]}
  IN  IF reached = {} THEN 0 ELSE Min(reached)

\* Levels none, low, medium, high and critical; cfg maps a level to its
\* threshold.
pressure_evaluate(rss_kb) == Max({0} \cup {level \in 1..4 : rss_kb >= cfg[level]})

\* MemAvailable, or 1 if it cannot be read or is 0.
available_kb(mem) == IF mem = Unread \/ mem = 0 THEN 1 ELSE mem

\* A sample is left as it was when the process cannot be read.
pressure_sample_fill ==
  /\ \E rss_kb \in Sizes, mem \in Sizes \cup {Unread} :
       sample' = [rss_kb |-> rss_kb, usage_ratio |-> <<rss_kb, available_kb(mem)>>,
                  level |-> pressure_evaluate(rss_kb)]
  /\ UNCHANGED cfg

LevelsInit ==
  /\ cfg \in [1..4 -> Sizes]
  /\ sample = Unread

LevelsNext == pressure_sample_fill

-----------------------------------------------------------------------------
(* anomaly.c, anomaly_report.c, anomaly_sink.c                             *)

VARIABLES sink,                      \* type, file or fn, min_severity
          written, dropped           \* history: reports, since the sink's init

sinkVars == <<sink, written, dropped>>

\* The thresholds are multiples of the standard deviation, and of one sample.
AnomalyConfigs == {[spike |-> 3, drop |-> 3, trend |-> 2], [spike |-> 1, drop |-> 1, trend |-> 0]}

\* Mutant: the slope is compared without its absolute value.
anomaly_feed_Signed(c, value_kb, mean_kb, stddev_kb, slope) ==
  IF stddev_kb > 0 /\ value_kb - mean_kb > c.spike * stddev_kb THEN "SPIKE"
  ELSE IF stddev_kb > 0 /\ value_kb - mean_kb < -c.drop * stddev_kb THEN "DROP"
  ELSE IF slope > c.trend THEN "TREND"
  ELSE "NONE"

\* The type of the event.  Without a standard deviation only a slope counts.
anomaly_feed(c, value_kb, mean_kb, stddev_kb, slope) ==
  IF stddev_kb > 0 /\ value_kb - mean_kb > c.spike * stddev_kb THEN "SPIKE"
  ELSE IF stddev_kb > 0 /\ value_kb - mean_kb < -c.drop * stddev_kb THEN "DROP"
  ELSE IF slope > c.trend \/ -slope > c.trend THEN "TREND"
  ELSE "NONE"

Severities == 0..2                   \* LOW, MEDIUM, HIGH

Distance(a, b) == IF a < b THEN b - a ELSE a - b

\* Mutant: only growth is a deviation.
anomaly_report_severity_Growth(current_kb, baseline_kb) ==
  IF 100 * (current_kb - baseline_kb) >= 50 * baseline_kb THEN 2
  ELSE IF 100 * (current_kb - baseline_kb) >= 20 * baseline_kb THEN 1 ELSE 0

\* The severity that anomaly_report_build gives; a deviation from nothing is 0.
anomaly_report_severity(current_kb, baseline_kb) ==
  LET deviates(percent) ==
        baseline_kb > 0 /\ 100 * Distance(current_kb, baseline_kb) >= percent * baseline_kb
  IN  CASE deviates(50)                      -> 2
        [] deviates(20) /\ ~deviates(50)     -> 1
        [] OTHER                             -> 0

\* A file, or a callback, may be missing.
SinkInit ==
  /\ sink \in [type : {"STDERR", "FILE", "CUSTOM"}, usable : BOOLEAN, min_severity : Severities]
  /\ sink.type = "STDERR" => sink.usable
  /\ written = {} /\ dropped = {}

anomaly_sink_init ==
  /\ \E type \in {"STDERR", "FILE", "CUSTOM"}, usable \in BOOLEAN, min_sev \in Severities :
       /\ type = "STDERR" => usable
       /\ sink' = [type |-> type, usable |-> usable, min_severity |-> min_sev]
  /\ written' = {} /\ dropped' = {}

Accepts(severity) == severity >= sink.min_severity /\ sink.usable

anomaly_sink_dispatch ==
  \E current_kb, baseline_kb \in Sizes :
    LET report   == [current_kb |-> current_kb, baseline_kb |-> baseline_kb]
        severity == anomaly_report_severity(current_kb, baseline_kb)
    IN  /\ Cardinality(written \cup dropped) < MaxReports
        /\ written' = IF Accepts(severity) THEN written \cup {report} ELSE written
        /\ dropped' = IF Accepts(severity) THEN dropped ELSE dropped \cup {report}
        /\ UNCHANGED sink

SinkNext == anomaly_sink_init \/ anomaly_sink_dispatch

-----------------------------------------------------------------------------
vars == <<samples, vitals, levelVars, sinkVars>>

Init == TrendInit /\ ScoreInit /\ LevelsInit /\ SinkInit

Next == \/ TrendNext  /\ UNCHANGED <<vitals, levelVars, sinkVars>>
        \/ ScoreNext  /\ UNCHANGED <<samples, levelVars, sinkVars>>
        \/ LevelsNext /\ UNCHANGED <<samples, vitals, sinkVars>>
        \/ SinkNext   /\ UNCHANGED <<samples, vitals, levelVars>>

Spec == Init /\ [][Next]_vars

-----------------------------------------------------------------------------
\* Every variable has its type.
TypeOK ==
  /\ samples \in Seq(Climbs) /\ Len(samples) <= MaxClimb
  /\ vitals \in Vitals /\ score_compute(vitals) \in 0..Full
  /\ sample # Unread => sample.rss_kb \in Sizes /\ sample.level \in 0..4
  /\ sink.min_severity \in Severities
  /\ written \cup dropped \subseteq [current_kb : Sizes, baseline_kb : Sizes]

Pairs == {p \in (DOMAIN samples) \X (DOMAIN samples) : p[1] < p[2]}

\* A sum over all pairs of samples of what f makes of two of them.
SumOverPairs(f(_, _)) == FoldSet(LAMBDA p, sum : f(p[1], p[2]) + sum, 0, Pairs)

\* The verdict on a trend is that of all pairs of samples: volatile by the
\* squares of their differences, else growing or shrinking by the slopes
\* between them.  The samples in reverse order shrink where these grow, and
\* the same samples higher up get the same verdict (trend_analyze).
TrendTrue ==
  LET n == Len(samples)
      Spread == SumOverPairs(LAMBDA i, j : (samples[j] - samples[i]) ^ 2)
      Rise   == SumOverPairs(LAMBDA i, j : (j - i) * (samples[j] - samples[i]))
      Run    == SumOverPairs(LAMBDA i, j : (j - i) ^ 2)
      Opposite(d) == CASE d = "GROWING" -> "SHRINKING" [] d = "SHRINKING" -> "GROWING"
                       [] OTHER -> d
  IN  /\ trend_analyze(samples) =
           CASE n >= 2 /\ Spread > 4000 * n * n -> "VOLATILE"
             [] n >= 2 /\ Spread <= 4000 * n * n /\ Rise > 10 * Run  -> "GROWING"
             [] n >= 2 /\ Spread <= 4000 * n * n /\ Rise < -10 * Run -> "SHRINKING"
             [] OTHER -> "STABLE"
      /\ trend_analyze(Reverse(samples)) = Opposite(trend_analyze(samples))
      /\ trend_analyze([i \in DOMAIN samples |-> samples[i] + 7]) = trend_analyze(samples)

\* test_trend.c:15-17 asserts of these samples that they grow.
SteadyClimbGrows ==
  samples = <<1000, 1050, 1100, 1150, 1200, 1250>> => trend_analyze(samples) = "GROWING"

\* The score of a process never rises when it uses more, grows faster or the
\* pressure mounts, whatever the other measures are and out of their ranges,
\* too.  Without a quota a process is never judged critical, and the
\* best there is always is healthy (score_compute, score_tier).
ScoreFalls ==
  /\ \A m \in {"rss_kb", "growth_rate", "pressure"} : \A v \in Measures[m] :
       v >= vitals[m] =>
         score_compute([vitals EXCEPT ![m] = v]) <= score_compute(vitals)
  /\ vitals.quota_kb = 0 => score_tier(score_compute(vitals)) # "critical"
  /\ vitals.rss_kb = 0 /\ vitals.growth_rate <= 0 =>
       score_tier(score_compute(vitals)) = "healthy"

\* A greater size never gets a lower level, in whatever order the thresholds
\* are; an alert names a threshold that was reached, and none only below both.
\* The usage ratio of a sample is defined (alert_build, pressure_evaluate,
\* pressure_sample_fill).
LevelsRise ==
  /\ \A a \in Sizes : \A b \in {s \in Sizes : s >= a} :
       pressure_evaluate(a) <= pressure_evaluate(b)
  /\ \A alert_cfg \in [warning_kb : Sizes, critical_kb : Sizes] : \A a \in Sizes :
       /\ \A b \in {s \in Sizes : s >= a} :
            alert_evaluate(alert_cfg, a) <= alert_evaluate(alert_cfg, b)
       /\ alert_threshold(alert_cfg, a) <= a
       /\ alert_evaluate(alert_cfg, a) = 0
            <=> a < alert_cfg.warning_kb /\ a < alert_cfg.critical_kb
  /\ sample # Unread => sample.usage_ratio[2] > 0

\* A value as far below the mean as another is above it is a drop where that
\* is a spike, when the thresholds are the same; a slope counts the same up
\* and down (anomaly_feed).
AnomaliesMirror ==
  \A c \in AnomalyConfigs, mean, sd, slope \in Sizes :
  \A value \in {v \in Sizes : v <= 2 * mean} :
    LET type   == anomaly_feed(c, value, mean, sd, slope)
        mirror == anomaly_feed(c, 2 * mean - value, mean, sd, -slope)
    IN  /\ type = "SPIKE" <=> mirror = "DROP"
        /\ type = "TREND" <=> mirror = "TREND"
        /\ sd = 0 => type \in {"TREND", "NONE"}

\* Once a sink has written a report on a baseline, it drops none that is as far
\* from that baseline, above or below; from a baseline of 0 nothing is
\* far (anomaly_report_build, anomaly_sink_dispatch).
GraverIsWritten ==
  /\ \A w \in written, d \in dropped :
       w.baseline_kb = d.baseline_kb /\ w.baseline_kb > 0 =>
         Distance(w.current_kb, w.baseline_kb) > Distance(d.current_kb, d.baseline_kb)
  /\ \A w \in written : w.baseline_kb = 0 => sink.min_severity = 0
=============================================================================
