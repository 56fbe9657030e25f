------------------------------ MODULE MCStores -----------------------------
(***************************************************************************)
(* Everything in memtrace-lite that keeps samples, side by side: the       *)
(* stores of recent samples, the tables, the accumulators, the tracker,    *)
(* the epoch and the filters.  A behaviour uses one of them, the subject;  *)
(* the others are set up and left alone, as they share nothing with it.    *)
(***************************************************************************)
EXTENDS Integers, Sequences

CONSTANTS Sizes, Largest, Nothing,
          Capacities, MaxSamples, MinReady, MaxClock,               \* stores
          Labels, Names, Pids, Room, Categories, Bytes, MaxEntries, MaxEvents,
          MaxCount, MaxGeneration, Latches, MaxTriggers, MaxOffers, \* tables
          MaxFed, MaxMoment, MaxSnapshots, MaxTicks, MaxRecords,    \* meters, tracker
          Bounds, Substrings, Empty, ChainMax, MaxCalls             \* filters

ASSUME SizesAssumption      == Sizes \subseteq Nat /\ 0 \in Sizes
ASSUME CapacitiesAssumption == Capacities \subseteq Nat \ {0}
ASSUME MaxEntriesAssumption == MaxEntries \in Nat
ASSUME RoomAssumption       == Room \in Nat
ASSUME BytesAssumption      == Bytes \subseteq Int
ASSUME BoundsAssumption     == Bounds \subseteq Nat \cup {-1}
ASSUME SubstringsAssumption == -1 \notin Substrings \cup {Empty}
ASSUME NamesAssumption      ==
  \A m, n \in Names : m.stem = n.stem /\ (m.long <=> n.long) => m = n
ASSUME LabelsAssumption     ==
  \A l, m \in Labels : l.stem = m.stem /\ (l.long <=> m.long) => l = m

ShortLabels == {[stem |-> s, long |-> FALSE] : s \in {"a", "b", "c", "d"}}
MixedLabels == {[stem |-> "a", long |-> b] : b \in BOOLEAN}
                 \cup {[stem |-> "b", long |-> FALSE]}

SmallAmounts == -2..1
SmallBounds  == -1..1

VARIABLES subject,
          bufCapacity, bufData, bufHead, bufTail, bufCount, out,
          hisCapacity, hisEntries, hisHead, hisCount,
          winCapacity, winSamples, winHead, winCount,
          pivCapacity, pivSamples, pivHead, pivCount, pivot, upper, lower, pivRecent

R == INSTANCE RingBuf WITH Samples <- Sizes, capacity <- bufCapacity,
       data <- bufData, head <- bufHead, tail <- bufTail, count <- bufCount
H == INSTANCE History WITH capacity <- hisCapacity, entries <- hisEntries,
       head <- hisHead, count <- hisCount
W == INSTANCE Window WITH Values <- Sizes, Times <- {0, 1}, capacity <- winCapacity,
       samples <- winSamples, head <- winHead, count <- winCount
P == INSTANCE Pivot WITH Values <- Sizes, capacity <- pivCapacity,
       samples <- pivSamples, head <- pivHead, count <- pivCount, recent <- pivRecent

bufVars == <<bufCapacity, bufData, bufHead, bufTail, bufCount, out>>
hisVars == <<hisCapacity, hisEntries, hisHead, hisCount>>
winVars == <<winCapacity, winSamples, winHead, winCount>>
pivVars == <<pivCapacity, pivSamples, pivHead, pivCount, pivot, upper, lower, pivRecent>>
storeVars == <<bufVars, hisVars, winVars, pivVars>>

VARIABLES sbEntries, sbResult,
          entries, under, result,
          ledgerEntries, net, top,
          categories, generation, handles, sums,
          latch, group, any_triggered, all_triggered, triggered_count, heard, steady

S == INSTANCE Scoreboard WITH Scores <- Sizes, MaxEntries <- Room,
        entries <- sbEntries, result <- sbResult
K == INSTANCE Checkpoint WITH MaxEntries <- Room
A == INSTANCE Accounts WITH entries <- ledgerEntries, Amounts <- Sizes,
        MaxCategories <- MaxEntries
G == INSTANCE LatchGroup WITH Values <- {1, 2}, MaxGroup <- MaxEntries

sbVars == <<sbEntries, sbResult>>
cpVars == <<entries, under, result>>
leVars == <<ledgerEntries, net, top>>
taVars == <<categories, generation, handles, sums>>
lgVars == <<latch, group, any_triggered, all_triggered, triggered_count, heard, steady>>
tableVars == <<sbVars, cpVars, leVars, taVars, lgVars>>

VARIABLES fedCount, min_kb, max_kb, avg_kb, peak_rss_kb, delta_rss_kb, fed, finals,
          moment, prev, curr, rate, valid, latest,
          half_life, value, last_update, mixed,
          min, max, clamped, total, cut, changed,
          samples, count, head, mean, variance, established_at, ready, added, recent,
          clock, capacity, snapshots, start_time, found,
          opened, closed, sample_count, bytes_total, began, ended,
          filter, chain, calls, accepted, spent, limits, thrCapacity

M == INSTANCE Meters WITH HalfLives <- {0, 1}, sample_count <- fedCount, clock <- moment
Y == INSTANCE Tracker WITH Sizes <- {0, 2}, Absent <- Nothing
F == INSTANCE Criteria WITH Metrics <- {"RSS", "VSZ"}, Capacities <- {0, 1, 2},
        entries <- limits, capacity <- thrCapacity

staVars == <<fedCount, min_kb, max_kb, avg_kb, peak_rss_kb, delta_rss_kb, fed, finals>>
ratVars == <<moment, prev, curr, rate, valid, latest>>
decVars == <<half_life, value, last_update, mixed>>
claVars == <<min, max, clamped, total, cut, changed>>
basVars == <<samples, count, head, mean, variance, established_at, ready, added, recent>>
trkVars == <<clock, capacity, snapshots, start_time, found,
             opened, closed, sample_count, bytes_total, began, ended>>
filVars == <<filter, chain, calls, accepted, spent>>
thrVars == <<limits, thrCapacity>>
meterVars == <<staVars, ratVars, decVars, claVars, basVars, trkVars, filVars, thrVars>>

-----------------------------------------------------------------------------
Stores == {"ringbuf", "history", "window", "pivot"}
Tables == {"scoreboard", "checkpoint", "ledger", "tally", "latches"}
Others == {"stats", "rate", "decay", "clamp", "baseline", "tracker", "epoch", "filter",
           "threshold"}

Init ==
  /\ subject \in Stores \cup Tables \cup Others
  /\ subject # "ringbuf" => bufCapacity = 2
  /\ subject # "window"  => winCapacity = 2
  /\ subject # "pivot"   => pivCapacity = 2
  /\ R!Init /\ H!Init /\ W!Init /\ P!Init
  /\ S!Init /\ K!Init /\ A!Init /\ G!Init
  /\ subject # "decay" => half_life = 0
  /\ subject # "clamp" => min = 0 /\ max = 0
  /\ subject \notin {"tracker", "epoch"} => clock = 1
  /\ M!Init /\ Y!Init /\ F!Init

UseStore ==
  /\ \/ /\ subject = "ringbuf"  /\ R!Next
        /\ UNCHANGED <<hisVars, winVars, pivVars>>
     \/ /\ subject = "history"  /\ H!Next
        /\ UNCHANGED <<bufVars, winVars, pivVars>>
     \/ /\ subject = "window"   /\ W!Next
        /\ UNCHANGED <<bufVars, hisVars, pivVars>>
     \/ /\ subject = "pivot"    /\ P!Next
        /\ UNCHANGED <<bufVars, hisVars, winVars>>
  /\ UNCHANGED <<subject, tableVars, meterVars>>

UseTable ==
  /\ \/ /\ subject = "scoreboard" /\ S!Next
        /\ UNCHANGED <<cpVars, leVars, taVars, lgVars>>
     \/ /\ subject = "checkpoint" /\ K!Next
        /\ UNCHANGED <<sbVars, leVars, taVars, lgVars>>
     \/ /\ subject = "ledger"     /\ A!LedgerNext
        /\ UNCHANGED <<sbVars, cpVars, taVars, lgVars>>
     \/ /\ subject = "tally"      /\ A!TallyNext
        /\ UNCHANGED <<sbVars, cpVars, leVars, lgVars>>
     \/ /\ subject = "latches"    /\ G!Next
        /\ UNCHANGED <<sbVars, cpVars, leVars, taVars>>
  /\ UNCHANGED <<subject, storeVars, meterVars>>

UseOther ==
  /\ \/ /\ subject = "stats"     /\ M!StatsNext
        /\ UNCHANGED <<ratVars, decVars, claVars, basVars, trkVars, filVars, thrVars>>
     \/ /\ subject = "rate"      /\ M!RateNext
        /\ UNCHANGED <<staVars, decVars, claVars, basVars, trkVars, filVars, thrVars>>
     \/ /\ subject = "decay"     /\ M!DecayNext
        /\ UNCHANGED <<staVars, ratVars, claVars, basVars, trkVars, filVars, thrVars>>
     \/ /\ subject = "clamp"     /\ M!ClampNext
        /\ UNCHANGED <<staVars, ratVars, decVars, basVars, trkVars, filVars, thrVars>>
     \/ /\ subject = "baseline"  /\ M!BaselineNext
        /\ UNCHANGED <<staVars, ratVars, decVars, claVars, trkVars, filVars, thrVars>>
     \/ /\ subject = "tracker"   /\ Y!TrackerNext
        /\ UNCHANGED <<staVars, ratVars, decVars, claVars, basVars, filVars, thrVars>>
     \/ /\ subject = "epoch"     /\ Y!EpochNext
        /\ UNCHANGED <<staVars, ratVars, decVars, claVars, basVars, filVars, thrVars>>
     \/ /\ subject = "filter"    /\ F!FilterNext
        /\ UNCHANGED <<staVars, ratVars, decVars, claVars, basVars, trkVars, thrVars>>
     \/ /\ subject = "threshold" /\ F!ThresholdNext
        /\ UNCHANGED <<staVars, ratVars, decVars, claVars, basVars, trkVars, filVars>>
  /\ UNCHANGED <<subject, storeVars, tableVars>>

Next == UseStore \/ UseTable \/ UseOther

Spec == Init /\ [][Next]_<<subject, storeVars, tableVars, meterVars>>

-----------------------------------------------------------------------------
\* Every component keeps its types, used or not.
TypeOK ==
  /\ subject \in Stores => R!TypeOK /\ H!TypeOK /\ W!TypeOK /\ P!TypeOK
  /\ subject \in Tables => /\ S!TypeOK /\ K!TypeOK /\ A!TypeOK /\ G!TypeOK
  /\ subject \in Others => M!TypeOK /\ Y!TypeOK /\ F!TypeOK

\* The ring buffer is a sliding log from which a pop takes the oldest, and so
\* are the history and the window, which find the oldest without a tail index
\* (ringbuf.c, history_get, window_get).
StoresSlide ==
  R!ImplementsSlidingLog /\ H!ImplementsSlidingLog /\ W!ImplementsSlidingLog

\* What is computed in a pass over samples is true of them: the queries on a
\* history tell one story (history_query.c), the statistics of a window are
\* those of its samples (window_stats), the running ones those of all samples
\* fed (stats_update, stats_finalise), the moments of a baseline those of the
\* last (baseline_add), a decayed value stays within the values it is made of
\* (decay_update), and a report of a tracker says whether it is complete
\* (formatter_write_report).
SummariesAgree ==
  /\ M!BaselineIsTrue
  /\ subject = "history" => H!QueriesAgree
  /\ subject = "window"  => W!StatsTrue
  /\ subject = "stats"   => M!StatsTrue
  /\ subject = "decay"   => M!DecayStaysWithin
  /\ subject = "tracker" => Y!ReportTells

\* The averages that stats_finalise makes of the sums are those of the samples.
AveragesTrue == M!AveragesTrue

\* The band of the pivot and the rate are those of the last samples and no
\* others (pivot_update, pivot_classify, rate_update).
EstimatesAreRecent ==
  /\ P!BandIsRange
  /\ subject = "rate" => M!RateOfLastTwo

\* Scoreboard and checkpoint store find what was put under a key, through
\* moves, shifts and sorts (scoreboard_remove, checkpoint_remove).
TablesKeepEntries == S!ImplementsTable /\ K!ImplementsTable

\* Worst, best, the highest threshold, the tracker's peak and the first
\* snapshots that pass a chain are what they are called (scoreboard_worst,
\* scoreboard_sort, threshold_check, tracker_peak_rss, filter_chain_apply).
ScansFindExtremes ==
  /\ S!RanksAreTrue /\ F!TopThreshold /\ Y!PeakIsTrue
  /\ subject = "filter" => F!ChainFindsFirst

\* Balance and peak of a ledger category, the totals of a tally and the counts
\* of a clamp are those of the events recorded (ledger_record, tally_add,
\* clamp_apply).
TotalsTrue == A!BalancesTrue /\ A!CountedOnce /\ M!ClampTrue

\* The stamps of a tracker and the length of an epoch are true to less than a
\* millisecond (tracker_collect, epoch_elapsed_ms).
TrackersTell == Y!StampsAreClose /\ Y!ElapsedIsTrue

\* Filters and chains of filters let through what they were told to
\* (filter_match, filter_chain_match).
FiltersSelect == subject = "filter" => F!MatchMeansCalls /\ F!ChainIsConjunction

\* A latch takes one value between armings, and a group never claims, without
\* new arming, what is not so (latch_trigger, latch_group_evaluate).
LatchesHold == G!FirstValueOnly /\ G!FlagsNeverLead

\* checkpoint.c:16 says of checkpoint_record: "Update existing entry if label
\* already present".
OneEntryPerLabel == K!OneEntryPerLabel
=============================================================================
