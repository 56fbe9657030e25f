------------------------------- MODULE Tracker -----------------------------
(***************************************************************************)
(* The two components of memtrace-lite that place samples in time: the     *)
(* tracker (src/src/tracker.c), which reads a process with procmem_read    *)
(* (src/src/procmem.c) and keeps what it read until it is full, with the   *)
(* report of what it kept (src/src/formatter.c), and the epoch             *)
(* (src/src/epoch.c).  They share nothing but CLOCK_MONOTONIC.             *)
(*                                                                         *)
(* The clock counts ticks, TicksPerMs to a millisecond, MsPerSec of which  *)
(* make a second; a struct timespec is a number of ticks, its seconds and  *)
(* its fraction the quotient and the remainder.  0 is the struct timespec  *)
(* of zeros.                                                               *)
(***************************************************************************)
EXTENDS Integers, Sequences, FiniteSetsExt, SequencesExt

CONSTANTS Sizes, Absent,
          MaxSnapshots,     \* TRACKER_MAX_SNAPSHOTS
          MaxTicks,         \* bound: the clock
          MaxRecords        \* bound: samples of an epoch

VARIABLES clock,
          capacity, snapshots, start_time,         \* the tracker
          found,              \* history: rss and time of what it read since its start
          opened, closed, sample_count, bytes_total,   \* start, end of the epoch
          began, ended        \* history: the time of its last opening and closing

trackerVars == <<capacity, snapshots, start_time, found>>
epochVars   == <<opened, closed, sample_count, bytes_total, began, ended>>
vars        == <<clock, trackerVars, epochVars>>

TicksPerMs == 2
MsPerSec == 2
Sec(time)  == time \div (TicksPerMs * MsPerSec)
Nsec(time) == time % (TicksPerMs * MsPerSec)

\* Division as in C, towards 0.
Quotient(n, d) == IF n >= 0 THEN n \div d ELSE -((-n) \div d)

Elapse == clock < MaxTicks /\ clock' = clock + 1 /\ UNCHANGED <<trackerVars, epochVars>>

-----------------------------------------------------------------------------
(* procmem.c and tracker.c                                                 *)

Fields == {"vm_rss_kb", "vm_virt_kb", "vm_swap_kb"}

\* What fopen and the status file give: no file, or some of the lines.
Statuses == [Fields -> Sizes \cup {Absent}] \cup {Absent}

procmem_succeeds(status) == status # Absent /\ \E f \in Fields : status[f] # Absent

\* Mutant: a field that the file does not have keeps a value of its own.
procmem_read_Keeps(status) == [f \in Fields |-> IF status[f] = Absent THEN 1 ELSE status[f]]

\* A field that the file does not have is 0.
procmem_read(status) == [f \in Fields |-> IF status[f] = Absent THEN 0 ELSE status[f]]

\* Mutant: the borrow of a second is counted twice.
timestamp_ms_Borrows(from, now) ==
  (Sec(now) - Sec(from) - (IF Nsec(now) < Nsec(from) THEN 1 ELSE 0)) * MsPerSec
    + Quotient(Nsec(now) - Nsec(from), TicksPerMs)

timestamp_ms(from, now) ==
  (Sec(now) - Sec(from)) * MsPerSec + Quotient(Nsec(now) - Nsec(from), TicksPerMs)

\* When calloc fails the tracker must not be used, and no step is modelled.
tracker_init ==
  /\ capacity' = MaxSnapshots /\ snapshots' = <<>>
  /\ start_time' = clock
  /\ found' = <<>>
  /\ UNCHANGED <<clock, epochVars>>

\* A full tracker, or one that was freed, does not even read.
tracker_collect ==
  /\ Len(snapshots) < capacity
  /\ \E status \in Statuses :
       /\ procmem_succeeds(status)
       /\ snapshots' = Append(snapshots, [rss_kb |-> procmem_read(status)["vm_rss_kb"],
                                          timestamp_ms |-> timestamp_ms(start_time, clock)])
       /\ found' = Append(found, [line |-> status["vm_rss_kb"], time |-> clock])
  /\ UNCHANGED <<clock, capacity, start_time, epochVars>>

\* Mutant: the search for the peak starts from the first snapshot and skips it.
tracker_peak_rss_SkipsFirst ==
  FoldLeft(LAMBDA peak, s : IF s.rss_kb > peak THEN s.rss_kb ELSE peak, 0,
           IF snapshots = <<>> THEN <<>> ELSE Tail(snapshots))

tracker_peak_rss ==
  FoldLeft(LAMBDA peak, s : IF s.rss_kb > peak THEN s.rss_kb ELSE peak, 0, snapshots)

tracker_free ==
  /\ capacity' = 0 /\ snapshots' = <<>>
  /\ found' = <<>>
  /\ UNCHANGED <<clock, start_time, epochVars>>

-----------------------------------------------------------------------------
(* formatter.c.  A piece of a report is a snapshot, by its index, or       *)
(* what stands around the snapshots.                                       *)

Formats == {"PLAIN", "CSV", "JSON"}

Opening == 0
Comma == -1
Closing == -2

\* One fprintf, the next of those tried: it may be among those that fail.
Put(report, piece, failing) ==
  [report EXCEPT !.tried = @ + 1,
                 !.out = IF report.tried + 1 \in failing THEN @ ELSE Append(@, piece)]

\* Mutant: a snapshot that cannot be written is passed over.
WriteSnapshot_PassesOver(report, i, failing) == Put(report, i, failing)

WriteSnapshot(report, i, failing) ==
  [Put(report, i, failing) EXCEPT !.result = IF report.tried + 1 \in failing THEN -1 ELSE 0]

\* Only the failure of a snapshot is noticed, and ends the report.
formatter_write_report(fmt, failing) ==
  LET blank == [tried |-> 0, out |-> <<>>, result |-> 0]
      entry(report, i) ==
        IF report.result = -1 THEN report
        ELSE WriteSnapshot(IF fmt = "JSON" /\ i > 1 THEN Put(report, Comma, failing) ELSE report,
                           i, failing)
      body  == FoldLeft(entry, IF fmt = "PLAIN" THEN blank ELSE Put(blank, Opening, failing),
                        [i \in DOMAIN snapshots |-> i])
  IN  IF fmt = "JSON" /\ body.result = 0 THEN Put(body, Closing, failing) ELSE body

-----------------------------------------------------------------------------
(* epoch.c                                                                 *)

epoch_open ==
  /\ opened' = clock /\ closed' = 0
  /\ sample_count' = 0 /\ bytes_total' = 0
  /\ began' = clock /\ ended' = 0
  /\ UNCHANGED <<clock, trackerVars>>

epoch_is_open == closed = 0

\* Closing an epoch that is closed does nothing.
epoch_close ==
  /\ epoch_is_open
  /\ closed' = clock /\ ended' = clock
  /\ UNCHANGED <<clock, trackerVars, opened, sample_count, bytes_total, began>>

\* Mutant: the borrow is forgotten.
timespec_diff_ms_NoBorrow(a, b) ==
  (Sec(b) - Sec(a)) * MsPerSec + Quotient(Nsec(b) - Nsec(a), TicksPerMs)

timespec_diff_ms(a, b) ==
  LET borrow == IF Nsec(b) < Nsec(a) THEN 1 ELSE 0
      sec    == Sec(b) - Sec(a) - borrow
      nsec   == Nsec(b) - Nsec(a) + borrow * TicksPerMs * MsPerSec
  IN  IF sec < 0 THEN 0 ELSE sec * MsPerSec + nsec \div TicksPerMs

epoch_elapsed_ms == timespec_diff_ms(opened, IF epoch_is_open THEN clock ELSE closed)

\* A closed epoch still counts what it is given.
epoch_record ==
  /\ sample_count < MaxRecords
  /\ sample_count' = sample_count + 1
  /\ \E bytes \in Sizes : bytes_total' = bytes_total + bytes
  /\ UNCHANGED <<clock, trackerVars, opened, closed, began, ended>>

\* Zeros: an epoch that looks open, since the clock's zero.
epoch_reset ==
  /\ opened' = 0 /\ closed' = 0
  /\ sample_count' = 0 /\ bytes_total' = 0
  /\ began' = 0 /\ ended' = 0
  /\ UNCHANGED <<clock, trackerVars>>

-----------------------------------------------------------------------------
\* tracker_init and epoch_open, some time after the clock's zero.
Init ==
  /\ clock \in 1..(TicksPerMs * MsPerSec)
  /\ capacity = MaxSnapshots /\ snapshots = <<>> /\ start_time = clock /\ found = <<>>
  /\ opened = clock /\ closed = 0 /\ sample_count = 0 /\ bytes_total = 0
  /\ began = clock /\ ended = 0

TrackerNext == tracker_init \/ tracker_collect \/ tracker_free \/ Elapse

EpochNext == epoch_open \/ epoch_close \/ epoch_record \/ epoch_reset \/ Elapse

Next == TrackerNext \/ EpochNext

Spec == Init /\ [][Next]_vars

-----------------------------------------------------------------------------
\* Every variable has its type.
TypeOK ==
  /\ clock \in 1..MaxTicks /\ capacity \in {0, MaxSnapshots}
  /\ Len(snapshots) <= capacity /\ Len(found) = Len(snapshots)
  /\ \A i \in DOMAIN snapshots : snapshots[i].rss_kb \in Sizes \cup {0}
  /\ start_time \in 1..clock /\ {opened, closed} \subseteq 0..clock
  /\ sample_count \in 0..MaxRecords /\ bytes_total \in Nat

\* The peak is the greatest resident size that a status file gave since the
\* tracker's start and before it was full; reads that failed, and files
\* without that line, do not count (tracker_collect, tracker_peak_rss).
PeakIsTrue ==
  tracker_peak_rss =
    Max({0} \cup {found[i].line : i \in {j \in DOMAIN found : found[j].line # Absent}})

\* The stamps of the snapshots never decrease and are within one millisecond of
\* the truth.  They are not rounded down: a snapshot taken after 1.5 ms may
\* be stamped 2 when a second began in between (tracker_collect).
StampsAreClose ==
  \A i \in DOMAIN snapshots :
    LET true_ticks == found[i].time - start_time
        ticks      == TicksPerMs * snapshots[i].timestamp_ms
    IN  /\ true_ticks - TicksPerMs < ticks /\ ticks < true_ticks + TicksPerMs
        /\ i > 1 => snapshots[i - 1].timestamp_ms <= snapshots[i].timestamp_ms

\* Whatever cannot be written, a report holds the first snapshots in order, and
\* says that it succeeded exactly when it holds all of them; the lines around
\* them may be missing even so.  If all is written, commas of JSON stand
\* between snapshots and nowhere else (formatter_write_report).
ReportTells ==
  \A fmt \in Formats, failing \in SUBSET (1..(2 * MaxSnapshots + 1)) :
    LET report == formatter_write_report(fmt, failing)
        shown  == SelectSeq(report.out, LAMBDA piece : piece > 0)
    IN  /\ shown = [i \in 1..Len(shown) |-> i]
        /\ report.result = 0 <=> Len(shown) = Len(snapshots)
        /\ failing = {} /\ fmt = "JSON" =>
             /\ report.out[1] = Opening /\ Last(report.out) = Closing
             /\ \A k \in 2..(Len(report.out) - 1) :
                  /\ report.out[k] = Comma <=> report.out[k - 1] > 0
                  /\ report.out[k] = Comma => report.out[k + 1] > 0

\* An epoch lasts the whole milliseconds from its opening to its first closing,
\* whatever happens later, or to now; after a reset it seems to be open
\* since the clock's zero (epoch_elapsed_ms, epoch_close, epoch_reset).
ElapsedIsTrue ==
  /\ epoch_is_open <=> ended = 0
  /\ epoch_elapsed_ms = ((IF ended = 0 THEN clock ELSE ended) - began) \div TicksPerMs
=============================================================================
