----------------------------- MODULE Scoreboard ----------------------------
(***************************************************************************)
(* The scoreboard of memtrace-lite (src/src/scoreboard.c): an array of     *)
(* processes with their health scores.  A removal moves the last entry     *)
(* into the gap, and a sort reorders the array in place.                   *)
(***************************************************************************)
EXTENDS Integers, Sequences, SequencesExt

CONSTANTS Pids, Scores,
          MaxEntries     \* SCOREBOARD_MAX_ENTRIES

VARIABLES entries,       \* the first count entries of the array
          result         \* what the last operation returned

vars == <<entries, result>>

Entries == [pid : Pids, score : Scores]

\* scoreboard_init
Init == entries = <<>> /\ result = "ok"

Has(i, pid) == entries[i].pid = pid

\* The first index of pid, or 0.
Find(pid) == SelectInSeq(entries, LAMBDA e : e.pid = pid)

Update ==
  /\ \E pid \in Pids, s \in Scores :
       /\ Find(pid) > 0
       /\ entries' = [entries EXCEPT ![Find(pid)].score = s]
  /\ result' = "ok"

Insert ==
  /\ Len(entries) < MaxEntries
  /\ \E pid \in Pids, s \in Scores :
       /\ Find(pid) = 0
       /\ entries' = Append(entries, [pid |-> pid, score |-> s])
  /\ result' = "ok"

RefuseInsert ==
  /\ Len(entries) >= MaxEntries
  /\ \E pid \in Pids : Find(pid) = 0
  /\ result' = "full"
  /\ UNCHANGED entries

scoreboard_upsert == Update \/ Insert \/ RefuseInsert

\* Mutant: the last entry is dropped before it is moved into the gap.
FillGap_DropsLast(i) ==
  LET n == Len(entries) IN
  SubSeq([entries EXCEPT ![i] = entries[IF n > 1 THEN n - 1 ELSE 1]], 1, n - 1)

\* The entries without the i-th, in whose place the last one is moved.
FillGap(i) ==
  LET n == Len(entries) IN
  SubSeq([entries EXCEPT ![i] = entries[n]], 1, n - 1)

scoreboard_remove ==
  \/ /\ \E pid \in Pids : Find(pid) > 0 /\ entries' = FillGap(Find(pid))
     /\ result' = "ok"
  \/ /\ \E pid \in Pids : Find(pid) = 0
     /\ result' = "missing"
     /\ UNCHANGED entries

Ordered(s) == \A i \in 1..(Len(s) - 1) : s[i].score <= s[i + 1].score

\* qsort leaves entries with equal scores in any order.
scoreboard_sort ==
  /\ entries' \in {s \in SetToSeqs(ToSet(entries)) : Ordered(s)}
  /\ result' = "ok"

Next == scoreboard_upsert \/ scoreboard_remove \/ scoreboard_sort

Spec == Init /\ [][Next]_vars

-----------------------------------------------------------------------------
(* The first entry with the lowest, the highest score; entries # <<>>.     *)

Scan(Better(_, _)) ==
  FoldLeft(LAMBDA best, i : IF Better(entries[i].score, entries[best].score)
                            THEN i ELSE best,
           1, [i \in 1..Len(entries) |-> i])

scoreboard_worst == Scan(LAMBDA a, b : a < b)
scoreboard_best  == Scan(LAMBDA a, b : a > b)

-----------------------------------------------------------------------------
\* The entries are well-formed, within bounds, and no process has two.
TypeOK ==
  /\ entries \in Seq(Entries) /\ Len(entries) <= MaxEntries
  /\ \A i, j \in DOMAIN entries : entries[i].pid = entries[j].pid => i = j
  /\ result \in {"ok", "full", "missing"}

\* What the entries tell of the processes they have.
Board == [p \in {entries[i].pid : i \in DOMAIN entries} |-> entries[Find(p)].score]

\* Scores are found under their process, however the array is moved and
\* sorted (scoreboard_get, scoreboard_remove, scoreboard_sort).
Table == INSTANCE BoundedTable WITH
  Keys <- Pids, Values <- Scores, Room <- MaxEntries, answer <- result, board <- Board

ImplementsTable == Table!Spec

\* The worst and the best are what they are called, and in a sorted board the
\* worst comes first and nothing after the best is better (scoreboard_sort).
RanksAreTrue ==
  entries # <<>> =>
    /\ \A i \in DOMAIN entries :
         /\ entries[scoreboard_worst].score <= entries[i].score
         /\ entries[scoreboard_best].score >= entries[i].score
    /\ Ordered(entries) =>
         scoreboard_worst = 1 /\ entries[scoreboard_best].score = Last(entries).score
=============================================================================
