----------------------------- MODULE Checkpoint ----------------------------
(***************************************************************************)
(* The checkpoint store of memtrace-lite (src/src/checkpoint.c): memory    *)
(* sizes recorded under labels.  A label is stored cut to 63 characters    *)
(* but compared over 64: its stem is what is stored of it, and a label is  *)
(* long if there is more of it than that.                                  *)
(***************************************************************************)
EXTENDS Integers, Sequences, SequencesExt

CONSTANTS Labels,        \* labels, with the fields stem and long
          Sizes,         \* rss_kb; vms_kb is stored along with it
          MaxEntries     \* CHECKPOINT_MAX_ENTRIES

VARIABLES entries,       \* the first count entries, all of them valid
          under,         \* history: the whole label each was recorded under
          result         \* what the last operation returned

vars == <<entries, under, result>>

\* checkpoint_init
Init == entries = <<>> /\ under = <<>> /\ result = "ok"

checkpoint_reset == entries' = <<>> /\ under' = <<>> /\ result' = "ok"

\* strncmp over one character more than is stored.
Matches(stored, label) == stored = label.stem /\ ~label.long

\* The index that checkpoint_find looks up, or 0.
Find(label) == SelectInSeq(entries, LAMBDA e : Matches(e.label, label))

Update ==
  /\ \E label \in Labels, kb \in Sizes :
       /\ Find(label) > 0
       /\ entries' = [entries EXCEPT ![Find(label)].rss_kb = kb]
  /\ result' = "ok"
  /\ UNCHANGED under

Insert ==
  /\ Len(entries) < MaxEntries
  /\ \E label \in Labels, kb \in Sizes :
       /\ Find(label) = 0
       /\ entries' = Append(entries, [label |-> label.stem, rss_kb |-> kb])
       /\ under' = Append(under, label)
  /\ result' = "ok"

RefuseInsert ==
  /\ Len(entries) >= MaxEntries
  /\ \E label \in Labels : Find(label) = 0
  /\ result' = "full"
  /\ UNCHANGED <<entries, under>>

checkpoint_record == Update \/ Insert \/ RefuseInsert

\* The entries behind a removed one are shifted down.
checkpoint_remove ==
  \/ /\ \E label \in Labels :
          /\ Find(label) > 0
          /\ entries' = RemoveAt(entries, Find(label))
          /\ under' = RemoveAt(under, Find(label))
     /\ result' = "ok"
  \/ /\ \E label \in Labels : Find(label) = 0
     /\ result' = "missing"
     /\ UNCHANGED <<entries, under>>

Next == checkpoint_record \/ checkpoint_remove \/ checkpoint_reset

Spec == Init /\ [][Next]_vars

-----------------------------------------------------------------------------
\* The entries are well-formed and within bounds.
TypeOK ==
  /\ entries \in Seq([label : {l.stem : l \in Labels}, rss_kb : Sizes])
  /\ Len(entries) <= MaxEntries /\ Len(under) = Len(entries)
  /\ under \in Seq(Labels)
  /\ result \in {"ok", "full", "missing"}

\* What is found under the labels that have an entry.
Board == [l \in {k \in Labels : Find(k) > 0} |-> entries[Find(l)].rss_kb]

\* Without long labels, the store is a table: sizes are found under their
\* label through updates and shifts (checkpoint_record, _remove, _find).
Table == INSTANCE BoundedTable WITH
  Keys <- Labels, Values <- Sizes, Room <- MaxEntries, answer <- result, board <- Board

ImplementsTable == Table!Spec

\* checkpoint.c:16 says of checkpoint_record: "Update existing entry if label
\* already present".
OneEntryPerLabel ==
  \A i, j \in DOMAIN under : under[i] = under[j] => i = j
=============================================================================
