------------------------------- MODULE Criteria ----------------------------
(***************************************************************************)
(* The criteria of memtrace-lite: a filter on one snapshot                 *)
(* (src/src/filter.c), a chain of copies of filters that a snapshot must   *)
(* all pass (filter_chain.c), and a set of limits on memory metrics, each  *)
(* at a level, with the check that finds the highest level whose limit a   *)
(* value has reached (threshold.c).                                        *)
(***************************************************************************)
EXTENDS Integers, Sequences, FiniteSetsExt, SequencesExt

CONSTANTS Sizes,           \* of snapshots
          Bounds,          \* arguments of filter_set_rss and filter_set_vsz
          Substrings, Empty,   \* of labels; Empty is in every label
          ChainMax,        \* FILTER_CHAIN_MAX
          MaxCalls,        \* bound: calls that set
          Metrics,
          Capacities       \* given to threshold_set_init

VARIABLES filter, chain,
          calls,           \* history: the calls on the filter since filter_init
          accepted,        \* history: the snapshots that every filter added let through
          spent            \* the calls that set, to MaxCalls

filterVars == <<filter, chain, calls, accepted, spent>>

MIN_RSS == "min_rss"
MAX_RSS == "max_rss"
MIN_VSZ == "min_vsz"
MAX_VSZ == "max_vsz"
NAME_SUBSTR == "name_substr"
BoundFlags == {MIN_RSS, MAX_RSS, MIN_VSZ, MAX_VSZ}

\* A label counts as the set of substrings it has.
MemSnapshots == [rss_kb : Sizes, vsz_kb : Sizes, label : SUBSET Substrings]

strstr(label, substr) == substr = Empty \/ substr \in label

-----------------------------------------------------------------------------
(* filter.c                                                                *)

Unfiltered == [flags |-> {}, bound |-> [b \in BoundFlags |-> -1], name_substr |-> Empty]

filter_init ==
  /\ filter' = Unfiltered
  /\ calls' = <<>>
  /\ UNCHANGED <<chain, accepted, spent>>

\* Mutant: a bound of 0 is taken for none.
Bound_NotZero(f, flag, kb) ==
  IF kb > 0 THEN [f EXCEPT !.flags = @ \cup {flag}, !.bound[flag] = kb] ELSE f

\* A negative bound leaves the one there is.
Bound(f, flag, kb) ==
  IF kb >= 0 THEN [f EXCEPT !.flags = @ \cup {flag}, !.bound[flag] = kb] ELSE f

SetRange(min_flag, max_flag) ==
  \E min_kb, max_kb \in Bounds :
    /\ filter' = Bound(Bound(filter, min_flag, min_kb), max_flag, max_kb)
    /\ calls' = Append(calls, [flag \in {min_flag, max_flag} |->
                                  IF flag = min_flag THEN min_kb ELSE max_kb])

filter_set_rss == SetRange(MIN_RSS, MAX_RSS)

filter_set_vsz == SetRange(MIN_VSZ, MAX_VSZ)

filter_set_name ==
  \E substr \in Substrings \cup {Empty} :
    /\ filter' = [filter EXCEPT !.name_substr = substr, !.flags = @ \cup {NAME_SUBSTR}]
    /\ calls' = Append(calls, [flag \in {NAME_SUBSTR} |-> substr])

filter_match(f, snap) ==
  /\ MIN_RSS \in f.flags => snap.rss_kb >= f.bound[MIN_RSS]
  /\ MAX_RSS \in f.flags => snap.rss_kb <= f.bound[MAX_RSS]
  /\ MIN_VSZ \in f.flags => snap.vsz_kb >= f.bound[MIN_VSZ]
  /\ MAX_VSZ \in f.flags => snap.vsz_kb <= f.bound[MAX_VSZ]
  /\ NAME_SUBSTR \in f.flags => strstr(snap.label, f.name_substr)

-----------------------------------------------------------------------------
(* filter_chain.c                                                          *)

Wanted == {s \in MemSnapshots : filter_match(filter, s)}

filter_chain_init ==
  /\ chain' = <<>>
  /\ accepted' = MemSnapshots
  /\ UNCHANGED <<filter, calls, spent>>

\* The filter is copied; a full chain refuses it.
filter_chain_add ==
  /\ Len(chain) < ChainMax
  /\ chain' = Append(chain, filter)
  /\ accepted' = accepted \cap Wanted
  /\ UNCHANGED <<filter, calls, spent>>

\* Mutant: one filter that matches is enough.
filter_chain_match_Any(c, snap) ==
  c = <<>> \/ \E i \in DOMAIN c : filter_match(c[i], snap)

filter_chain_match(c, snap) == \A i \in DOMAIN c : filter_match(c[i], snap)

\* Mutant: one index more than out has room for.
filter_chain_apply_OneMore(snaps, out_max) ==
  FoldLeft(LAMBDA out, i : IF Len(out) <= out_max /\ filter_chain_match(chain, snaps[i])
                           THEN Append(out, i) ELSE out,
           <<>>, [i \in DOMAIN snaps |-> i])

\* The indices in out, counted from 1.
filter_chain_apply(snaps, out_max) ==
  FoldLeft(LAMBDA out, i : IF Len(out) < out_max /\ filter_chain_match(chain, snaps[i])
                           THEN Append(out, i) ELSE out,
           <<>>, [i \in DOMAIN snaps |-> i])

-----------------------------------------------------------------------------
(* threshold.c                                                             *)

VARIABLES entries,       \* the first count entries
          capacity       \* 0 before init and after free

thresholdVars == <<entries, capacity>>

WARN     == 0
CRITICAL == 1

Thresholds == [metric : Metrics, level : {WARN, CRITICAL}, value_kb : Sizes]

\* A capacity of 0 is refused.
threshold_set_init ==
  /\ capacity = 0
  /\ capacity' \in Capacities \ {0}
  /\ entries' = <<>>

threshold_set_free == entries' = <<>> /\ capacity' = 0

threshold_add ==
  \/ /\ Len(entries) < capacity
     /\ \E t \in Thresholds : entries' = Append(entries, t)
     /\ UNCHANGED capacity
  \/ /\ Len(entries) >= capacity      \* returns -1
     /\ UNCHANGED thresholdVars

ThresholdNext == threshold_set_init \/ threshold_set_free \/ threshold_add

Reached(t, metric, kb) == t.metric = metric /\ kb >= t.value_kb

\* Mutant: the last threshold of a level replaces the ones before it.
Higher_OrSame(level, top) == level >= top

Higher(level, top) == level > top

\* The index of the threshold that a value triggers, or 0: one pass that keeps
\* the first threshold reached until it meets one of a higher level.
threshold_check(metric, kb) ==
  FoldLeft(LAMBDA top, i :
             IF /\ Reached(entries[i], metric, kb)
                /\ top = 0 \/ Higher(entries[i].level, entries[top].level)
             THEN i ELSE top,
           0, [i \in DOMAIN entries |-> i])

-----------------------------------------------------------------------------
Init == /\ filter = Unfiltered /\ calls = <<>>
        /\ chain = <<>> /\ accepted = MemSnapshots /\ spent = 0
        /\ entries = <<>> /\ capacity = 0

Set == /\ spent < MaxCalls /\ spent' = spent + 1
       /\ filter_set_rss \/ filter_set_vsz \/ filter_set_name
       /\ UNCHANGED <<chain, accepted>>

FilterNext == Set \/ filter_init \/ filter_chain_add \/ filter_chain_init

vars == <<filterVars, thresholdVars>>

Next == \/ FilterNext /\ UNCHANGED thresholdVars
        \/ ThresholdNext /\ UNCHANGED filterVars

Spec == Init /\ [][Next]_vars

-----------------------------------------------------------------------------
\* Every variable has its type.
TypeOK ==
  /\ filter.flags \subseteq BoundFlags \cup {NAME_SUBSTR}
  /\ filter.bound \in [BoundFlags -> Bounds \cup {-1}]
  /\ filter.name_substr \in Substrings \cup {Empty}
  /\ Len(chain) \in 0..ChainMax /\ spent \in 0..MaxCalls
  /\ accepted \subseteq MemSnapshots
  /\ capacity \in Capacities \cup {0}
  /\ entries \in Seq(Thresholds) /\ Len(entries) <= capacity

\* What a snapshot must satisfy for the last call that set this flag to a
\* bound or a name; nothing if there is none.
Demands(flag, snap) ==
  LET set == {i \in DOMAIN calls : flag \in DOMAIN calls[i] /\ calls[i][flag] # -1}
      v   == calls[Max(set)][flag]
  IN  set # {} => CASE flag = MIN_RSS -> snap.rss_kb >= v
                    [] flag = MAX_RSS -> snap.rss_kb <= v
                    [] flag = MIN_VSZ -> snap.vsz_kb >= v
                    [] flag = MAX_VSZ -> snap.vsz_kb <= v
                    [] OTHER          -> v = Empty \/ v \in snap.label

\* A filter lets through what the last bounds and the last name given to it
\* since filter_init ask for, 0 being a bound.  A call with -1 leaves the
\* earlier bound in force: a bound, once set, can be moved but not lifted
\* (filter_set_rss, filter_set_vsz, filter_match).
MatchMeansCalls ==
  \A s \in MemSnapshots :
    filter_match(filter, s) <=> \A flag \in BoundFlags \cup {NAME_SUBSTR} : Demands(flag, s)

\* A chain lets through what all filters did when they were added, whatever
\* became of them since (filter_chain_add, filter_chain_match).
ChainIsConjunction ==
  \A s \in MemSnapshots : filter_chain_match(chain, s) <=> s \in accepted

\* A chain applied to an array finds the first out_max snapshots that pass, in
\* order, and an empty chain all (filter_chain_apply).
ChainFindsFirst ==
  LET Sample == {CHOOSE s \in S : TRUE : S \in {accepted, MemSnapshots \ accepted} \ {{}}}
  IN  \A snaps \in SeqOf(Sample, 3), out_max \in 0..2 :
        LET passing == SelectSeq([i \in DOMAIN snaps |-> i],
                                 LAMBDA i : snaps[i] \in accepted)
        IN  filter_chain_apply(snaps, out_max)
              = SubSeq(passing, 1, Min({out_max, Len(passing)}))

\* A value triggers exactly if it reaches a threshold of its metric; what is
\* reported is the first one of the highest level it reaches, and a larger
\* value never triggers a lower level (threshold_check).
TopThreshold ==
  \A m \in Metrics, kb \in Sizes :
    LET R == {i \in DOMAIN entries : Reached(entries[i], m, kb)}
        t == threshold_check(m, kb)
    IN /\ t = 0 <=> R = {}
       /\ t # 0 => /\ t \in R
                   /\ \A i \in R : entries[i].level <= entries[t].level
                   /\ \A i \in R : entries[i].level = entries[t].level => t <= i
                   /\ \A more \in Sizes : more > kb =>
                        /\ threshold_check(m, more) # 0
                        /\ entries[threshold_check(m, more)].level >= entries[t].level
=============================================================================
