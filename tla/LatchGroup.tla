----------------------------- MODULE LatchGroup ----------------------------
(***************************************************************************)
(* Latches and groups of them in memtrace-lite (src/src/latch.c,           *)
(* src/src/latch_group.c).  A latch keeps the first value it is triggered  *)
(* with until it is armed again.  A group holds pointers to latches that   *)
(* others go on triggering, arming and disarming, and remembers how many   *)
(* were triggered when it was last evaluated.                              *)
(***************************************************************************)
EXTENDS Integers, Sequences, FiniteSets

CONSTANTS Latches, Values,
          MaxGroup,         \* LATCH_GROUP_MAX
          MaxTriggers,      \* bound: values that one latch takes
          MaxOffers         \* bound: values offered to it between armings

VARIABLES latch,            \* the latches
          group,            \* the latches added to the group, with repetitions
          any_triggered, all_triggered, triggered_count,
          heard,            \* history: the values a latch was offered since it
                            \* was last armed, and whether it took them
          steady            \* history: since the last evaluation nothing was
                            \* added to the group, armed or disarmed

groupVars == <<group, any_triggered, all_triggered, triggered_count>>
vars      == <<latch, group, any_triggered, all_triggered, triggered_count, heard, steady>>

Init ==
  /\ latch = [l \in Latches |-> [state |-> "ARMED", value |-> 0, count |-> 0]]
  /\ group = <<>>
  /\ any_triggered = FALSE /\ all_triggered = FALSE /\ triggered_count = 0
  /\ heard = [l \in Latches |-> <<>>]
  /\ steady = TRUE

-----------------------------------------------------------------------------
(* The latch.                                                              *)

\* Mutant: a triggered latch takes the next value, too.
Takes_Triggered(l) == latch[l].state # "DISARMED"

Takes(l) == latch[l].state = "ARMED"

latch_trigger ==
  \E l \in Latches, v \in Values :
    /\ latch[l].count < MaxTriggers
    /\ Len(heard[l]) < MaxOffers
    /\ latch' = IF Takes(l)
                THEN [latch EXCEPT ![l] = [state |-> "TRIGGERED", value |-> v,
                                           count |-> @.count + 1]]
                ELSE latch
    /\ heard' = [heard EXCEPT ![l] = Append(@, [value |-> v, taken |-> Takes(l)])]
    /\ UNCHANGED <<groupVars, steady>>

\* An armed latch stays as it is; the count is kept.
Armed(r) == IF r.state = "ARMED" THEN r
            ELSE [state |-> "ARMED", value |-> 0, count |-> r.count]

\* latch_reset is the same as latch_arm.
latch_arm ==
  \E l \in Latches :
    /\ latch' = [latch EXCEPT ![l] = Armed(@)]
    /\ heard' = [heard EXCEPT ![l] = <<>>]
    /\ steady' = FALSE
    /\ UNCHANGED groupVars

latch_disarm ==
  \E l \in Latches :
    /\ latch' = [latch EXCEPT ![l].state = "DISARMED"]
    /\ steady' = FALSE
    /\ UNCHANGED <<groupVars, heard>>

-----------------------------------------------------------------------------
(* The group.                                                              *)

Triggered(l) == latch[l].state = "TRIGGERED"

\* A latch that was added twice counts twice.
TriggeredInGroup == Cardinality({i \in DOMAIN group : Triggered(group[i])})

\* A full group refuses; the same latch may be added twice.
latch_group_add ==
  \/ /\ Len(group) < MaxGroup
     /\ \E l \in Latches : group' = Append(group, l)
     /\ steady' = FALSE
     /\ UNCHANGED <<latch, any_triggered, all_triggered, triggered_count, heard>>
  \/ Len(group) >= MaxGroup /\ UNCHANGED vars

\* Mutant: all means as many as were counted before.
All_OfCounted == TriggeredInGroup >= triggered_count

All == TriggeredInGroup = Len(group)

latch_group_evaluate ==
  /\ IF group = <<>>
     THEN any_triggered' = FALSE /\ all_triggered' = FALSE /\ UNCHANGED triggered_count
     ELSE /\ any_triggered' = (TriggeredInGroup > 0)
          /\ all_triggered' = All
          /\ triggered_count' = TriggeredInGroup
  /\ steady' = TRUE
  /\ UNCHANGED <<latch, group, heard>>

\* Every latch of the group is armed again, a disarmed one as well.
latch_group_reset_all ==
  LET L == {group[i] : i \in DOMAIN group} IN
  /\ latch' = [l \in Latches |-> IF l \in L THEN Armed(latch[l]) ELSE latch[l]]
  /\ heard' = [l \in Latches |-> IF l \in L THEN <<>> ELSE heard[l]]
  /\ any_triggered' = FALSE /\ all_triggered' = FALSE /\ triggered_count' = 0
  /\ steady' = TRUE
  /\ UNCHANGED group

Next == \/ latch_trigger \/ latch_arm \/ latch_disarm
        \/ latch_group_add \/ latch_group_evaluate \/ latch_group_reset_all

Spec == Init /\ [][Next]_vars

-----------------------------------------------------------------------------
\* Every variable has its type.
TypeOK ==
  /\ \A l \in Latches : /\ latch[l].state \in {"ARMED", "TRIGGERED", "DISARMED"}
                        /\ latch[l].value \in Values \cup {0}
                        /\ latch[l].count \in Nat
  /\ group \in Seq(Latches) /\ Len(group) <= MaxGroup
  /\ any_triggered \in BOOLEAN /\ all_triggered \in BOOLEAN
  /\ triggered_count \in 0..Len(group)

\* Between two armings a latch takes at most one value, the first one it is
\* offered while armed, and a triggered latch shows exactly that value
\* (latch_trigger, latch_arm, latch_disarm).
FirstValueOnly ==
  \A l \in Latches :
    LET T == {i \in DOMAIN heard[l] : heard[l][i].taken} IN
    /\ Cardinality(T) <= 1
    /\ Triggered(l) => \E i \in T : heard[l][i].value = latch[l].value
    /\ latch[l].state = "ARMED" => heard[l] = <<>>

\* The flags of a group are those of its last evaluation: as long as latches
\* are only triggered, they may lag behind the latches, but never claim what
\* is not so (latch_group_evaluate, latch_group_reset_all).
FlagsNeverLead ==
  steady =>
    /\ any_triggered => \E i \in DOMAIN group : Triggered(group[i])
    /\ all_triggered => group # <<>> /\ \A i \in DOMAIN group : Triggered(group[i])
    /\ triggered_count <= TriggeredInGroup
=============================================================================
