------------------------------ MODULE Cascade ------------------------------
(***************************************************************************)
(* The cascade of memtrace-lite (src/src/cascade.c) and its presets        *)
(* (src/src/cascade_policy.c): levels with a threshold, a number of ticks  *)
(* for which a sample must stay at the level, and an action that is then   *)
(* taken once.  Levels are counted from 1, and 0 is no level.              *)
(***************************************************************************)
EXTENDS Integers, Sequences, FiniteSets

CONSTANTS Sizes,        \* rss_kb
          Levels,       \* levels given to cascade_add_level
          BaseKb,       \* base_kb given to cascade_policy_apply
          MaxLevels,    \* CASCADE_MAX_LEVELS
          MaxTicks      \* bound: updates between resets

VARIABLES levels, current_level, ticks_at_level, fired,
          seen          \* history: the level found by each update since the
                        \* last reset, and the action it returned

vars == <<levels, current_level, ticks_at_level, fired, seen>>

Level(t, n, a) == [threshold_kb |-> t, sustain_ticks |-> n, action |-> a]

Idle == current_level = 0 /\ ticks_at_level = 0 /\ fired = FALSE /\ seen = <<>>

\* cascade_init
Init == levels = <<>> /\ Idle

Idles ==
  /\ current_level' = 0 /\ ticks_at_level' = 0 /\ fired' = FALSE /\ seen' = <<>>

cascade_reset == Idles /\ UNCHANGED levels

Preset(p) ==
  CASE p = "conservative" -> <<Level(BaseKb, 5, "log"), Level(BaseKb * 2, 3, "alert"),
                               Level(BaseKb * 4, 2, "throttle")>>
    [] p = "aggressive"   -> <<Level(BaseKb, 2, "alert"), Level(BaseKb * 2, 1, "throttle"),
                               Level(BaseKb * 3, 1, "kill")>>
    [] p = "monitor_only" -> <<Level(BaseKb, 10, "log"), Level(BaseKb * 2, 5, "log"),
                               Level(BaseKb * 4, 3, "alert")>>

\* The cascade is initialised again, then given the levels of the preset.
cascade_policy_apply ==
  /\ \E p \in {"conservative", "aggressive", "monitor_only"} : levels' = Preset(p)
  /\ Idles

\* Also while the cascade is in use; one level too many is ignored.
cascade_add_level ==
  /\ IF Len(levels) < MaxLevels
     THEN \E l \in Levels : levels' = Append(levels, l)
     ELSE UNCHANGED levels
  /\ UNCHANGED <<current_level, ticks_at_level, fired, seen>>

\* The last level whose threshold is reached, or 0.
find_active_level(kb) ==
  LET R == {i \in DOMAIN levels : kb >= levels[i].threshold_kb}
  IN IF R = {} THEN 0 ELSE CHOOSE i \in R : \A j \in R : j <= i

\* Mutant: the ticks go on when the level changes.
Ticks_Going(active) == ticks_at_level + 1

Ticks(active) ==
  IF active # current_level THEN 1
  ELSE IF active > 0 THEN ticks_at_level + 1
  ELSE ticks_at_level

Fires(active) ==
  /\ active > 0
  /\ active # current_level \/ ~fired
  /\ Ticks(active) >= levels[active].sustain_ticks

cascade_update ==
  /\ Len(seen) < MaxTicks
  /\ \E kb \in Sizes :
       LET active == find_active_level(kb) IN
       /\ current_level' = active
       /\ ticks_at_level' = Ticks(active)
       /\ fired' = (Fires(active) \/ (active = current_level /\ fired))
       /\ seen' = Append(seen, [level |-> active,
                                action |-> IF Fires(active) THEN levels[active].action
                                                            ELSE "none"])
  /\ UNCHANGED levels

Next == cascade_policy_apply \/ cascade_add_level \/ cascade_update \/ cascade_reset

Spec == Init /\ [][Next]_vars

-----------------------------------------------------------------------------
\* Every variable has its type.
TypeOK ==
  /\ Len(levels) <= MaxLevels
  /\ current_level \in 0..Len(levels)
  /\ ticks_at_level \in Nat /\ fired \in BOOLEAN

\* The updates since the level was last entered.
Stay == {i \in DOMAIN seen : \A j \in i..Len(seen) : seen[j].level = current_level}

\* The action of a level is taken exactly once in a stay at it, by the update
\* that completes sustain_ticks of them in a row, whatever levels were passed
\* before and whatever levels are added meanwhile (cascade_update).
FiresOncePerStay ==
  current_level > 0 =>
    LET l     == levels[current_level]
        needs == IF l.sustain_ticks > 0 THEN l.sustain_ticks ELSE 1
        start == Len(seen) - Cardinality(Stay)
    IN \A i \in Stay : (seen[i].action # "none") <=> (i - start = needs)
=============================================================================
