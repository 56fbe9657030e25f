------------------------------- MODULE Fence -------------------------------
(***************************************************************************)
(* The fence of memtrace-lite (src/src/fence.c): usage against a soft and  *)
(* a hard limit, each disabled by 0 and given in either order.             *)
(***************************************************************************)
EXTENDS Integers, Sequences, FiniteSets

CONSTANTS Sizes,        \* current_kb and the limits
          MaxChecks     \* bound: checks between resets

VARIABLES soft_kb, hard_kb, warn_count, breach_count, peak_kb,
          seen          \* history: the values checked since the last reset

vars == <<soft_kb, hard_kb, warn_count, breach_count, peak_kb, seen>>

\* fence_init
Init ==
  /\ soft_kb \in Sizes /\ hard_kb \in Sizes
  /\ warn_count = 0 /\ breach_count = 0 /\ peak_kb = 0 /\ seen = <<>>

fence_reset ==
  /\ warn_count' = 0 /\ breach_count' = 0 /\ peak_kb' = 0 /\ seen' = <<>>
  /\ UNCHANGED <<soft_kb, hard_kb>>

Breach(kb) == hard_kb > 0 /\ kb >= hard_kb

\* Mutant: a breach is warned of as well.
Warn_Both(kb) == soft_kb > 0 /\ kb >= soft_kb

Warn(kb) == ~Breach(kb) /\ soft_kb > 0 /\ kb >= soft_kb

fence_check ==
  /\ Len(seen) < MaxChecks
  /\ \E kb \in Sizes :
       /\ peak_kb'      = IF kb > peak_kb THEN kb ELSE peak_kb
       /\ breach_count' = breach_count + (IF Breach(kb) THEN 1 ELSE 0)
       /\ warn_count'   = warn_count + (IF Warn(kb) THEN 1 ELSE 0)
       /\ seen'         = Append(seen, kb)
  /\ UNCHANGED <<soft_kb, hard_kb>>

Next == fence_check \/ fence_reset

Spec == Init /\ [][Next]_vars

-----------------------------------------------------------------------------
\* Every variable has its type.
TypeOK ==
  /\ {soft_kb, hard_kb, peak_kb} \subseteq Sizes
  /\ warn_count \in Nat /\ breach_count \in Nat

Over(limit) == {i \in DOMAIN seen : limit > 0 /\ seen[i] >= limit}

\* Every check over an enabled limit since the reset is counted once, over
\* both as a breach, and the peak is one of the values checked (fence_check).
CountsOnce ==
  /\ breach_count = Cardinality(Over(hard_kb))
  /\ warn_count + breach_count = Cardinality(Over(soft_kb) \cup Over(hard_kb))
  /\ \A i \in DOMAIN seen : seen[i] <= peak_kb
  /\ peak_kb > 0 => \E i \in DOMAIN seen : seen[i] = peak_kb
=============================================================================
