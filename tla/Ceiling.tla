------------------------------ MODULE Ceiling ------------------------------
(***************************************************************************)
(* The ceiling of memtrace-lite (src/src/ceiling.c): values that may be    *)
(* negative, a hard limit that is always enabled and a soft limit that is  *)
(* disabled unless positive.                                               *)
(***************************************************************************)
EXTENDS Integers, Sequences, FiniteSets

CONSTANTS Values,       \* values and the two limits
          MaxChecks     \* bound: checks between resets

VARIABLES hard_limit, soft_limit,       \* cfg
          active, breach_count, consecutive, last_breach_value,
          seen          \* history: the values checked since the last reset

vars == <<hard_limit, soft_limit, active, breach_count, consecutive,
          last_breach_value, seen>>

\* ceiling_init
Init ==
  /\ hard_limit \in Values /\ soft_limit \in Values
  /\ active = FALSE /\ breach_count = 0 /\ consecutive = 0
  /\ last_breach_value = 0 /\ seen = <<>>

\* Mutant: the run of hard breaches goes on.
ceiling_reset_KeepsRun ==
  /\ active' = FALSE /\ breach_count' = 0
  /\ last_breach_value' = 0 /\ seen' = <<>>
  /\ UNCHANGED <<hard_limit, soft_limit, consecutive>>

ceiling_reset ==
  /\ active' = FALSE /\ breach_count' = 0 /\ consecutive' = 0
  /\ last_breach_value' = 0 /\ seen' = <<>>
  /\ UNCHANGED <<hard_limit, soft_limit>>

CheckHard(v) ==
  /\ v >= hard_limit
  /\ breach_count' = breach_count + 1
  /\ consecutive' = consecutive + 1
  /\ active' = TRUE
  /\ last_breach_value' = v

\* Mutant: the ceiling is active only as long as values breach it.
CheckSoft_Ends(v) ==
  /\ v < hard_limit /\ soft_limit > 0 /\ v >= soft_limit
  /\ consecutive' = 0 /\ active' = FALSE
  /\ UNCHANGED <<breach_count, last_breach_value>>

\* active is left as it is.
CheckSoft(v) ==
  /\ v < hard_limit /\ soft_limit > 0 /\ v >= soft_limit
  /\ consecutive' = 0
  /\ UNCHANGED <<active, breach_count, last_breach_value>>

CheckOk(v) ==
  /\ v < hard_limit /\ ~(soft_limit > 0 /\ v >= soft_limit)
  /\ consecutive' = 0 /\ active' = FALSE
  /\ UNCHANGED <<breach_count, last_breach_value>>

ceiling_check ==
  /\ Len(seen) < MaxChecks
  /\ \E v \in Values :
       /\ CheckHard(v) \/ CheckSoft(v) \/ CheckOk(v)
       /\ seen' = Append(seen, v)
  /\ UNCHANGED <<hard_limit, soft_limit>>

Next == ceiling_check \/ ceiling_reset

Spec == Init /\ [][Next]_vars

-----------------------------------------------------------------------------
\* Every variable has its type.
TypeOK ==
  /\ {hard_limit, soft_limit} \subseteq Values
  /\ active \in BOOLEAN
  /\ breach_count \in Nat /\ consecutive \in 0..breach_count

Breaches == {i \in DOMAIN seen : seen[i] >= hard_limit}

LastBreach == CHOOSE i \in Breaches : \A j \in Breaches : j <= i

\* Active has hysteresis: it begins with a hard breach, lasts while values stay
\* in the soft band, however long, and ends with the first value below it or,
\* without a soft limit, below the hard one.  The counters know nothing of the
\* band, and the last breach is remembered beyond it (ceiling_check).
ActiveHasHysteresis ==
  /\ breach_count = Cardinality(Breaches)
  /\ active <=> /\ Breaches # {}
                /\ \A i \in DOMAIN seen : i > LastBreach =>
                     soft_limit > 0 /\ seen[i] >= soft_limit
  /\ Breaches # {} => last_breach_value = seen[LastBreach]
  /\ consecutive > 0 <=> seen # <<>> /\ Len(seen) \in Breaches
  /\ \A i \in DOMAIN seen : i > Len(seen) - consecutive => i \in Breaches
=============================================================================
