------------------------------- MODULE Quota -------------------------------
(***************************************************************************)
(* The quota of memtrace-lite (src/src/quota.c): a check compares usage    *)
(* with a soft and a hard limit, and quota_status repeats the verdict      *)
(* later from the value it stored.                                         *)
(***************************************************************************)
EXTENDS Integers

CONSTANTS Sizes,        \* current_kb and the limits
          MaxChecks     \* bound: checks counted between resets

VARIABLES soft_limit_kb, hard_limit_kb, current_kb, exceed_count, warn_count,
          verdict       \* history: what the last check since the reset returned

vars == <<soft_limit_kb, hard_limit_kb, current_kb, exceed_count, warn_count, verdict>>

OK == 0
WARN == 1
EXCEEDED == 2

\* quota_init
Init ==
  /\ soft_limit_kb \in Sizes /\ hard_limit_kb \in Sizes
  /\ current_kb = 0 /\ exceed_count = 0 /\ warn_count = 0 /\ verdict = OK

quota_reset ==
  /\ current_kb' = 0 /\ exceed_count' = 0 /\ warn_count' = 0 /\ verdict' = OK
  /\ UNCHANGED <<soft_limit_kb, hard_limit_kb>>

CheckExceeded(kb) ==
  /\ hard_limit_kb > 0 /\ kb >= hard_limit_kb
  /\ exceed_count' = exceed_count + 1
  /\ verdict' = EXCEEDED
  /\ UNCHANGED warn_count

CheckWarn(kb) ==
  /\ ~(hard_limit_kb > 0 /\ kb >= hard_limit_kb)
  /\ soft_limit_kb > 0 /\ kb >= soft_limit_kb
  /\ warn_count' = warn_count + 1
  /\ verdict' = WARN
  /\ UNCHANGED exceed_count

CheckOk(kb) ==
  /\ ~(hard_limit_kb > 0 /\ kb >= hard_limit_kb)
  /\ ~(soft_limit_kb > 0 /\ kb >= soft_limit_kb)
  /\ verdict' = OK
  /\ UNCHANGED <<exceed_count, warn_count>>

quota_check ==
  /\ exceed_count + warn_count < MaxChecks
  /\ \E kb \in Sizes :
       /\ current_kb' = kb
       /\ CheckExceeded(kb) \/ CheckWarn(kb) \/ CheckOk(kb)
  /\ UNCHANGED <<soft_limit_kb, hard_limit_kb>>

\* Mutant: the soft limit decides first.
quota_status_SoftFirst ==
  IF soft_limit_kb > 0 /\ current_kb >= soft_limit_kb THEN WARN
  ELSE IF hard_limit_kb > 0 /\ current_kb >= hard_limit_kb THEN EXCEEDED
  ELSE OK

quota_status ==
  IF hard_limit_kb > 0 /\ current_kb >= hard_limit_kb THEN EXCEEDED
  ELSE IF soft_limit_kb > 0 /\ current_kb >= soft_limit_kb THEN WARN
  ELSE OK

Next == quota_check \/ quota_reset

Spec == Init /\ [][Next]_vars

-----------------------------------------------------------------------------
\* Every variable has its type.
TypeOK ==
  /\ {soft_limit_kb, hard_limit_kb, current_kb} \subseteq Sizes
  /\ exceed_count \in Nat /\ warn_count \in Nat
  /\ verdict \in OK..EXCEEDED

\* quota_status gives the verdict of the last check, or of no usage after a
\* reset, although it works it out again from the stored value.
StatusIsVerdict == quota_status = verdict
=============================================================================
