------------------------------- MODULE Guard -------------------------------
(***************************************************************************)
(* The guard of memtrace-lite (src/src/guard.c) and the policy inside it   *)
(* (src/src/fence_policy.c).  A disarmed guard looks at nothing.           *)
(***************************************************************************)
EXTENDS Integers, Sequences, FiniteSets

CONSTANTS Sizes,        \* values and the limits
          MaxChecks     \* bound: checks between resets

VARIABLES soft_limit, hard_limit,
          action,       \* policy.action: what a soft breach calls for
          armed, breach_count, hard_breach_count, last_value,
          answers       \* history: what the checks made while armed returned

vars == <<soft_limit, hard_limit, action, armed,
          breach_count, hard_breach_count, last_value, answers>>

Actions == {"none", "warn", "throttle", "kill"}

\* guard_init with fence_policy_init
Init ==
  /\ soft_limit \in Sizes /\ hard_limit \in Sizes
  /\ action = "warn" /\ armed = TRUE
  /\ breach_count = 0 /\ hard_breach_count = 0 /\ last_value = 0 /\ answers = <<>>

limits == <<soft_limit, hard_limit>>

counts == <<breach_count, hard_breach_count, last_value, answers>>

guard_arm == armed' = TRUE /\ UNCHANGED <<limits, action, counts>>

guard_disarm == armed' = FALSE /\ UNCHANGED <<limits, action, counts>>

guard_reset ==
  /\ breach_count' = 0 /\ hard_breach_count' = 0 /\ last_value' = 0 /\ answers' = <<>>
  /\ UNCHANGED <<limits, action, armed>>

fence_policy_set_action ==
  /\ action' \in Actions
  /\ UNCHANGED <<limits, armed, counts>>

fence_policy_evaluate(v) ==
  IF hard_limit > 0 /\ v >= hard_limit THEN "kill"
  ELSE IF soft_limit > 0 /\ v >= soft_limit THEN action
  ELSE "none"

\* Mutant: a kill does not go on with the run.
Run_NotOfKills(a) ==
  IF a = "none" THEN 0 ELSE IF a = "kill" THEN breach_count ELSE breach_count + 1

Run(a) == IF a = "none" THEN 0 ELSE breach_count + 1

CheckArmed ==
  /\ armed
  /\ Len(answers) < MaxChecks
  /\ \E v \in Sizes :
       LET a == fence_policy_evaluate(v) IN
       /\ last_value' = v
       /\ breach_count' = Run(a)
       /\ hard_breach_count' = hard_breach_count + (IF a = "kill" THEN 1 ELSE 0)
       /\ answers' = Append(answers, a)
  /\ UNCHANGED <<limits, action, armed>>

CheckDisarmed == ~armed /\ UNCHANGED vars

guard_check == CheckArmed \/ CheckDisarmed

Next == guard_arm \/ guard_disarm \/ guard_reset \/ fence_policy_set_action \/ guard_check

Spec == Init /\ [][Next]_vars

-----------------------------------------------------------------------------
\* Every variable has its type.
TypeOK ==
  /\ {soft_limit, hard_limit, last_value} \subseteq Sizes
  /\ action \in Actions /\ armed \in BOOLEAN
  /\ breach_count \in Nat /\ hard_breach_count \in Nat

\* breach_count is the length of the run of answers, up to the last one, that
\* called for something; a spell without arms neither ends the run nor adds
\* to it, and a soft breach under the action NONE ends it (guard_check).
RunIsUnbroken ==
  /\ breach_count <= Len(answers)
  /\ \A i \in DOMAIN answers : i > Len(answers) - breach_count => answers[i] # "none"
  /\ breach_count < Len(answers) => answers[Len(answers) - breach_count] = "none"
  /\ hard_breach_count = Cardinality({i \in DOMAIN answers : answers[i] = "kill"})
=============================================================================
