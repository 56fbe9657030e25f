------------------------------- MODULE Budget ------------------------------
(***************************************************************************)
(* The budget of memtrace-lite (src/src/budget.c) and the policy that acts *)
(* on its verdicts (src/src/budget_policy.c), which may also reset it.     *)
(* The caller hands the policy a verdict that an update returned: the last *)
(* one, or an older one that it kept, be it that the budget was updated or *)
(* reset since then.                                                       *)
(***************************************************************************)
EXTENDS Integers, Sequences, FiniteSets

CONSTANTS Sizes,        \* current_kb, limit_kb and warn_threshold_kb
          MaxUpdates    \* bound: updates between resets

VARIABLES limit_kb, warn_threshold_kb, current_kb, peak_kb, exceed_count,
          auto_reset_on_ok,     \* of the policy
          status,               \* the caller's: what the last update returned
          kept,                 \* the caller's: what any update returned so far
          seen                  \* history: the updates since the last reset

vars == <<limit_kb, warn_threshold_kb, current_kb, peak_kb, exceed_count,
          auto_reset_on_ok, status, kept, seen>>

\* budget_init and budget_policy_init
Init ==
  /\ limit_kb \in Sizes /\ warn_threshold_kb \in Sizes
  /\ auto_reset_on_ok \in BOOLEAN
  /\ current_kb = 0 /\ peak_kb = 0 /\ exceed_count = 0
  /\ status = "none" /\ kept = {} /\ seen = <<>>

fixed == <<limit_kb, warn_threshold_kb, auto_reset_on_ok>>

budget_reset ==
  /\ current_kb' = 0 /\ peak_kb' = 0 /\ exceed_count' = 0 /\ seen' = <<>>
  /\ UNCHANGED <<fixed, status, kept>>

\* Mutant: a limit is exceeded only above it.
Exceeds_Above(kb) == limit_kb > 0 /\ kb > limit_kb

Exceeds(kb) == limit_kb > 0 /\ kb >= limit_kb

Status(kb) ==
  IF Exceeds(kb) THEN "exceeded"
  ELSE IF warn_threshold_kb > 0 /\ kb >= warn_threshold_kb THEN "warn"
  ELSE "ok"

budget_update ==
  /\ Len(seen) < MaxUpdates
  /\ \E kb \in Sizes :
       /\ current_kb'   = kb
       /\ peak_kb'      = (IF kb > peak_kb THEN kb ELSE peak_kb)
       /\ exceed_count' = exceed_count + (IF Exceeds(kb) THEN 1 ELSE 0)
       /\ status'       = Status(kb)
       /\ kept'         = kept \cup {Status(kb)}
       /\ seen'         = Append(seen, kb)
  /\ UNCHANGED fixed

\* The verdicts of which the policy only picks an action.
EvaluateActs(st) == st \in {"warn", "exceeded"} /\ UNCHANGED vars

EvaluateOk(st) ==
  /\ st = "ok"
  /\ IF auto_reset_on_ok THEN budget_reset ELSE UNCHANGED vars

EvaluateWith(st) == EvaluateActs(st) \/ EvaluateOk(st)

budget_policy_evaluate == \E st \in kept : EvaluateWith(st)

budget_is_exceeded == limit_kb > 0 /\ current_kb >= limit_kb

Next == budget_update \/ budget_policy_evaluate \/ budget_reset

Spec == Init /\ [][Next]_vars

-----------------------------------------------------------------------------
\* Every variable has its type.
TypeOK ==
  /\ {limit_kb, warn_threshold_kb, current_kb, peak_kb} \subseteq Sizes
  /\ exceed_count \in Nat
  /\ kept \subseteq {"ok", "warn", "exceeded"} /\ status \in {"none"} \cup kept

\* The verdict the caller holds is the one budget_is_exceeded gives, but for a
\* reset in between, and the count and the peak are those of the updates since
\* the reset (budget_update, budget_is_exceeded, budget_policy_evaluate).
BudgetTrue ==
  /\ seen # <<>> => (budget_is_exceeded <=> status = "exceeded")
  /\ seen = <<>> => ~budget_is_exceeded
  /\ exceed_count = Cardinality({i \in DOMAIN seen : limit_kb > 0 /\ seen[i] >= limit_kb})
  /\ \A i \in DOMAIN seen : seen[i] <= peak_kb

\* The policy loses no count of a budget that is exceeded, if it is handed the
\* verdict of the last update: an older "ok" makes it reset, and forget, a budget
\* that has been exceeded since (budget_policy_evaluate).
ResetsWithinLimit == [][EvaluateWith(status) /\ exceed_count' < exceed_count
                        => ~budget_is_exceeded]_vars
=============================================================================
