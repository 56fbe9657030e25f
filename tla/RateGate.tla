------------------------------ MODULE RateGate -----------------------------
(***************************************************************************)
(* What a rate limiter promises: events pass at least interval apart, and  *)
(* an event that could pass is never blocked.  A gate may be switched off, *)
(* when everything passes and nothing is remembered, and it may be reset.  *)
(***************************************************************************)
EXTENDS Integers

CONSTANT Never        \* no event passed yet

VARIABLES now,        \* the time
          interval,   \* the least time between two events that pass
          enabled,    \* the gate is switched on
          last,       \* when the last event passed, or Never
          answer      \* "pass" or "block" for the last event at this time

gateVars == <<now, interval, enabled, last, answer>>

Far == last = Never \/ now - last >= interval

Init == last = Never /\ enabled = TRUE /\ answer = "none"

Pass ==
  /\ enabled /\ Far
  /\ last' = now /\ answer' = "pass"
  /\ UNCHANGED <<now, interval, enabled>>

Block ==
  /\ enabled /\ ~Far
  /\ answer' = "block"
  /\ UNCHANGED <<now, interval, enabled, last>>

Bypass ==
  /\ ~enabled
  /\ answer' = "pass"
  /\ UNCHANGED <<now, interval, enabled, last>>

Switch ==
  /\ enabled' \in BOOLEAN
  /\ answer' = "none"
  /\ UNCHANGED <<now, interval, last>>

Reset ==
  /\ last' = Never
  /\ answer' = "none"
  /\ UNCHANGED <<now, interval, enabled>>

Tick ==
  /\ now' > now
  /\ answer' = "none"
  /\ UNCHANGED <<interval, enabled, last>>

Next == Pass \/ Block \/ Bypass \/ Switch \/ Reset \/ Tick

Spec == Init /\ [][Next]_gateVars
=============================================================================
