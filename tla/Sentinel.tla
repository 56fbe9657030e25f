------------------------------ MODULE Sentinel -----------------------------
(***************************************************************************)
(* The sentinel of memtrace-lite (src/src/sentinel.c): a value is compared *)
(* with two thresholds, and a callback hears of trips.  The callback gets  *)
(* an event and not the sentinel; one that has the sentinel all the same   *)
(* may reset it, and the check then returns the state after that.          *)
(***************************************************************************)
EXTENDS Integers

CONSTANTS Sizes,        \* values, and thresholds of which 0 is disabled
          CounterMod    \* trip_count wraps at this value (2^32)

VARIABLES warn_kb, critical_kb,     \* fixed by sentinel_init
          callback,                 \* "none", "quiet" or "reset"
          state, last_value_kb, trip_count,
          heard                     \* history: the value of the last check, and the
                                    \* state the callback was told, OK if nothing

vars == <<warn_kb, critical_kb, callback, state, last_value_kb, trip_count, heard>>

OK == 0
WARN == 1
CRITICAL == 2

sentinel_init ==
  /\ warn_kb \in Sizes /\ critical_kb \in Sizes
  /\ callback = "none"
  /\ state = OK /\ last_value_kb = 0 /\ trip_count = 0
  /\ heard = [value_kb |-> 0, state |-> OK]

Init == sentinel_init

sentinel_set_callback ==
  /\ callback' \in {"none", "quiet", "reset"}
  /\ UNCHANGED <<warn_kb, critical_kb, state, last_value_kb, trip_count, heard>>

Forget ==
  /\ state' = OK /\ last_value_kb' = 0 /\ trip_count' = 0
  /\ UNCHANGED <<warn_kb, critical_kb, callback>>

sentinel_reset == Forget /\ UNCHANGED heard

StateOf(kb) ==
  IF critical_kb > 0 /\ kb >= critical_kb THEN CRITICAL
  ELSE IF warn_kb > 0 /\ kb >= warn_kb THEN WARN
  ELSE OK

\* Mutant: only the step from OK trips.
Trips_FromOk(kb) == StateOf(kb) > OK /\ state = OK

Trips(kb) == StateOf(kb) > OK /\ StateOf(kb) >= state

\* The callback, if there is one, is told the level of the value.
Tells(kb) ==
  heard' = [value_kb |-> kb, state |-> IF callback = "none" THEN OK ELSE StateOf(kb)]

CheckTrips ==
  /\ \E kb \in Sizes :
       Trips(kb) /\ state' = StateOf(kb) /\ last_value_kb' = kb /\ Tells(kb)
  /\ callback # "reset"
  /\ trip_count' = (trip_count + 1) % CounterMod
  /\ UNCHANGED <<warn_kb, critical_kb, callback>>

CheckTripsResets ==
  /\ \E kb \in Sizes : Trips(kb) /\ Tells(kb)
  /\ callback = "reset"
  /\ Forget

CheckPasses ==
  /\ \E kb \in Sizes :
       /\ ~Trips(kb) /\ state' = StateOf(kb) /\ last_value_kb' = kb
       /\ heard' = [value_kb |-> kb, state |-> OK]
  /\ UNCHANGED <<warn_kb, critical_kb, callback, trip_count>>

sentinel_check == CheckTrips \/ CheckTripsResets \/ CheckPasses

Next == sentinel_set_callback \/ sentinel_reset \/ sentinel_check

Spec == Init /\ [][Next]_vars

-----------------------------------------------------------------------------
\* Every variable has its type.
TypeOK ==
  /\ warn_kb \in Sizes /\ critical_kb \in Sizes
  /\ callback \in {"none", "quiet", "reset"}
  /\ state \in OK..CRITICAL /\ last_value_kb \in Sizes
  /\ trip_count \in 0..(CounterMod - 1)
  /\ heard \in [value_kb : Sizes, state : OK..CRITICAL]

\* No step up goes unheard, from WARN to CRITICAL either, and no step down is
\* counted; a callback is told of every value above the state of the sentinel, and
\* of no level but the value's, also if it resets the sentinel, whose state does not
\* show the step (sentinel_check).  trip_count changes with every trip that stays.
StepsUpTrip ==
  [][/\ state' > state => trip_count' # trip_count
     /\ state' < state => trip_count' \in {trip_count, 0}
     /\ sentinel_check /\ callback # "none" =>
          LET level == StateOf(heard'.value_kb)
          IN  /\ level > state => heard'.state = level
              /\ heard'.state # OK => heard'.state = level /\ level >= state]_vars

\* A trip changes the state.  test_sentinel.c:85-87 says of a second check at
\* the level of the first: "sustained warn - no new trip since state didn't
\* escalate", and sentinel.h:5 says of the sentinel: "Fires a callback on state
\* transitions".
TripsOnTransitions == [][CheckTrips => state' # state]_vars
=============================================================================
