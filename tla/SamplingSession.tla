-------------------------- MODULE SamplingSession --------------------------
(***************************************************************************)
(* What sampler.h and snapshot.h promise the caller of sampler_run: while  *)
(* a run is in progress samples are appended to the caller's log one at a  *)
(* time, oldest first; nothing else touches the log; and the run returns   *)
(* the number of samples it appended, or -1.  No capacity, no stop flag,   *)
(* no failing reads.                                                       *)
(***************************************************************************)
EXTENDS Integers, Sequences

CONSTANTS Callers,   \* the threads that call sampler_run
          Sample     \* the samples: integers, ordered by the time they were taken

VARIABLES samples,   \* samples[c]: the log of c, oldest first
          running,   \* running[c]: a call of sampler_run by c is in progress
          got,       \* got[c]: samples appended by the call in progress, or 0
          outcome    \* outcome[c]: what the last call returned

sessionVars == <<samples, running, got, outcome>>

Init ==
  /\ samples = [c \in Callers |-> <<>>]
  /\ running = [c \in Callers |-> FALSE]
  /\ got     = [c \in Callers |-> 0]
  /\ outcome = [c \in Callers |-> 0]

Start(c) ==
  /\ ~running[c]
  /\ running' = [running EXCEPT ![c] = TRUE]
  /\ UNCHANGED <<samples, got, outcome>>

\* A sample is newer than everything already in the log.
Collect(c) ==
  /\ running[c]
  /\ \E s \in Sample :
       /\ \A i \in 1..Len(samples[c]) : samples[c][i] < s
       /\ samples' = [samples EXCEPT ![c] = Append(@, s)]
  /\ got' = [got EXCEPT ![c] = @ + 1]
  /\ UNCHANGED <<running, outcome>>

\* A run ends with the number of samples it appended, or with -1.
Finish(c) ==
  /\ running[c]
  /\ running' = [running EXCEPT ![c] = FALSE]
  /\ \E r \in {got[c], -1} : outcome' = [outcome EXCEPT ![c] = r]
  /\ got' = [got EXCEPT ![c] = 0]
  /\ UNCHANGED samples

\* A call that is refused at once, and a log that is emptied between runs.
Refuse(c) ==
  /\ ~running[c]
  /\ outcome' = [outcome EXCEPT ![c] = -1]
  /\ UNCHANGED <<samples, running, got>>

Discard(c) ==
  /\ ~running[c]
  /\ samples' = [samples EXCEPT ![c] = <<>>]
  /\ outcome' = [outcome EXCEPT ![c] = 0]
  /\ UNCHANGED <<running, got>>

Next == \E c \in Callers :
          Start(c) \/ Collect(c) \/ Finish(c) \/ Refuse(c) \/ Discard(c)

Spec == Init /\ [][Next]_sessionVars
=============================================================================
